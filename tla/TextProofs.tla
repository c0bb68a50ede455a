------------------------------ MODULE TextProofs ------------------------------
(*****************************************************************************)
(* Texts that are joined of fields and split into them (Fields), and the     *)
(* theorems of Parsers that rest on it: every UPID, however it was cut, is   *)
(* read as the task it was written for (UPIDsReadBack), every tail of an     *)
(* active line as what it says (LinesReadBack), and every subject as what it *)
(* was built of (SubjectsRoute).                                             *)
(*****************************************************************************)
EXTENDS Parsers, SequenceLemmas
-----------------------------------------------------------------------------
(* Joining                                                                   *)

(* One text needs no separator.                                              *)
LEMMA JoinOne ==
  ASSUME NEW t, NEW sep PROVE Join(<<t>>, sep) = t
<1>1. [i \in DOMAIN <<t>> |-> IF i = 1 THEN <<t>>[1] ELSE <<sep>> \o <<t>>[i]] = <<t>>
  OBVIOUS
<1> QED BY <1>1, FlattenOne DEF Join

(* One more text comes behind a separator.                                   *)
LEMMA JoinAppend ==
  ASSUME NEW P, NEW sep \in P, NEW texts \in Seq(Seq(P)), texts # <<>>, NEW t \in Seq(P)
  PROVE  Join(Append(texts, t), sep) = Join(texts, sep) \o (<<sep>> \o t)
<1> DEFINE J(ts) == [i \in DOMAIN ts |-> IF i = 1 THEN ts[1] ELSE <<sep>> \o ts[i]]
<1>1. J(texts) \in Seq(Seq(P)) /\ J(texts) # <<>> /\ <<sep>> \o t \in Seq(P)
  <2>1. \A i \in 1..Len(texts) : texts[i] \in Seq(P)
    OBVIOUS
  <2>2. \A x \in Seq(P) : <<sep>> \o x \in Seq(P)
    OBVIOUS
  <2>3. DOMAIN texts = 1..Len(texts) /\ Len(texts) \in Nat \ {0}
    OBVIOUS
  <2> QED BY <2>1, <2>2, <2>3
<1>2. J(Append(texts, t)) = Append(J(texts), <<sep>> \o t)
  <2>1. /\ DOMAIN texts = 1..Len(texts) /\ Len(texts) \in Nat \ {0}
        /\ DOMAIN Append(texts, t) = 1..Len(texts) + 1
        /\ \A i \in 1..Len(texts) : Append(texts, t)[i] = texts[i]
        /\ Append(texts, t)[Len(texts) + 1] = t
    OBVIOUS
  <2>2. /\ Len(J(texts)) = Len(texts)
        /\ \A i \in 1..Len(texts) : J(texts)[i] = J(Append(texts, t))[i]
        /\ J(Append(texts, t))[Len(texts) + 1] = <<sep>> \o t
    BY <2>1
  <2>3. DOMAIN J(Append(texts, t)) = 1..Len(texts) + 1
    BY <2>1
  <2>4. J(Append(texts, t)) = [i \in 1..Len(texts) + 1 |-> J(Append(texts, t))[i]]
    BY <2>3
  <2> DEFINE a == J(texts)
             b == J(Append(texts, t))
             x == <<sep>> \o t
  <2> HIDE DEF J, x
  <2>5. a \in Seq(Seq(P)) /\ x \in Seq(P)
    BY <1>1 DEF x
  <2>6. Len(a) = Len(texts) /\ \A i \in 1..Len(texts) : b[i] = a[i]
    BY <2>2
  <2>7. b[Len(texts) + 1] = x /\ b = [i \in 1..Len(texts) + 1 |-> b[i]]
    BY <2>2, <2>4 DEF x
  <2> HIDE DEF a, b
  <2>8. b \in Seq(Seq(P)) /\ Len(b) = Len(texts) + 1
    <3>1. \A i \in 1..Len(texts) : a[i] \in Seq(P)
      BY <2>5, <2>6
    <3>2. \A i \in 1..Len(texts) + 1 : b[i] \in Seq(P)
      <4>1. \A i \in 1..Len(texts) + 1 : i \in 1..Len(texts) \/ i = Len(texts) + 1
        BY <2>1
      <4>2. \A i \in 1..Len(texts) : b[i] \in Seq(P)
        BY <2>6, <3>1
      <4>3. b[Len(texts) + 1] \in Seq(P)
        BY <2>5, <2>7
      <4> QED BY <4>1, <4>2, <4>3, Zenon
    <3> QED BY <2>1, <2>7, <3>2
  <2>9. b = Append(a, x)
    <3>1. /\ Append(a, x) \in Seq(Seq(P)) /\ Len(Append(a, x)) = Len(texts) + 1
          /\ \A i \in 1..Len(texts) : Append(a, x)[i] = a[i]
          /\ Append(a, x)[Len(texts) + 1] = x
      BY <2>5, <2>6, AppendProperties
    <3>2. \A i \in 1..Len(b) : b[i] = Append(a, x)[i]
      <4>1. \A i \in 1..Len(b) : i \in 1..Len(texts) \/ i = Len(texts) + 1
        BY <2>1, <2>8
      <4> QED BY <2>6, <2>7, <3>1, <4>1, Zenon
    <3> QED BY <2>8, <3>1, <3>2, SeqEqual, Zenon
  <2> QED BY <2>9 DEF a, b, x
<1>3. Join(Append(texts, t), sep) = FlattenSeq(J(Append(texts, t)))
  BY DEF Join
<1>4. Join(texts, sep) = FlattenSeq(J(texts))
  BY DEF Join
<1> HIDE DEF J
<1> QED BY <1>1, <1>2, <1>3, <1>4, FlattenAppend
-----------------------------------------------------------------------------
(* Splitting what was joined                                                 *)

\* Where the n fields of a text are: the separators are at e[1] to e[n - 1],
\* and e[0] and e[n] stand before its beginning and behind its end.
Marks(text, sep, n, e) ==
  /\ n \in Nat \ {0} /\ e \in [0..n -> Nat]
  /\ e[0] = 0 /\ e[n] = Len(text) + 1
  /\ \A i \in 0..n, j \in 0..n : i < j => e[i] < e[j]
  /\ \A i \in DOMAIN text : text[i] = sep <=> \E k \in 1..n - 1 : i = e[k]

(* As many of the marks are before the k-th as there are numbers below k.    *)
LEMMA CountMarks ==
  ASSUME NEW n \in Nat, NEW e \in [0..n -> Nat],
         \A i \in 0..n, j \in 0..n : i < j => e[i] < e[j],
         NEW k \in 0..n + 1
  PROVE  Cardinality({e[i] : i \in 0..k - 1}) = k
<1> DEFINE S == {e[i] : i \in 0..k - 1}
           f == [i \in 1..k |-> e[i - 1]]
<1>1. f \in [1..k -> S]
  OBVIOUS
<1>2. \A i \in 1..k, j \in 1..k : f[i] = f[j] => i = j
  <2>1. \A i \in 0..n, j \in 0..n : e[i] = e[j] => i = j
    OBVIOUS
  <2> QED BY <2>1
<1>3. \A t \in S : \E i \in 1..k : f[i] = t
  <2> SUFFICES ASSUME NEW i \in 0..k - 1 PROVE \E j \in 1..k : f[j] = e[i]
    OBVIOUS
  <2>1. i + 1 \in 1..k /\ f[i + 1] = e[i]
    OBVIOUS
  <2> QED BY <2>1
<1> HIDE DEF S, f
<1>4. f \in Bijection(1..k, S)
  BY <1>1, <1>2, <1>3 DEF Bijection, Injection, Surjection, IsInjective
<1>5. Cardinality(S) = k
  BY <1>4, FS_CountingElements DEF ExistsBijection
<1> QED BY <1>5 DEF S

(* Split gives what is between one mark and the next.                        *)
LEMMA SplitAtMarks ==
  ASSUME NEW P, NEW text \in Seq(P), NEW sep, NEW n, NEW e, Marks(text, sep, n, e)
  PROVE  Split(text, sep) = [k \in 1..n |-> SubSeq(text, e[k - 1] + 1, e[k] - 1)]
<1> DEFINE ends == {0, Len(text) + 1} \cup {i \in DOMAIN text : text[i] = sep}
           End(k) == CHOOSE i \in ends : Cardinality({j \in ends : j < i}) = k
<1>1. ends = {e[i] : i \in 0..n}
  <2>1. \A i \in 0..n : i = 0 \/ i = n \/ i \in 1..n - 1
    BY DEF Marks
  <2>2. \A k \in 1..n - 1 : e[k] \in DOMAIN text
    <3> TAKE k \in 1..n - 1
    <3>1. 0 < e[k] /\ e[k] < Len(text) + 1 /\ e[k] \in Nat
      BY DEF Marks
    <3> QED BY <3>1
  <2>3. \A i \in 0..n : e[i] \in ends
    BY <2>1, <2>2 DEF Marks
  <2>4. \A x \in ends : \E i \in 0..n : x = e[i]
    BY DEF Marks
  <2> QED BY <2>3, <2>4
<1>2. n \in Nat \ {0} /\ e \in [0..n -> Nat] /\ \A i \in 0..n, j \in 0..n : i < j => e[i] < e[j]
  BY DEF Marks
<1>0. \A k \in 0..n + 1 : Cardinality({e[i] : i \in 0..k - 1}) = k
  <2>1. n \in Nat
    BY <1>2
  <2> QED BY <1>2, <2>1, CountMarks, Zenon
<1>3. Cardinality(ends) = n + 1
  <2>1. n + 1 \in 0..n + 1 /\ (n + 1) - 1 = n
    BY <1>2
  <2>2. Cardinality({e[i] : i \in 0..(n + 1) - 1}) = n + 1
    BY <1>0, <2>1, Zenon
  <2> QED BY <1>1, <2>1, <2>2
<1> HIDE DEF ends
<1>4. \A k \in 0..n : Cardinality({j \in ends : j < e[k]}) = k
  <2> TAKE k \in 0..n
  <2>1. {j \in ends : j < e[k]} = {e[i] : i \in 0..k - 1}
    BY <1>1, <1>2
  <2>2. Cardinality({e[i] : i \in 0..k - 1}) = k
    <3>1. k \in 0..n + 1
      BY <1>2
    <3> QED BY <1>0, <3>1, Zenon
  <2> QED BY <2>1, <2>2
<1>5. \A k \in 0..n : End(k) = e[k]
  <2> TAKE k \in 0..n
  <2>1. e[k] \in ends /\ Cardinality({j \in ends : j < e[k]}) = k
    BY <1>1, <1>4
  <2>2. \A i \in ends : Cardinality({j \in ends : j < i}) = k => i = e[k]
    BY <1>1, <1>4
  <2> QED BY <2>1, <2>2
<1>6. Split(text, sep) = [k \in 1..Cardinality(ends) - 1 |-> SubSeq(text, End(k - 1) + 1, End(k) - 1)]
  BY Zenon DEF Split, ends
<1> HIDE DEF End
<1>7. \A k \in 1..n : End(k - 1) = e[k - 1] /\ End(k) = e[k]
  BY <1>2, <1>5
<1>8. Cardinality(ends) - 1 = n
  BY <1>2, <1>3
<1> QED BY <1>6, <1>7, <1>8

\* e marks the fields of the text that is joined of texts, which are these.
MarksFields(texts, sep, P, e) ==
  /\ Join(texts, sep) \in Seq(P)
  /\ Marks(Join(texts, sep), sep, Len(texts), e)
  /\ \A k \in 1..Len(texts) : SubSeq(Join(texts, sep), e[k - 1] + 1, e[k] - 1) = texts[k]

(* A text without a separator has one field, itself.                         *)
LEMMA OneField ==
  ASSUME NEW P, NEW sep \in P, NEW t \in Seq(P \ {sep})
  PROVE  \E e : MarksFields(<<t>>, sep, P, e)
<1> DEFINE e == [i \in 0..1 |-> IF i = 0 THEN 0 ELSE Len(t) + 1]
<1>1. Join(<<t>>, sep) = t /\ Len(<<t>>) = 1 /\ <<t>>[1] = t
  BY JoinOne
<1>2. t \in Seq(P) /\ Len(t) \in Nat
  BY SeqMonotonic
<1>3. \A i \in DOMAIN t : t[i] # sep
  OBVIOUS
<1>4. Marks(t, sep, 1, e)
  BY <1>2, <1>3 DEF Marks
<1>5. SubSeq(t, e[0] + 1, e[1] - 1) = t
  BY <1>2, SubSeqFull
<1> HIDE DEF e
<1>6. \A k \in 1..1 : SubSeq(t, e[k - 1] + 1, e[k] - 1) = <<t>>[k]
  <2>1. \A k \in 1..1 : k = 1 /\ k - 1 = 0
    OBVIOUS
  <2> QED BY <1>1, <1>5, <2>1, Zenon
<1> DEFINE texts == <<t>>
<1> HIDE DEF texts
<1>7. MarksFields(texts, sep, P, e)
  BY <1>1, <1>2, <1>4, <1>6 DEF MarksFields, texts
<1> QED BY <1>7 DEF texts

(* A field more has one mark more, behind the separator before it.           *)
LEMMA MoreFields ==
  ASSUME NEW P, NEW sep \in P, NEW texts \in Seq(Seq(P \ {sep})), texts # <<>>,
         NEW t \in Seq(P \ {sep}), NEW e, MarksFields(texts, sep, P, e)
  PROVE  \E f : MarksFields(Append(texts, t), sep, P, f)
<1> DEFINE old == Join(texts, sep)
           new == Join(Append(texts, t), sep)
           n == Len(texts)
           f == [i \in 0..n + 1 |-> IF i = n + 1 THEN Len(new) + 1 ELSE e[i]]
<1>1. texts \in Seq(Seq(P)) /\ t \in Seq(P)
  <2>1. Seq(P \ {sep}) \subseteq Seq(P)
    BY SeqMonotonic
  <2> QED BY <2>1, SeqMonotonic
<1>2. new = old \o (<<sep>> \o t)
  BY <1>1, JoinAppend
<1>3. /\ old \in Seq(P) /\ Marks(old, sep, n, e)
      /\ \A k \in 1..n : SubSeq(old, e[k - 1] + 1, e[k] - 1) = texts[k]
  BY DEF MarksFields
<1>4. /\ n \in Nat \ {0} /\ Len(Append(texts, t)) = n + 1
      /\ \A i \in 1..n : Append(texts, t)[i] = texts[i]
      /\ Append(texts, t)[n + 1] = t
  OBVIOUS
<1> HIDE DEF old, new, n
<1>5. /\ new \in Seq(P) /\ Len(old) \in Nat /\ Len(t) \in Nat
      /\ Len(new) = Len(old) + 1 + Len(t)
      /\ \A i \in 1..Len(old) : new[i] = old[i]
      /\ new[Len(old) + 1] = sep
      /\ \A i \in 1..Len(t) : new[Len(old) + 1 + i] = t[i]
  <2> DEFINE x == <<sep>> \o t
  <2>1. /\ x \in Seq(P) /\ Len(x) = 1 + Len(t) /\ x[1] = sep
        /\ \A i \in 1..Len(t) : x[1 + i] = t[i]
    BY <1>1
  <2>2. Len(old) \in Nat /\ Len(t) \in Nat
    BY <1>1, <1>3
  <2> HIDE DEF x
  <2>3. /\ old \o x \in Seq(P) /\ Len(old \o x) = Len(old) + Len(x)
        /\ \A i \in 1..Len(old) + Len(x) : (old \o x)[i] = IF i <= Len(old) THEN old[i] ELSE x[i - Len(old)]
    BY <1>3, <2>1, ConcatProperties
  <2>4. new = old \o x
    BY <1>2 DEF x
  <2>5. \A i \in 1..Len(t) : new[Len(old) + 1 + i] = x[1 + i]
    BY <2>1, <2>2, <2>3, <2>4
  <2> QED BY <2>1, <2>2, <2>3, <2>4, <2>5
<1>6. Marks(new, sep, n + 1, f)
  <2>1. /\ e \in [0..n -> Nat] /\ e[0] = 0 /\ e[n] = Len(old) + 1
        /\ \A i \in 0..n, j \in 0..n : i < j => e[i] < e[j]
        /\ \A i \in 1..Len(old) : old[i] = sep <=> \E k \in 1..n - 1 : i = e[k]
    <3>1. DOMAIN old = 1..Len(old)
      BY <1>3
    <3> QED BY <1>3, <3>1, Zenon DEF Marks
  <2>2. f \in [0..n + 1 -> Nat] /\ f[0] = 0 /\ f[n + 1] = Len(new) + 1
    BY <1>4, <1>5, <2>1
  <2>3. \A i \in 0..n : f[i] = e[i]
    BY <1>4
  <2>4. \A i \in 0..n : e[i] <= Len(old) + 1
    <3> TAKE i \in 0..n
    <3>1. i = n \/ i < n
      BY <1>4
    <3>2. i < n => e[i] < e[n]
      BY <1>4, <2>1
    <3>3. e[i] \in Nat /\ e[n] = Len(old) + 1
      BY <2>1
    <3> QED BY <1>5, <3>1, <3>2, <3>3
  <2> HIDE DEF f
  <2>5. \A i \in 0..n + 1, j \in 0..n + 1 : i < j => f[i] < f[j]
    <3> TAKE i \in 0..n + 1, j \in 0..n + 1
    <3> HAVE i < j
    <3>1. i \in 0..n /\ f[i] = e[i] /\ e[i] <= Len(old) + 1
      BY <1>4, <2>3, <2>4
    <3>2. CASE j = n + 1
      BY <1>4, <1>5, <2>1, <2>2, <3>1, <3>2
    <3>3. CASE j # n + 1
      <4>1. j \in 0..n /\ f[j] = e[j]
        BY <1>4, <2>3, <3>3
      <4> QED BY <2>1, <3>1, <4>1
    <3> QED BY <3>2, <3>3
  <2>6. \A i \in 1..Len(new) : new[i] = sep <=> \E k \in 1..n : i = f[k]
    <3> TAKE i \in 1..Len(new)
    <3>1. CASE i <= Len(old)
      <4>1. new[i] = sep <=> \E k \in 1..n - 1 : i = e[k]
        BY <1>5, <2>1, <3>1
      <4>2. e[n] # i
        BY <1>5, <2>1, <3>1
      <4>3. \A k \in 1..n : f[k] = e[k] /\ (k \in 1..n - 1 \/ k = n)
        BY <1>4, <2>3
      <4>4. \A k \in 1..n - 1 : k \in 1..n
        BY <1>4
      <4> QED BY <4>1, <4>2, <4>3, <4>4, Zenon
    <3>2. CASE i = Len(old) + 1
      <4>1. n \in 1..n /\ f[n] = e[n]
        BY <1>4, <2>3
      <4> QED BY <1>5, <2>1, <3>2, <4>1
    <3>3. CASE i > Len(old) + 1
      <4>1. /\ i \in Int /\ Len(old) \in Nat /\ Len(t) \in Nat
            /\ i > Len(old) + 1 /\ i <= Len(old) + 1 + Len(t)
        BY <1>5, <3>3
      <4>2. PICK j : j = i - Len(old) - 1
        OBVIOUS
      <4>3. j \in 1..Len(t) /\ i = Len(old) + 1 + j
        BY <4>1, <4>2
      <4>4. new[i] = t[j] /\ t[j] # sep
        BY <1>5, <4>3, ElementOfSeq
      <4>5. \A k \in 1..n : f[k] # i
        BY <1>5, <2>1, <2>3, <2>4, <3>3
      <4> QED BY <4>4, <4>5
    <3>4. i <= Len(old) \/ i = Len(old) + 1 \/ i > Len(old) + 1
      BY <1>5
    <3> QED BY <3>1, <3>2, <3>3, <3>4, Zenon
  <2>7. n + 1 \in Nat \ {0} /\ (n + 1) - 1 = n /\ DOMAIN new = 1..Len(new)
    BY <1>4, <1>5
  <2> QED BY <2>2, <2>5, <2>6, <2>7, Zenon DEF Marks
<1>7. \A k \in 1..n + 1 : SubSeq(new, f[k - 1] + 1, f[k] - 1) = Append(texts, t)[k]
  <2>1. \A k \in 1..n : SubSeq(new, f[k - 1] + 1, f[k] - 1) = texts[k]
    <3> TAKE k \in 1..n
    <3>1. f[k - 1] = e[k - 1] /\ f[k] = e[k]
      BY <1>4
    <3>2. e[k - 1] \in Nat /\ e[k] \in Nat /\ e[k] <= Len(old) + 1
      <4>1. /\ e \in [0..n -> Nat] /\ e[n] = Len(old) + 1
            /\ \A i \in 0..n, j \in 0..n : i < j => e[i] < e[j]
        BY <1>3, Zenon DEF Marks
      <4>2. k - 1 \in 0..n /\ k \in 0..n /\ (k = n \/ k < n)
        BY <1>4
      <4>3. k < n => e[k] < e[n]
        BY <1>4, <4>1
      <4>4. e[k - 1] \in Nat /\ e[k] \in Nat
        BY <4>1, <4>2
      <4> QED BY <1>5, <4>1, <4>2, <4>3, <4>4
    <3>3. SubSeq(new, e[k - 1] + 1, e[k] - 1) = SubSeq(old, e[k - 1] + 1, e[k] - 1)
      <4> DEFINE a == e[k - 1] + 1
                 b == e[k] - 1
      <4>1. a \in Nat /\ b \in Int /\ a >= 1 /\ b <= Len(old)
        BY <1>5, <3>2, SMTT(30)
      <4> HIDE DEF a, b
      <4>2. \A i \in a..b : i \in 1..Len(new) /\ i \in 1..Len(old) /\ new[i] = old[i]
        BY <1>5, <4>1
      <4>3. SubSeq(new, a, b) = SubSeq(old, a, b)
        BY <1>3, <1>5, <4>1, <4>2, SubSeqSame
      <4> QED BY <4>3 DEF a, b
    <3> QED BY <1>3, <3>1, <3>3
  <2>2. SubSeq(new, f[n] + 1, f[n + 1] - 1) = t
    <3>1. f[n] = Len(old) + 1 /\ f[n + 1] = Len(new) + 1
      <4>1. e[n] = Len(old) + 1
        BY <1>3, Zenon DEF Marks
      <4> QED BY <1>4, <4>1
    <3> HIDE DEF f
    <3>2. \A i \in Len(old) + 2..Len(new) : new[i] \in P
      BY <1>5, ElementOfSeq
    <3>3. /\ SubSeq(new, Len(old) + 2, Len(new)) \in Seq(P)
          /\ Len(SubSeq(new, Len(old) + 2, Len(new))) = Len(t)
          /\ \A i \in 1..Len(t) : SubSeq(new, Len(old) + 2, Len(new))[i] = new[Len(old) + 1 + i]
      BY <1>5, <3>2, SubSeqProperties
    <3>4. SubSeq(new, Len(old) + 2, Len(new)) = t
      <4>1. \A i \in 1..Len(t) : new[Len(old) + 1 + i] = t[i]
        BY <1>5
      <4> DEFINE x == SubSeq(new, Len(old) + 2, Len(new))
      <4> HIDE DEF x
      <4>2. x \in Seq(P) /\ Len(x) = Len(t) /\ \A i \in 1..Len(x) : x[i] = t[i]
        BY <3>3, <4>1 DEF x
      <4>3. x = t
        BY <1>1, <4>2, SeqEqual
      <4> QED BY <4>3 DEF x
    <3>5. f[n] + 1 = Len(old) + 2 /\ f[n + 1] - 1 = Len(new)
      BY <1>5, <3>1
    <3> QED BY <3>4, <3>5
  <2> HIDE DEF f
  <2> QED BY <1>4, <2>1, <2>2
<1> HIDE DEF f
<1> QED BY <1>4, <1>5, <1>6, <1>7 DEF MarksFields, new

(* What is joined of texts without separators has them for its fields.       *)
LEMMA FieldsOfJoin ==
  ASSUME NEW P, NEW sep \in P, NEW texts \in Seq(Seq(P \ {sep})), texts # <<>>
  PROVE  \E e : MarksFields(texts, sep, P, e)
<1> DEFINE T == Seq(Seq(P \ {sep}))
           S == {n \in Nat : \A ts \in T : Len(ts) = n + 1 => \E e : MarksFields(ts, sep, P, e)}
<1>1. 0 \in S
  <2> SUFFICES ASSUME NEW ts \in T, Len(ts) = 0 + 1 PROVE \E e : MarksFields(ts, sep, P, e)
    OBVIOUS
  <2> DEFINE X == Seq(P \ {sep})
  <2> HIDE DEF X
  <2>0. ts \in Seq(X)
    BY DEF X
  <2>1. ts[1] \in X /\ ts = <<ts[1]>>
    <3>1. Len(ts) = 1 /\ ts[1] \in X
      <4>1. Len(ts) = 1
        OBVIOUS
      <4>2. 1 \in 1..Len(ts)
        BY <4>1
      <4> QED BY <2>0, <4>1, <4>2, ElementOfSeq
    <3>2. <<ts[1]>> \in Seq(X) /\ Len(<<ts[1]>>) = 1 /\ <<ts[1]>>[1] = ts[1]
      BY <3>1
    <3> QED BY <2>0, <3>1, <3>2, SeqEqual
  <2> USE DEF X
  <2> QED BY <2>1, OneField
<1>2. ASSUME NEW n \in Nat, n \in S PROVE n + 1 \in S
  <2> SUFFICES ASSUME NEW ts \in T, Len(ts) = (n + 1) + 1 PROVE \E e : MarksFields(ts, sep, P, e)
    <3>1. n + 1 \in Nat
      OBVIOUS
    <3> QED BY <3>1, Zenon
  <2>1. PICK us \in T, t \in Seq(P \ {sep}) : ts = Append(us, t)
    <3>1. ts # <<>>
      OBVIOUS
    <3> QED BY <3>1, SequenceEmptyOrAppend, Zenon
  <2>2. Len(us) = n + 1 /\ us # <<>>
    BY <2>1
  <2>3. PICK e : MarksFields(us, sep, P, e)
    BY <1>2, <2>2
  <2> QED BY <2>1, <2>2, <2>3, MoreFields
<1> HIDE DEF S
<1>3. Nat \subseteq S
  BY <1>1, <1>2, NatSetInduction
<1>4. Len(texts) - 1 \in Nat /\ Len(texts) = (Len(texts) - 1) + 1
  OBVIOUS
<1> QED BY <1>3, <1>4 DEF S

(* strings.Split of texts that were joined gives them back, if no text holds *)
(* the separator.                                                            *)
THEOREM SplitUndoesJoin ==
  ASSUME NEW P, NEW sep \in P, NEW texts \in Seq(Seq(P \ {sep})), texts # <<>>
  PROVE  Join(texts, sep) \in Seq(P) /\ Split(Join(texts, sep), sep) = texts
<1>1. PICK e : MarksFields(texts, sep, P, e)
  BY FieldsOfJoin
<1>2. Split(Join(texts, sep), sep)
        = [k \in 1..Len(texts) |-> SubSeq(Join(texts, sep), e[k - 1] + 1, e[k] - 1)]
  BY <1>1, SplitAtMarks DEF MarksFields
<1>3. texts = [k \in 1..Len(texts) |-> texts[k]]
  OBVIOUS
<1> QED BY <1>1, <1>2, <1>3 DEF MarksFields
-----------------------------------------------------------------------------
(* Splitting what was joined and cut                                         *)

\* m is a place in the c-th field of those that follow the first a.
InField(text, sep, n, e, a, c, m) ==
  /\ Marks(text, sep, n, e)
  /\ a \in Nat /\ c \in Nat \ {0} /\ a + c <= n
  /\ m \in Nat /\ e[a + c - 1] <= m /\ m < e[a + c]

\* The marks of the text that begins behind the first a fields and ends at m.
Shifted(e, a, c, m) ==
  [i \in 0..c |-> IF i = c THEN m - e[a] + 1 ELSE e[a + i] - e[a]]

(* What follows of where these places are, as arithmetic.                    *)
LEMMA InFieldFacts ==
  ASSUME NEW P, NEW text \in Seq(P), NEW sep, NEW n, NEW e, NEW a, NEW c, NEW m,
         InField(text, sep, n, e, a, c, m)
  PROVE  /\ n \in Nat \ {0} /\ a \in Nat /\ c \in Nat \ {0} /\ a + c <= n
         /\ \A i \in 0..n : e[i] \in Nat
         /\ \A i \in 0..n, j \in 0..n : i < j => e[i] < e[j]
         /\ m \in Nat /\ e[a] \in Nat /\ e[a] <= m /\ m <= Len(text)
         /\ Len(text) \in Nat /\ DOMAIN text = 1..Len(text)
         /\ \A i \in 0..c - 1 : e[a + i] \in Nat /\ e[a] <= e[a + i] /\ e[a + i] <= m
         /\ m < e[a + c] /\ e[a + c] \in Nat
<1>1. /\ n \in Nat \ {0} /\ a \in Nat /\ c \in Nat \ {0} /\ a + c <= n /\ m \in Nat
      /\ e[a + c - 1] <= m /\ m < e[a + c]
      /\ e \in [0..n -> Nat] /\ e[n] = Len(text) + 1
      /\ \A i \in 0..n, j \in 0..n : i < j => e[i] < e[j]
  BY Zenon DEF InField, Marks
<1>2. \A i \in 0..n : e[i] \in Nat
  BY <1>1
<1>3. \A i \in 0..n, j \in 0..n : i <= j => e[i] <= e[j]
  <2> TAKE i \in 0..n, j \in 0..n
  <2> HAVE i <= j
  <2>1. i < j \/ i = j
    BY <1>1
  <2>2. i < j => e[i] < e[j]
    BY <1>1
  <2> QED BY <1>2, <2>1, <2>2
<1>4. a \in 0..n /\ a + c \in 0..n /\ a + c - 1 \in 0..n /\ n \in 0..n
  BY <1>1
<1>5. Len(text) \in Nat /\ DOMAIN text = 1..Len(text)
  OBVIOUS
<1>6. \A i \in 0..c - 1 : a + i \in 0..n /\ a <= a + i /\ a + i <= a + c - 1
  BY <1>1
<1>7. \A i \in 0..c - 1 : e[a + i] \in Nat /\ e[a] <= e[a + i] /\ e[a + i] <= m
  <2> TAKE i \in 0..c - 1
  <2>1. e[a] <= e[a + i] /\ e[a + i] <= e[a + c - 1]
    BY <1>3, <1>4, <1>6
  <2>2. e[a + i] \in Nat /\ e[a + c - 1] \in Nat
    BY <1>2, <1>4, <1>6
  <2> QED BY <1>1, <2>1, <2>2
<1>8. e[a] \in Nat /\ e[a] <= m
  <2>1. 0 \in 0..c - 1 /\ a + 0 = a
    BY <1>1
  <2> QED BY <1>2, <1>4, <1>7, <2>1
<1>9. m <= Len(text) /\ e[a + c] \in Nat
  <2>1. e[a + c] <= e[n] /\ e[a + c] \in Nat
    BY <1>1, <1>2, <1>3, <1>4
  <2> QED BY <1>1, <1>5, <2>1
<1> QED BY <1>1, <1>2, <1>5, <1>7, <1>8, <1>9

(* The part of a text between a mark and a place in a later field has the    *)
(* marks in between.                                                         *)
LEMMA MarksWithin ==
  ASSUME NEW P, NEW text \in Seq(P), NEW sep, NEW n, NEW e, NEW a, NEW c, NEW m,
         InField(text, sep, n, e, a, c, m)
  PROVE  Marks(SubSeq(text, e[a] + 1, m), sep, c, Shifted(e, a, c, m))
<1>1. /\ n \in Nat \ {0} /\ a \in Nat /\ c \in Nat \ {0} /\ a + c <= n
      /\ \A i \in 0..n : e[i] \in Nat
      /\ \A i \in 0..n, j \in 0..n : i < j => e[i] < e[j]
      /\ m \in Nat /\ e[a] \in Nat /\ e[a] <= m /\ m <= Len(text)
      /\ Len(text) \in Nat /\ DOMAIN text = 1..Len(text)
      /\ \A i \in 0..c - 1 : e[a + i] \in Nat /\ e[a] <= e[a + i] /\ e[a + i] <= m
      /\ m < e[a + c] /\ e[a + c] \in Nat
  BY InFieldFacts, Zenon
<1>2. \A i \in 1..Len(text) : text[i] = sep <=> \E k \in 1..n - 1 : i = e[k]
  BY <1>1, Zenon DEF InField, Marks
<1>3. PICK part : part = SubSeq(text, e[a] + 1, m)
  OBVIOUS
<1>4. /\ part \in Seq(P) /\ Len(part) = m - e[a] /\ DOMAIN part = 1..m - e[a]
      /\ \A i \in 1..m - e[a] : part[i] = text[e[a] + i]
  <2>1. e[a] \in Nat /\ m \in Nat /\ e[a] <= m /\ m <= Len(text)
    BY <1>1
  <2>2. /\ part \in Seq(P) /\ Len(part) = m - e[a]
        /\ \A i \in 1..m - e[a] : part[i] = text[e[a] + i]
    BY <1>3, <2>1, PartElements, ZenonT(30)
  <2> QED BY <2>2
<1>5. PICK f : f = Shifted(e, a, c, m)
  OBVIOUS
<1>6. /\ f[c] = m - e[a] + 1
      /\ \A i \in 0..c - 1 : f[i] = e[a + i] - e[a]
      /\ \A S : (\A i \in 0..c : f[i] \in S) => f \in [0..c -> S]
  <2>1. c \in Nat \ {0}
    BY <1>1
  <2> QED BY <1>5, <2>1 DEF Shifted
<1>7. \A i \in 0..c - 1 : f[i] \in Nat /\ f[i] <= m - e[a]
  <2> TAKE i \in 0..c - 1
  <2>1. f[i] = e[a + i] - e[a] /\ e[a + i] \in Nat /\ e[a] <= e[a + i] /\ e[a + i] <= m
    BY <1>1, <1>6
  <2> QED BY <1>1, <2>1
<1>8. f \in [0..c -> Nat]
  <2>1. \A i \in 0..c : i = c \/ i \in 0..c - 1
    BY <1>1
  <2>2. f[c] \in Nat
    BY <1>1, <1>6
  <2> QED BY <1>6, <1>7, <2>1, <2>2
<1>9. f[0] = 0
  <2>1. 0 \in 0..c - 1 /\ a + 0 = a
    BY <1>1
  <2> QED BY <1>1, <1>6, <2>1
<1>10. \A i \in 0..c, j \in 0..c : i < j => f[i] < f[j]
  <2> TAKE i \in 0..c, j \in 0..c
  <2> HAVE i < j
  <2>1. i \in 0..c - 1 /\ (j = c \/ j \in 0..c - 1)
    BY <1>1
  <2>2. CASE j = c
    <3>1. f[i] \in Nat /\ f[i] <= m - e[a] /\ f[j] = m - e[a] + 1
      BY <1>6, <1>7, <2>1, <2>2
    <3> QED BY <1>1, <3>1
  <2>3. CASE j \in 0..c - 1
    <3>1. f[i] = e[a + i] - e[a] /\ f[j] = e[a + j] - e[a]
      BY <1>6, <2>1, <2>3
    <3>2. a + i \in 0..n /\ a + j \in 0..n /\ a + i < a + j
      BY <1>1
    <3>3. e[a + i] < e[a + j] /\ e[a + i] \in Nat /\ e[a + j] \in Nat
      BY <1>1, <3>2
    <3> QED BY <1>1, <3>1, <3>3
  <2> QED BY <2>1, <2>2, <2>3
<1>11. \A i \in 1..m - e[a] : part[i] = sep <=> \E j \in 1..c - 1 : i = f[j]
  <2> TAKE i \in 1..m - e[a]
  <2>1. part[i] = text[e[a] + i] /\ e[a] + i \in 1..Len(text) /\ e[a] + i <= m
    BY <1>1, <1>4
  <2>2. part[i] = sep <=> \E j \in 1..n - 1 : e[a] + i = e[j]
    BY <1>2, <2>1
  <2>3. ASSUME NEW j \in 1..n - 1, e[a] + i = e[j] PROVE \E h \in 1..c - 1 : i = f[h]
    <3>1. a \in 0..n /\ j \in 0..n /\ a + c \in 0..n /\ j \in Nat
      BY <1>1
    <3>2. e[a] < e[j] /\ e[j] < e[a + c] /\ e[j] \in Nat
      BY <1>1, <2>1, <2>3, SMTT(30)
    <3>3. ~(j < a) /\ j # a
      BY <1>1, <3>1, <3>2
    <3>4. ~(a + c < j) /\ j # a + c
      <4>1. a + c < j => e[a + c] < e[j]
        BY <1>1, <3>1
      <4> QED BY <1>1, <3>2, <4>1, SMTT(30)
    <3>5. j - a \in 1..c - 1 /\ a + (j - a) = j /\ j - a \in 0..c - 1
      BY <1>1, <3>1, <3>3, <3>4
    <3>6. f[j - a] = e[j] - e[a]
      BY <1>6, <3>5
    <3>7. f[j - a] = i
      BY <1>1, <2>3, <3>6
    <3> QED BY <3>5, <3>7
  <2>4. ASSUME NEW h \in 1..c - 1, i = f[h] PROVE \E j \in 1..n - 1 : e[a] + i = e[j]
    <3>1. a + h \in 1..n - 1 /\ h \in 0..c - 1
      BY <1>1
    <3>2. i = e[a + h] - e[a] /\ e[a + h] \in Nat
      BY <1>1, <1>6, <2>4, <3>1
    <3>3. e[a] + i = e[a + h]
      BY <1>1, <3>2
    <3> QED BY <3>1, <3>3
  <2> QED BY <2>2, <2>3, <2>4
<1>12. Len(part) + 1 = m - e[a] + 1
  BY <1>1, <1>4
<1>13. Marks(part, sep, c, f)
  BY <1>1, <1>4, <1>6, <1>8, <1>9, <1>10, <1>11, <1>12, Zenon DEF Marks
<1> QED BY <1>3, <1>5, <1>13

\* parts are the c fields behind mark a, the last of them up to m.
CutInto(parts, text, e, a, c, m) ==
  /\ Len(parts) = c
  /\ \A i \in 1..c - 1 : parts[i] = SubSeq(text, e[a + i - 1] + 1, e[a + i] - 1)
  /\ parts[c] = SubSeq(text, e[a + c - 1] + 1, m)

(* So Split gives the fields of that part, the last of them cut.             *)
LEMMA SplitWithin ==
  ASSUME NEW P, NEW text \in Seq(P), NEW sep, NEW n, NEW e, NEW a, NEW c, NEW m,
         InField(text, sep, n, e, a, c, m)
  PROVE  CutInto(Split(SubSeq(text, e[a] + 1, m), sep), text, e, a, c, m)
<1>1. /\ n \in Nat \ {0} /\ a \in Nat /\ c \in Nat \ {0} /\ a + c <= n
      /\ \A i \in 0..n : e[i] \in Nat
      /\ m \in Nat /\ e[a] \in Nat /\ e[a] <= m /\ m <= Len(text)
      /\ Len(text) \in Nat
      /\ \A i \in 0..c - 1 : e[a + i] \in Nat /\ e[a] <= e[a + i] /\ e[a + i] <= m
  BY InFieldFacts, Zenon
<1>2. PICK part : part = SubSeq(text, e[a] + 1, m)
  OBVIOUS
<1>3. /\ part \in Seq(P) /\ Len(part) = m - e[a]
      /\ \A i \in 1..m - e[a] : part[i] = text[e[a] + i]
  <2>1. e[a] \in Nat /\ m \in Nat /\ e[a] <= m /\ m <= Len(text)
    BY <1>1
  <2> QED BY <1>2, <2>1, PartElements, ZenonT(30)
<1>4. PICK f : f = Shifted(e, a, c, m)
  OBVIOUS
<1>5. f[c] = m - e[a] + 1 /\ \A i \in 0..c - 1 : f[i] = e[a + i] - e[a]
  <2>1. c \in Nat \ {0}
    BY <1>1
  <2> QED BY <1>4, <2>1 DEF Shifted
<1>6. Split(part, sep) = [i \in 1..c |-> SubSeq(part, f[i - 1] + 1, f[i] - 1)]
  <2>1. Marks(part, sep, c, f)
    BY <1>2, <1>4, MarksWithin
  <2> QED BY <1>3, <2>1, SplitAtMarks
<1>7. ASSUME NEW x \in Nat, NEW y \in Int, e[a] <= x, y <= m
      PROVE  SubSeq(part, x - e[a] + 1, y - e[a]) = SubSeq(text, x + 1, y)
  <2>1. PICK u, v, w : u = x - e[a] + 1 /\ v = y - e[a] /\ w = x + 1
    OBVIOUS
  <2>2. /\ u \in Int /\ v \in Int /\ w \in Int /\ y \in Int /\ u >= 1 /\ w >= 1
        /\ v <= m - e[a] /\ y <= Len(text) /\ v - u = y - w /\ w = u + e[a]
    <3>1. /\ x \in Nat /\ y \in Int /\ e[a] \in Nat /\ m \in Nat /\ Len(text) \in Nat
          /\ e[a] <= x /\ y <= m /\ m <= Len(text)
      BY <1>1, <1>7
    <3> QED BY <2>1, <3>1
  <2>3. \A i \in u..v : part[i] \in P
    <3>1. \A i \in u..v : i \in 1..Len(part)
      BY <1>1, <1>3, <2>2, SMTT(30)
    <3> QED BY <1>3, <3>1, ElementOfSeq
  <2>4. \A i \in w..y : text[i] \in P
    <3>1. \A i \in w..y : i \in 1..Len(text)
      BY <1>1, <2>2, SMTT(30)
    <3> QED BY <3>1, ElementOfSeq
  <2>5. /\ SubSeq(part, u, v) \in Seq(P)
        /\ Len(SubSeq(part, u, v)) = IF u <= v THEN v - u + 1 ELSE 0
        /\ \A i \in 1..v - u + 1 : SubSeq(part, u, v)[i] = part[u + i - 1]
    BY <2>2, <2>3, SubSeqProperties
  <2>6. /\ SubSeq(text, w, y) \in Seq(P)
        /\ Len(SubSeq(text, w, y)) = IF w <= y THEN y - w + 1 ELSE 0
        /\ \A i \in 1..y - w + 1 : SubSeq(text, w, y)[i] = text[w + i - 1]
    <3>1. w \in Int /\ y \in Int
      BY <2>2
    <3> QED BY <2>4, <3>1, SubSeqProperties
  <2>7. Len(SubSeq(part, u, v)) = Len(SubSeq(text, w, y))
    BY <1>1, <2>2, <2>5, <2>6, SMTT(30)
  <2>8. \A i \in 1..Len(SubSeq(part, u, v)) : SubSeq(part, u, v)[i] = SubSeq(text, w, y)[i]
    <3> TAKE i \in 1..Len(SubSeq(part, u, v))
    <3>1. i \in 1..v - u + 1 /\ i \in 1..y - w + 1
      BY <2>2, <2>5
    <3>2. u + i - 1 \in 1..m - e[a] /\ e[a] + (u + i - 1) = w + i - 1
      <4>1. i \in Int /\ i >= 1 /\ u + i - 1 <= v /\ e[a] \in Int /\ m \in Int
        BY <1>1, <2>2, <3>1
      <4>2. u + i - 1 \in Int /\ u + i - 1 >= 1 /\ u + i - 1 <= m - e[a] /\ m - e[a] \in Int
        BY <2>2, <4>1
      <4> QED BY <2>2, <4>1, <4>2, SMTT(30)
    <3> QED BY <1>3, <2>5, <2>6, <3>1, <3>2
  <2>9. SubSeq(part, u, v) = SubSeq(text, w, y)
    BY <2>5, <2>6, <2>7, <2>8, SeqEqual
  <2> QED BY <2>1, <2>9
<1>8. ASSUME NEW i \in 1..c - 1
      PROVE  SubSeq(part, f[i - 1] + 1, f[i] - 1) = SubSeq(text, e[a + i - 1] + 1, e[a + i] - 1)
  <2>1. i - 1 \in 0..c - 1 /\ i \in 0..c - 1 /\ a + (i - 1) = a + i - 1
    BY <1>1
  <2>2. f[i - 1] = e[a + i - 1] - e[a] /\ f[i] = e[a + i] - e[a]
    BY <1>5, <2>1
  <2>3. /\ e[a + i - 1] \in Nat /\ e[a] <= e[a + i - 1]
        /\ e[a + i] \in Nat /\ e[a + i] <= m
    BY <1>1, <2>1
  <2>4. e[a + i] - 1 \in Int /\ e[a + i] - 1 <= m /\ f[i] - 1 = (e[a + i] - 1) - e[a]
    BY <1>1, <2>2, <2>3, SMTT(30)
  <2> QED BY <1>7, <2>2, <2>3, <2>4
<1>9. SubSeq(part, f[c - 1] + 1, f[c] - 1) = SubSeq(text, e[a + c - 1] + 1, m)
  <2>1. c - 1 \in 0..c - 1 /\ a + (c - 1) = a + c - 1
    BY <1>1
  <2>2. f[c - 1] = e[a + c - 1] - e[a] /\ f[c] - 1 = m - e[a]
    BY <1>1, <1>5, <2>1
  <2>3. e[a + c - 1] \in Nat /\ e[a] <= e[a + c - 1]
    BY <1>1, <2>1
  <2>4. m \in Nat /\ m \in Int /\ m <= m
    BY <1>1
  <2>5. SubSeq(part, e[a + c - 1] - e[a] + 1, m - e[a]) = SubSeq(text, e[a + c - 1] + 1, m)
    BY <1>7, <2>3, <2>4
  <2> QED BY <2>2, <2>5
<1>10. PICK parts : parts = Split(part, sep)
  OBVIOUS
<1>11. /\ Len(parts) = c
       /\ \A i \in 1..c - 1 : parts[i] = SubSeq(text, e[a + i - 1] + 1, e[a + i] - 1)
       /\ parts[c] = SubSeq(text, e[a + c - 1] + 1, m)
  <2>1. \A i \in 1..c - 1 : i \in 1..c
    BY <1>1
  <2>2. c \in 1..c
    BY <1>1
  <2>3. Len(parts) = c
    BY <1>1, <1>6, <1>10
  <2>4. \A i \in 1..c : parts[i] = SubSeq(part, f[i - 1] + 1, f[i] - 1)
    BY <1>6, <1>10
  <2> QED BY <1>8, <1>9, <2>1, <2>2, <2>3, <2>4, Zenon
<1> QED BY <1>2, <1>10, <1>11 DEF CutInto

\* parts are the texts behind the first a, the c-th of them as far as m goes.
CutAt(parts, texts, text, e, a, c, m) ==
  /\ a + c <= Len(texts) /\ e[a + c - 1] <= m /\ m < e[a + c]
  /\ Len(parts) = c
  /\ \A i \in 1..c - 1 : parts[i] = texts[a + i]
  /\ parts[c] = SubSeq(text, e[a + c - 1] + 1, m)

(* strings.Split of a text that was joined and then cut anywhere, and of     *)
(* which the first fields are left out, gives the fields that follow and     *)
(* what is left of the last.                                                 *)
THEOREM SplitOfCut ==
  ASSUME NEW P, NEW sep, NEW texts \in Seq(Seq(P)), texts # <<>>, NEW e,
         MarksFields(texts, sep, P, e),
         NEW a \in Nat, a < Len(texts), NEW m \in Nat, e[a] <= m, m <= Len(Join(texts, sep))
  PROVE  \E c \in Nat \ {0} :
           CutAt(Split(SubSeq(Join(texts, sep), e[a] + 1, m), sep), texts, Join(texts, sep),
                 e, a, c, m)
<1>1. PICK text, n : text = Join(texts, sep) /\ n = Len(texts)
  OBVIOUS
<1>2. /\ text \in Seq(P) /\ Marks(text, sep, n, e) /\ n \in Nat \ {0} /\ a < n /\ m <= Len(text)
      /\ \A k \in 1..n : SubSeq(text, e[k - 1] + 1, e[k] - 1) = texts[k]
  BY <1>1 DEF MarksFields
<1>3. /\ e \in [0..n -> Nat] /\ m < e[n]
  <2>1. e \in [0..n -> Nat] /\ e[n] = Len(text) + 1
    BY <1>2, Zenon DEF Marks
  <2> QED BY <1>2, <2>1, SMTT(30)
<1>4. PICK k \in a + 1..n : e[k - 1] <= m /\ m < e[k]
  <2>1. a \in 0..n /\ n \in Nat
    BY <1>2
  <2> QED BY <1>3, <2>1, FieldAround
<1>5. PICK c : c = k - a
  OBVIOUS
<1>6. /\ c \in Nat \ {0} /\ a + c <= n /\ e[a + c - 1] <= m /\ m < e[a + c]
  <2>1. a + c = k /\ a + c - 1 = k - 1
    BY <1>4, <1>5
  <2> QED BY <1>2, <1>4, <1>5, <2>1
<1>7. InField(text, sep, n, e, a, c, m)
  BY <1>2, <1>6 DEF InField
<1>8. PICK parts : parts = Split(SubSeq(text, e[a] + 1, m), sep)
  OBVIOUS
<1>9. /\ Len(parts) = c
      /\ \A i \in 1..c - 1 : parts[i] = SubSeq(text, e[a + i - 1] + 1, e[a + i] - 1)
      /\ parts[c] = SubSeq(text, e[a + c - 1] + 1, m)
  <2>1. text \in Seq(P)
    BY <1>2
  <2>2. CutInto(parts, text, e, a, c, m)
    BY <1>7, <1>8, <2>1, SplitWithin
  <2> QED BY <2>2 DEF CutInto
<1>11. \A i \in 1..c - 1 : parts[i] = texts[a + i]
  <2> TAKE i \in 1..c - 1
  <2>1. a + i \in 1..n
    BY <1>2, <1>6
  <2>2. SubSeq(text, e[a + i - 1] + 1, e[a + i] - 1) = texts[a + i]
    <3>1. PICK h : h = a + i
      OBVIOUS
    <3>2. SubSeq(text, e[h - 1] + 1, e[h] - 1) = texts[h]
      BY <1>2, <2>1, <3>1
    <3> QED BY <3>1, <3>2
  <2> QED BY <1>9, <2>2, Zenon
<1>12. CutAt(parts, texts, text, e, a, c, m)
  BY <1>1, <1>6, <1>9, <1>11 DEF CutAt
<1> QED BY <1>1, <1>6, <1>8, <1>12
-----------------------------------------------------------------------------
(* Subjects                                                                  *)

\* The pieces of subjects, the tokens, and those that the server gives a
\* meaning.
Pieces == Plain \cup {".", "_", "pve", "default", "snapshot", "complete", "request",
            "qemu", "lxc", "100", "migrate", "state", "started", "failed"}

\* A token is a text without a dot.
Token == Seq(Pieces \ {"."})

\* Tokens that are none, or that stand for others in a pattern.
Reserved == {<<>>, <<"*">>, <<">">>}

(* A single piece is a token.                                                *)
LEMMA WordIsToken ==
  ASSUME NEW w \in Pieces \ {".", "*", ">"}
  PROVE  <<w>> \in Token /\ <<w>> \notin Reserved
<1>1. \A s : <<w>> = <<s>> => w = s
  OBVIOUS
<1>2. <<w>> # <<>>
  OBVIOUS
<1> QED BY <1>1, <1>2 DEF Token, Reserved

(* A configured name is a text.                                              *)
LEMMA NameIsSequence ==
  ASSUME NEW name \in ConfiguredNames PROVE name \in Seq(Chars)
BY DEF ConfiguredNames, BoundedSeq, SeqOf

(* Whatever was configured, what safe makes of it is a token and no          *)
(* wildcard.                                                                 *)
LEMMA SafeIsToken ==
  ASSUME NEW name \in ConfiguredNames
  PROVE  Safe(name) \in Token /\ Safe(name) \notin Reserved
<1>1. CASE name = <<>>
  <2>1. Safe(name) = <<"default">> /\ "default" \in Pieces \ {".", "*", ">"}
    BY <1>1 DEF Safe, Pieces
  <2> QED BY <2>1, WordIsToken
<1>2. CASE name # <<>>
  <2>1. name \in Seq(Chars) /\ Len(name) \in Nat \ {0}
    BY <1>2, NameIsSequence
  <2>2. Safe(name) = [i \in 1..Len(name) |-> IF name[i] \in Plain THEN name[i] ELSE "_"]
    BY <1>2, <2>1 DEF Safe
  <2>3. \A i \in 1..Len(name) : Safe(name)[i] \in Pieces \ {".", "*", ">"}
    BY <2>2, SubjectsAssumption DEF Pieces
  <2>4. Safe(name) \in Token
    <3>1. PICK s, n : s = Safe(name) /\ n = Len(name)
      OBVIOUS
    <3>2. n \in Nat /\ s = [i \in 1..n |-> s[i]] /\ \A i \in 1..n : s[i] \in Pieces \ {"."}
      BY <2>1, <2>2, <2>3, <3>1
    <3>3. s \in Seq(Pieces \ {"."})
      BY <3>2
    <3> QED BY <3>1, <3>3 DEF Token
  <2>5. Safe(name)[1] \notin {"*", ">"} /\ Safe(name) # <<>>
    <3>1. 1 \in 1..Len(name)
      BY <2>1
    <3>2. Safe(name)[1] \notin {"*", ">"}
      BY <2>3, <3>1
    <3>3. DOMAIN Safe(name) # {}
      BY <2>2, <3>1
    <3> QED BY <3>2, <3>3
  <2>6. <<"*">>[1] = "*" /\ <<">">>[1] = ">"
    OBVIOUS
  <2> QED BY <2>4, <2>5, <2>6 DEF Reserved
<1> QED BY <1>1, <1>2

(* A name that PVE accepts stays as it is.                                   *)
LEMMA SafePlain ==
  ASSUME NEW name \in ConfiguredNames, IsPlain(name) PROVE Safe(name) = name
<1>1. name \in Seq(Chars) /\ name # <<>> /\ \A i \in 1..Len(name) : name[i] \in Plain
  BY NameIsSequence DEF IsPlain
<1>2. Safe(name) = [i \in DOMAIN name |-> IF name[i] \in Plain THEN name[i] ELSE "_"]
  BY <1>1 DEF Safe
<1>3. DOMAIN name = 1..Len(name)
  BY <1>1
<1>4. Safe(name) = [i \in 1..Len(name) |-> name[i]]
  BY <1>1, <1>2, <1>3
<1>5. name = [i \in 1..Len(name) |-> name[i]]
  BY <1>1
<1> QED BY <1>4, <1>5

(* The tokens of a subject are pve and those it was built of.                *)
LEMMA TokensOfSubject ==
  ASSUME NEW tokens \in Seq(Token)
  PROVE  /\ Len(Tokens(Subject(tokens))) = Len(tokens) + 1
         /\ DOMAIN Tokens(Subject(tokens)) = 1..Len(tokens) + 1
         /\ Tokens(Subject(tokens))[1] = <<"pve">>
         /\ \A i \in 1..Len(tokens) : Tokens(Subject(tokens))[i + 1] = tokens[i]
<1>1. PICK pve : pve = <<"pve">>
  OBVIOUS
<1>2. pve \in Token
  BY <1>1, WordIsToken DEF Pieces
<1>3. PICK all : all = <<pve>> \o tokens
  OBVIOUS
<1>4. /\ all \in Seq(Token) /\ Len(all) = Len(tokens) + 1 /\ all[1] = pve
      /\ \A i \in 1..Len(tokens) : all[i + 1] = tokens[i]
  BY <1>2, <1>3, ConcatTuple
<1>5. all # <<>> /\ DOMAIN all = 1..Len(tokens) + 1
  BY <1>4
<1>6. "." \in Pieces
  BY DEF Pieces
<1>7. Tokens(Subject(tokens)) = all
  BY <1>1, <1>3, <1>4, <1>5, <1>6, SplitUndoesJoin DEF Tokens, Subject, Token
<1> QED BY <1>1, <1>4, <1>5, <1>7

(* A subject of three tokens behind pve.                                     *)
LEMMA FourTokens ==
  ASSUME NEW a \in Token, NEW b \in Token, NEW c \in Token
  PROVE  LET t == Tokens(Subject(<<a, b, c>>))
         IN  /\ Len(t) = 4 /\ DOMAIN t = 1..4
             /\ t[1] = <<"pve">> /\ t[2] = a /\ t[3] = b /\ t[4] = c
<1>1. PICK s : s = <<a, b, c>>
  OBVIOUS
<1>2. s \in Seq(Token) /\ Len(s) = 3 /\ s[1] = a /\ s[2] = b /\ s[3] = c
  BY <1>1
<1>3. PICK t : t = Tokens(Subject(s))
  OBVIOUS
<1>4. /\ Len(t) = 3 + 1 /\ DOMAIN t = 1..3 + 1 /\ t[1] = <<"pve">>
      /\ \A i \in 1..3 : t[i + 1] = s[i]
  BY <1>2, <1>3, TokensOfSubject
<1>5. t[2] = s[1] /\ t[3] = s[2] /\ t[4] = s[3]
  BY <1>4
<1> QED BY <1>1, <1>2, <1>3, <1>4, <1>5

(* One of four.                                                              *)
LEMMA FiveTokens ==
  ASSUME NEW a \in Token, NEW b \in Token, NEW c \in Token, NEW d \in Token
  PROVE  LET t == Tokens(Subject(<<a, b, c, d>>))
         IN  /\ Len(t) = 5 /\ DOMAIN t = 1..5
             /\ t[1] = <<"pve">> /\ t[2] = a /\ t[3] = b /\ t[4] = c /\ t[5] = d
<1>1. PICK s : s = <<a, b, c, d>>
  OBVIOUS
<1>2. s \in Seq(Token) /\ Len(s) = 4 /\ s[1] = a /\ s[2] = b /\ s[3] = c /\ s[4] = d
  BY <1>1
<1>3. PICK t : t = Tokens(Subject(s))
  OBVIOUS
<1>4. /\ Len(t) = 4 + 1 /\ DOMAIN t = 1..4 + 1 /\ t[1] = <<"pve">>
      /\ \A i \in 1..4 : t[i + 1] = s[i]
  BY <1>2, <1>3, TokensOfSubject
<1>5. t[2] = s[1] /\ t[3] = s[2] /\ t[4] = s[3] /\ t[5] = s[4]
  BY <1>4
<1> QED BY <1>1, <1>2, <1>3, <1>4, <1>5

(* One of six.                                                               *)
LEMMA SevenTokens ==
  ASSUME NEW a \in Token, NEW b \in Token, NEW c \in Token, NEW d \in Token, NEW x \in Token, NEW y \in Token
  PROVE  LET t == Tokens(Subject(<<a, b, c, d, x, y>>))
         IN  /\ Len(t) = 7 /\ DOMAIN t = 1..7
             /\ t[1] = <<"pve">> /\ t[2] = a /\ t[3] = b /\ t[4] = c /\ t[5] = d /\ t[6] = x /\ t[7] = y
<1>1. PICK s : s = <<a, b, c, d, x, y>>
  OBVIOUS
<1>2. s \in Seq(Token) /\ Len(s) = 6 /\ s[1] = a /\ s[2] = b /\ s[3] = c /\ s[4] = d /\ s[5] = x /\ s[6] = y
  BY <1>1
<1>3. PICK t : t = Tokens(Subject(s))
  OBVIOUS
<1>4. /\ Len(t) = 6 + 1 /\ DOMAIN t = 1..6 + 1 /\ t[1] = <<"pve">>
      /\ \A i \in 1..6 : t[i + 1] = s[i]
  BY <1>2, <1>3, TokensOfSubject
<1>5. t[2] = s[1] /\ t[3] = s[2] /\ t[4] = s[3] /\ t[5] = s[4] /\ t[6] = s[5] /\ t[7] = s[6]
  BY <1>4
<1> QED BY <1>1, <1>2, <1>3, <1>4, <1>5

(* The tokens of the subjects on which requests are received.                *)
LEMMA RequestTokens ==
  ASSUME NEW c \in ConfiguredNames, NEW n \in ConfiguredNames
  PROVE  LET p == Tokens(SubjectSnapshotRequestCluster(c))
             q == Tokens(SubjectSnapshotRequestNode(c, n))
         IN  /\ Len(p) = 4 /\ DOMAIN p = 1..4 /\ p[4] = <<"request">>
             /\ Len(q) = 5 /\ DOMAIN q = 1..5 /\ q[3] = Safe(n) /\ q[5] = <<"request">>
<1>1. Safe(c) \in Token /\ Safe(n) \in Token
  BY SafeIsToken
<1>2. <<"snapshot">> \in Token /\ <<"request">> \in Token
  BY WordIsToken DEF Pieces
<1>3. LET p == Tokens(SubjectSnapshotRequestCluster(c))
      IN  Len(p) = 4 /\ DOMAIN p = 1..4 /\ p[4] = <<"request">>
  BY <1>1, <1>2, FourTokens DEF SubjectSnapshotRequestCluster
<1>4. LET q == Tokens(SubjectSnapshotRequestNode(c, n))
      IN  Len(q) = 5 /\ DOMAIN q = 1..5 /\ q[3] = Safe(n) /\ q[5] = <<"request">>
  BY <1>1, <1>2, FiveTokens DEF SubjectSnapshotRequestNode
<1> QED BY <1>3, <1>4

\* What the tokens of an event are.
EventRead(t, c, n, ev) ==
  /\ t[1] = <<"pve">> /\ t[2] = Safe(c) /\ t[3] = Safe(n)
  /\ \A i \in DOMAIN t : t[i] \notin Reserved
  /\ IF ev.type = "complete"
       THEN Len(t) = 5 /\ t[5] = <<"complete">>
       ELSE Len(t) = 7 /\ t[4] = <<ev.kind>> /\ t[7] = <<ev.phase>>

(* The tokens of what is published stand in their places.                    *)
LEMMA EventTokens ==
  ASSUME NEW c \in ConfiguredNames, NEW n \in ConfiguredNames, NEW ev \in Published(c, n)
  PROVE  EventRead(Tokens(SubjectFor(ev)), c, n, ev)
<1>1. PICK t : t = Tokens(SubjectFor(ev))
  OBVIOUS
<1>2. /\ Safe(c) \in Token /\ Safe(n) \in Token
      /\ Safe(c) \notin Reserved /\ Safe(n) \notin Reserved
  BY SafeIsToken
<1>3. \A w \in {"pve", "snapshot", "complete", "qemu", "lxc", "100", "migrate", "state", "started",
                "failed"} : <<w>> \in Token /\ <<w>> \notin Reserved
  BY WordIsToken DEF Pieces
<1>4. CASE ev.type = "complete"
  <2>1. ev.cluster = c /\ ev.node = n
    BY <1>4 DEF Published
  <2>2. PICK x, y : x = <<"snapshot">> /\ y = <<"complete">>
    OBVIOUS
  <2>3. t = Tokens(Subject(<<Safe(c), Safe(n), x, y>>))
    BY <1>1, <1>4, <2>1, <2>2 DEF SubjectFor, SubjectSnapshotComplete
  <2>4. x \in Token /\ y \in Token /\ x \notin Reserved /\ y \notin Reserved
    BY <1>3, <2>2
  <2>5. /\ Len(t) = 5 /\ DOMAIN t = 1..5 /\ t[1] = <<"pve">>
        /\ t[2] = Safe(c) /\ t[3] = Safe(n) /\ t[4] = x /\ t[5] = y
    BY <1>2, <2>3, <2>4, FiveTokens
  <2>6. \A i \in DOMAIN t : t[i] \notin Reserved
    <3>1. <<"pve">> \notin Reserved
      BY <1>3
    <3>2. DOMAIN t = {1, 2, 3, 4, 5}
      BY <2>5
    <3> QED BY <1>2, <2>4, <2>5, <3>1, <3>2
  <2> QED BY <1>1, <1>4, <2>2, <2>5, <2>6 DEF EventRead
<1>5. CASE ev.type # "complete"
  <2>1. /\ ev.cluster = c /\ ev.node = n
        /\ ev.kind \in {"qemu", "lxc"} /\ ev.vmid = "100"
        /\ ev.action \in {"migrate", "state"} /\ ev.phase \in {"started", "failed", "snapshot"}
    BY <1>5 DEF Published
  <2>2. PICK k, v, x, y : k = <<ev.kind>> /\ v = <<ev.vmid>> /\ x = <<ev.action>> /\ y = <<ev.phase>>
    OBVIOUS
  <2>3. t = Tokens(Subject(<<Safe(c), Safe(n), k, v, x, y>>))
    BY <1>1, <1>5, <2>1, <2>2 DEF SubjectFor, SubjectLifecycle
  <2>4. /\ k \in Token /\ v \in Token /\ x \in Token /\ y \in Token
        /\ k \notin Reserved /\ v \notin Reserved /\ x \notin Reserved /\ y \notin Reserved
    BY <1>3, <2>1, <2>2
  <2>5. /\ Len(t) = 7 /\ DOMAIN t = 1..7 /\ t[1] = <<"pve">>
        /\ t[2] = Safe(c) /\ t[3] = Safe(n) /\ t[4] = k /\ t[5] = v /\ t[6] = x /\ t[7] = y
    BY <1>2, <2>3, <2>4, SevenTokens, SMTT(30)
  <2>6. \A i \in DOMAIN t : t[i] \notin Reserved
    <3>1. <<"pve">> \notin Reserved
      BY <1>3
    <3>2. DOMAIN t = {1, 2, 3, 4, 5, 6, 7}
      BY <2>5
    <3> QED BY <1>2, <2>4, <2>5, <3>1, <3>2
  <2> QED BY <1>1, <1>5, <2>2, <2>5, <2>6 DEF EventRead
<1> QED BY <1>4, <1>5

(* What is published ends with no token on which a request ends.             *)
LEMMA NoRequest ==
  ASSUME NEW c \in ConfiguredNames, NEW n \in ConfiguredNames, NEW m \in ConfiguredNames,
         NEW ev \in Published(c, n), NEW s \in Subscriptions(c, m)
  PROVE  ~Matches(Tokens(s), Tokens(SubjectFor(ev)))
<1>1. PICK t : t = Tokens(SubjectFor(ev))
  OBVIOUS
<1>2. PICK pattern : pattern = Tokens(s)
  OBVIOUS
<1>3. \A w \in {"request"} : <<w>> # <<">">> /\ <<w>> # <<"*">> /\ <<w>> # <<"complete">>
  OBVIOUS
<1>4. /\ pattern[Len(pattern)] = <<"request">>
      /\ (Len(pattern) = 4 \/ Len(pattern) = 5)
  BY <1>2, RequestTokens DEF Subscriptions
<1>5. (Len(t) = 5 /\ t[5] = <<"complete">>) \/ Len(t) = 7
  BY <1>1, EventTokens DEF EventRead
<1>6. pattern[Len(pattern)] # <<">">>
  BY <1>3, <1>4
<1>7. ASSUME Len(t) = Len(pattern) PROVE pattern[Len(pattern)] \notin {<<"*">>, t[Len(pattern)]}
  <2>1. Len(pattern) = 5 /\ t[5] = <<"complete">>
    BY <1>4, <1>5, <1>7
  <2>2. pattern[5] = <<"request">>
    BY <1>4, <2>1
  <2>3. <<"request">> # <<"*">> /\ <<"request">> # <<"complete">>
    BY <1>3
  <2> QED BY <2>1, <2>2, <2>3
<1>8. Len(pattern) \in 1..Len(pattern)
  BY <1>4
<1>9. ~Matches(pattern, t)
  BY <1>6, <1>7, <1>8 DEF Matches
<1> QED BY <1>1, <1>2, <1>9

(* A request to one node is not received by another that is named otherwise. *)
LEMMA OtherNode ==
  ASSUME NEW c \in ConfiguredNames, NEW n \in ConfiguredNames, NEW m \in ConfiguredNames,
         IsPlain(n), IsPlain(m), n # m, NEW s \in Subscriptions(c, m)
  PROVE  ~Matches(Tokens(s), Tokens(SubjectSnapshotRequestNode(c, n)))
<1>1. PICK t : t = Tokens(SubjectSnapshotRequestNode(c, n))
  OBVIOUS
<1>2. PICK pattern : pattern = Tokens(s)
  OBVIOUS
<1>3. Safe(n) = n /\ Safe(m) = m /\ Safe(m) # <<"*">>
  BY SafePlain, SafeIsToken DEF Reserved
<1>4. Len(t) = 5 /\ t[3] = Safe(n)
  BY <1>1, RequestTokens
<1>5. /\ pattern[Len(pattern)] = <<"request">>
      /\ Len(pattern) = 4 \/ (Len(pattern) = 5 /\ pattern[3] = Safe(m))
  BY <1>2, RequestTokens, SMTT(30) DEF Subscriptions
<1>6. <<"request">> # <<">">>
  OBVIOUS
<1>7. 3 \in 1..5
  OBVIOUS
<1>8. ~Matches(pattern, t)
  <2>1. CASE Len(pattern) = 4
    <3>1. Len(t) # Len(pattern) /\ pattern[Len(pattern)] # <<">">>
      BY <1>4, <1>5, <1>6, <2>1
    <3> QED BY <3>1 DEF Matches
  <2>2. CASE Len(pattern) = 5 /\ pattern[3] = Safe(m)
    <3>1. 3 \in 1..Len(pattern) /\ pattern[3] \notin {<<"*">>, t[3]}
      BY <1>3, <1>4, <1>7, <2>2
    <3>2. pattern[Len(pattern)] # <<">">>
      BY <1>5, <1>6
    <3> QED BY <3>1, <3>2 DEF Matches
  <2> QED BY <1>5, <2>1, <2>2
<1> QED BY <1>1, <1>2, <1>8

(* So the subjects of every pair of names route what they are for.           *)
LEMMA NamesRoute == ASSUME input \in NamePairs PROVE SubjectsRoute
<1>1. PICK c, n, m : c = input.cluster /\ n = input.node /\ m = input.other
  OBVIOUS
<1>2. c \in ConfiguredNames /\ n \in ConfiguredNames /\ m \in ConfiguredNames
  BY <1>1 DEF NamePairs
<1> DEFINE Received == {Tokens(s) : s \in Subscriptions(c, m)}
<1>3. ASSUME NEW ev \in Published(c, n)
      PROVE  LET tokens == Tokens(SubjectFor(ev))
             IN  /\ \A i \in DOMAIN tokens : tokens[i] \notin {<<>>, <<"*">>, <<">">>}
                 /\ tokens[2] = Safe(c) /\ tokens[3] = Safe(n)
                 /\ IF ev.type = "complete" THEN Len(tokens) = 5
                    ELSE Len(tokens) = 7 /\ tokens[4] = <<ev.kind>> /\ tokens[7] = <<ev.phase>>
                 /\ \A pattern \in Received : ~Matches(pattern, tokens)
  <2>1. EventRead(Tokens(SubjectFor(ev)), c, n, ev)
    BY <1>2, EventTokens
  <2>2. \A s \in Subscriptions(c, m) : ~Matches(Tokens(s), Tokens(SubjectFor(ev)))
    BY <1>2, NoRequest
  <2> QED BY <2>1, <2>2 DEF EventRead, Reserved
<1>4. Tokens(SubjectSnapshotRequestCluster(c)) \in Received
  BY DEF Subscriptions
<1>5. ASSUME IsPlain(n), IsPlain(m), n # m
      PROVE  ~\E pattern \in Received :
                Matches(pattern, Tokens(SubjectSnapshotRequestNode(c, n)))
  BY <1>2, <1>5, OtherNode
<1> QED BY <1>1, <1>3, <1>4, <1>5, Zenon DEF SubjectsRoute
-----------------------------------------------------------------------------
(* UPIDs                                                                     *)

\* The fields of the UPID of u, of a worker of that type.
UPIDFields(u, type) ==
  << <<"UPID">>, <<"pve", "1">>, <<"1", "A">>, <<"A">>, <<"1">>, type, u.id, u.user, <<>> >>

\* The pieces it is made of.
UPIDPieces(u) ==
  Hex \cup Range(u.user) \cup {":", "UPID", "pve", "qm", "vz", "igrate", "migrate", "snapshot", "dump", "all"}
    \cup QemuActions

(* The type of a worker holds no separator.                                  *)
LEMMA TypePieces ==
  ASSUME NEW u \in UPIDs, NEW type \in TypesOf(u)
  PROVE  type \in Seq(UPIDPieces(u) \ {":"})
<1> DEFINE T == {"qm", "vz", "igrate", "migrate", "snapshot", "dump", "all"} \cup QemuActions
<1>1. T \subseteq UPIDPieces(u) \ {":"}
  BY DEF UPIDPieces, QemuActions
<1>2. \A a \in T, b \in T : <<a, b>> \in Seq(UPIDPieces(u) \ {":"})
  <2> HIDE DEF T
  <2> QED BY <1>1
<1>3. \E a \in T, b \in T : type = <<a, b>>
  <2>1. CASE u.task = NotLifecycle
    BY <2>1 DEF TypesOf, OtherTypes, QemuActions
  <2>2. CASE u.task # NotLifecycle
    <3>1. type = Spelled(u.task.kind, u.task.action) /\ u.task \in LifecycleTasks
      BY <2>2 DEF TypesOf, UPIDs
    <3>2. \/ u.task.kind = "qemu" /\ u.task.action \in QemuActions \cup {"migrate"}
          \/ u.task.kind = "lxc" /\ u.task.action \in LxcActions \cup {"migrate"}
      BY <3>1 DEF LifecycleTasks
    <3> QED BY <3>1, <3>2 DEF Spelled, LxcActions
  <2> QED BY <2>1, <2>2
<1> QED BY <1>2, <1>3

(* The fields of a UPID hold no separator.                                   *)
LEMMA UPIDFieldsAre ==
  ASSUME NEW u \in UPIDs, NEW type \in TypesOf(u)
  PROVE  LET t == UPIDFields(u, type)
         IN  /\ t \in Seq(Seq(UPIDPieces(u) \ {":"})) /\ Len(t) = 9 /\ t # <<>>
             /\ t[1] = <<"UPID">> /\ t[3] = <<"1", "A">> /\ t[4] = <<"A">> /\ t[5] = <<"1">>
             /\ t[6] = type /\ t[7] = u.id /\ t[8] = u.user /\ t[9] = <<>>
<1> DEFINE D == UPIDPieces(u) \ {":"}
<1>1. PICK a, b, c, d, f : a = <<"UPID">> /\ b = <<"pve", "1">> /\ c = <<"1", "A">> /\ d = <<"A">> /\ f = <<"1">>
  OBVIOUS
<1>2. {"UPID", "pve", "1", "A"} \subseteq D
  BY ParsersAssumption DEF UPIDPieces
<1>3. Hex \subseteq D /\ Range(u.user) \ {":"} \subseteq D
  BY TasksAssumption DEF UPIDPieces
<1>4. u.id \in Seq(Digits) /\ Digits \subseteq D
  BY <1>3, TasksAssumption, ParsersAssumption DEF UPIDs
<1>5. u.user \in Seq(Range(u.user) \ {":"})
  BY ParsersAssumption DEF UPIDs
<1>6. type \in Seq(D)
  BY TypePieces
<1> HIDE DEF D
<1>7. a \in Seq(D) /\ b \in Seq(D) /\ c \in Seq(D) /\ d \in Seq(D) /\ f \in Seq(D)
  BY <1>1, <1>2
<1>8. u.id \in Seq(D) /\ u.user \in Seq(D) /\ <<>> \in Seq(D)
  BY <1>3, <1>4, <1>5, SeqMonotonic
<1>9. PICK id, user, empty : id = u.id /\ user = u.user /\ empty = <<>>
  OBVIOUS
<1>10. PICK t : t = <<a, b, c, d, f, type, id, user, empty>>
  OBVIOUS
<1>11. /\ t \in Seq(Seq(D)) /\ Len(t) = 9 /\ t # <<>>
       /\ t[1] = a /\ t[3] = c /\ t[4] = d /\ t[5] = f
       /\ t[6] = type /\ t[7] = id /\ t[8] = user /\ t[9] = empty
  <2>1. PICK Q : Q = Seq(D)
    OBVIOUS
  <2>2. /\ a \in Q /\ b \in Q /\ c \in Q /\ d \in Q /\ f \in Q /\ type \in Q /\ id \in Q
        /\ user \in Q /\ empty \in Q
    BY <1>6, <1>7, <1>8, <1>9, <2>1
  <2>3. t \in Seq(Q) /\ Len(t) = 9
    BY <1>10, <2>2
  <2> QED BY <1>10, <2>1, <2>3
<1>12. t = UPIDFields(u, type)
  BY <1>1, <1>9, <1>10 DEF UPIDFields
<1> QED BY <1>1, <1>9, <1>11, <1>12 DEF D

\* The place of the k-th field, from behind mark h.
IsField(text, texts, sep, e, h, k) ==
  /\ e[h] \in Nat /\ e[k] \in Nat /\ e[k] = e[h] + 1 + Len(texts[k])
  /\ SubSeq(text, e[h] + 1, e[k] - 1) = texts[k]
  /\ k < Len(texts) => text[e[k]] = sep /\ e[k] <= Len(text)

(* Every field of a joined text has its place.                               *)
LEMMA FieldIsField ==
  ASSUME NEW P, NEW sep, NEW texts \in Seq(Seq(P)), NEW e, MarksFields(texts, sep, P, e),
         NEW h, NEW k \in 1..Len(texts), h = k - 1
  PROVE  IsField(Join(texts, sep), texts, sep, e, h, k)
<1>1. PICK text, n : text = Join(texts, sep) /\ n = Len(texts)
  OBVIOUS
<1>2. /\ text \in Seq(P) /\ n \in Nat /\ k \in 1..n
      /\ SubSeq(text, e[h] + 1, e[k] - 1) = texts[k]
  BY <1>1 DEF MarksFields
<1>3. /\ n \in Nat \ {0} /\ e \in [0..n -> Nat] /\ e[n] = Len(text) + 1
      /\ \A i \in 0..n, j \in 0..n : i < j => e[i] < e[j]
      /\ \A i \in DOMAIN text : text[i] = sep <=> \E y \in 1..n - 1 : i = e[y]
  BY <1>1, Zenon DEF Marks, MarksFields
<1>4. PICK b, x, m : b = e[h] /\ x = e[k] /\ m = x - 1
  OBVIOUS
<1>5. /\ b \in Nat /\ x \in Nat /\ b < x
  <2>1. h \in 0..n /\ k \in 0..n /\ h < k
    BY <1>2
  <2> QED BY <1>3, <1>4, <2>1
<1>6. x <= Len(text) + 1
  <2>1. k < n => e[k] < e[n]
    BY <1>2, <1>3
  <2>2. k < n \/ k = n
    BY <1>2
  <2>3. e[n] = Len(text) + 1 /\ Len(text) \in Nat
    BY <1>2, <1>3
  <2> QED BY <1>4, <1>5, <2>1, <2>2, <2>3
<1>7. m \in Nat /\ b <= m /\ m <= Len(text) /\ Len(text) \in Nat
  <2>1. Len(text) \in Nat
    BY <1>2
  <2>2. m = x - 1
    BY <1>4
  <2> QED BY <1>5, <1>6, <2>1, <2>2
<1>8. Len(SubSeq(text, b + 1, m)) = m - b
  BY <1>2, <1>5, <1>7, PartElements
<1>9. x = b + 1 + Len(texts[k])
  <2>1. SubSeq(text, b + 1, m) = texts[k]
    BY <1>2, <1>4
  <2>2. m = x - 1
    BY <1>4
  <2>3. Len(texts[k]) = m - b
    BY <1>8, <2>1
  <2> QED BY <1>5, <2>2, <2>3
<1>10. ASSUME k < n PROVE text[x] = sep /\ x <= Len(text)
  <2>1. x < e[n]
    BY <1>2, <1>3, <1>4, <1>10
  <2>2. x <= Len(text)
    BY <1>3, <1>5, <1>7, <2>1
  <2>3. x \in DOMAIN text
    BY <1>2, <1>5, <2>2
  <2>4. k \in 1..n - 1
    BY <1>2, <1>10
  <2> QED BY <1>3, <1>4, <2>2, <2>3, <2>4
<1> QED BY <1>1, <1>2, <1>4, <1>5, <1>9, <1>10 DEF IsField

\* text has nine fields, the first of one piece and the last empty.
IsUPIDText(text, fields, P) ==
  /\ fields \in Seq(Seq(P)) /\ Len(fields) = 9 /\ fields # <<>>
  /\ fields[1] = <<"UPID">> /\ fields[9] = <<>>
  /\ text = Join(fields, ":")

(* Where the fields of such a text are.                                      *)
LEMMA UPIDMarks ==
  ASSUME NEW P, NEW fields, NEW text, NEW e, IsUPIDText(text, fields, P),
         MarksFields(fields, ":", P, e)
  PROVE  /\ text \in Seq(P) /\ Len(text) \in Nat
         /\ e[1] = 2 /\ text[1] = "UPID" /\ text[2] = ":"
         /\ e[8] = Len(text) /\ e[7] < e[8] /\ e[7] \in Nat /\ text[Len(text)] = ":"
         /\ 3 <= Len(text)
         /\ \A i \in 0..9 : e[i] \in Nat
         /\ \A i \in 0..9, j \in 0..9 : i < j => e[i] < e[j]
<1>1. /\ fields \in Seq(Seq(P)) /\ Len(fields) = 9
      /\ fields[1] = <<"UPID">> /\ fields[9] = <<>> /\ text = Join(fields, ":")
  BY DEF IsUPIDText
<1>2. /\ text \in Seq(P) /\ e \in [0..9 -> Nat] /\ e[0] = 0 /\ e[9] = Len(text) + 1
      /\ \A i \in 0..9, j \in 0..9 : i < j => e[i] < e[j]
  <2>1. Marks(text, ":", 9, e) /\ text \in Seq(P)
    BY <1>1 DEF MarksFields
  <2> QED BY <2>1, Zenon DEF Marks
<1>3. e[1] = 2 /\ text[2] = ":" /\ 2 <= Len(text)
  <2>1. 1 \in 1..Len(fields) /\ Len(fields[1]) = 1 /\ 1 < Len(fields) /\ 0 = 1 - 1
    BY <1>1
  <2>2. IsField(text, fields, ":", e, 0, 1)
    BY <1>1, <2>1, FieldIsField
  <2> QED BY <1>2, <2>1, <2>2 DEF IsField
<1>4. e[8] = Len(text) /\ text[e[8]] = ":"
  <2>1. 9 \in 1..Len(fields) /\ 8 \in 1..Len(fields) /\ 8 < Len(fields) /\ Len(fields[9]) = 0
        /\ 8 = 9 - 1 /\ 7 = 8 - 1
    BY <1>1
  <2>2. IsField(text, fields, ":", e, 8, 9)
    BY <1>1, <2>1, FieldIsField
  <2>3. IsField(text, fields, ":", e, 7, 8)
    BY <1>1, <2>1, FieldIsField
  <2>4. Len(text) \in Nat
    BY <1>2
  <2> QED BY <1>2, <2>1, <2>2, <2>3, <2>4, SMTT(30) DEF IsField
<1>5. text[1] = "UPID"
  <2>1. SubSeq(text, e[0] + 1, e[1] - 1) = fields[1]
    <3>1. 0 = 1 - 1 /\ 1 \in 1..Len(fields)
      BY <1>1
    <3>2. IsField(text, fields, ":", e, 0, 1)
      BY <1>1, <3>1, FieldIsField
    <3> QED BY <3>2 DEF IsField
  <2>2. e[0] + 1 = 1 /\ e[1] - 1 = 1
    BY <1>2, <1>3
  <2>3. SubSeq(text, 1, 1) = <<"UPID">>
    BY <1>1, <2>1, <2>2
  <2>4. SubSeq(text, 0 + 1, 1)[1] = text[0 + 1]
    BY <1>2, <1>3, PartElements
  <2>5. 0 + 1 = 1 /\ <<"UPID">>[1] = "UPID"
    OBVIOUS
  <2> QED BY <2>3, <2>4, <2>5
<1>6. \A i \in 0..9 : e[i] \in Nat
  BY <1>2
<1>7. e[1] < e[8] /\ e[7] < e[8] /\ e[7] \in Nat
  BY <1>2
<1> QED BY <1>2, <1>3, <1>4, <1>5, <1>6, <1>7, SMTT(30)

\* parts are the fields from the second on, the last of them perhaps cut, of a
\* text that was cut after m pieces.
FieldsUpTo(parts, text, fields, m) ==
  /\ Len(parts) \in 1..7
  /\ \A i \in 1..7 : i < Len(parts) => parts[i] = fields[i + 1]
  /\ m = Len(text) - 1 => Len(parts) = 7 /\ parts[7] = fields[8]

(* What a text is split into that was cut after m pieces.                    *)
LEMMA UPIDCut ==
  ASSUME NEW P, NEW fields, NEW text, NEW e, IsUPIDText(text, fields, P),
         MarksFields(fields, ":", P, e), NEW m \in Nat, 2 <= m, m < Len(text)
  PROVE  FieldsUpTo(Split(SubSeq(text, 3, m), ":"), text, fields, m)
<1>1. /\ text \in Seq(P) /\ Len(text) \in Nat
      /\ e[1] = 2 /\ e[8] = Len(text) /\ e[7] < e[8]
      /\ \A i \in 0..9 : e[i] \in Nat
      /\ \A i \in 0..9, j \in 0..9 : i < j => e[i] < e[j]
  BY UPIDMarks
<1>2. /\ fields \in Seq(Seq(P)) /\ Len(fields) = 9 /\ fields # <<>>
      /\ text = Join(fields, ":")
  BY DEF IsUPIDText
<1>3. PICK parts : parts = Split(SubSeq(text, e[1] + 1, m), ":")
  OBVIOUS
<1>4. PICK c \in Nat \ {0} : CutAt(parts, fields, text, e, 1, c, m)
  <2>1. 1 \in Nat /\ 1 < Len(fields) /\ e[1] <= m /\ m <= Len(Join(fields, ":"))
    BY <1>1, <1>2
  <2> QED BY <1>2, <1>3, <2>1, SplitOfCut
<1>5. /\ 1 + c <= 9 /\ e[c] <= m /\ m < e[1 + c]
      /\ Len(parts) = c
      /\ \A i \in 1..c - 1 : parts[i] = fields[1 + i]
      /\ parts[c] = SubSeq(text, e[c] + 1, m)
  <2>1. 1 + c - 1 = c
    OBVIOUS
  <2> QED BY <1>2, <1>4, <2>1 DEF CutAt
<1>6. c <= 7
  <2>1. SUFFICES ASSUME c = 8 PROVE FALSE
    BY <1>5
  <2> QED BY <1>1, <1>5, <2>1
<1>7. \A i \in 1..7 : i < Len(parts) => parts[i] = fields[i + 1]
  <2> TAKE i \in 1..7
  <2> HAVE i < Len(parts)
  <2>1. i \in 1..c - 1 /\ 1 + i = i + 1
    BY <1>5
  <2> QED BY <1>5, <2>1
<1>8. ASSUME m = Len(text) - 1 PROVE c = 7 /\ parts[7] = fields[8]
  <2>1. e[7] <= m /\ m = e[8] - 1 /\ e[7] \in Nat /\ e[8] \in Nat
    BY <1>1, <1>8, SMTT(30)
  <2>2. ASSUME c < 7 PROVE FALSE
    <3>1. PICK k : k = 1 + c
      OBVIOUS
    <3>2. k \in 0..9 /\ 7 \in 0..9 /\ (k = 7 \/ k < 7)
      BY <2>2, <3>1
    <3>3. e[k] \in Nat /\ (k = 7 \/ e[k] < e[7])
      BY <1>1, <3>2
    <3>4. m < e[k]
      BY <1>5, <3>1
    <3> QED BY <2>1, <3>3, <3>4
  <2>3. c = 7
    BY <1>5, <1>6, <2>2
  <2>4. 8 \in 1..Len(fields) /\ 7 = 8 - 1
    BY <1>2
  <2>5. IsField(text, fields, ":", e, 7, 8)
    BY <1>2, <2>4, FieldIsField
  <2>6. SubSeq(text, e[7] + 1, m) = fields[8]
    BY <2>1, <2>5 DEF IsField
  <2> QED BY <1>5, <2>3, <2>6
<1>9. FieldsUpTo(parts, text, fields, m)
  BY <1>5, <1>6, <1>7, <1>8 DEF FieldsUpTo
<1>10. e[1] + 1 = 3
  BY <1>1
<1> QED BY <1>3, <1>9, <1>10

\* What is parsed of a text that begins as fields do is nothing, or what they
\* say.
ReadAs(read, fields) ==
  \/ read = Invalid
  \/ read.valid /\ read.type = fields[6] /\ read.id = fields[7]

(* What Parts does to a text that was cut after n pieces, and holds two at   *)
(* least.                                                                    *)
LEMMA PartsOfCut ==
  ASSUME NEW P, NEW text \in Seq(P), NEW n \in 2..Len(text)
  PROVE  \E m \in {n - 1, n} :
           /\ 2 <= m
           /\ Parts(SubSeq(SubSeq(text, 1, n), 3, Len(SubSeq(text, 1, n)))) =
                Split(SubSeq(text, 3, m), ":")
           /\ n > 2 /\ text[n] = ":" => m = n - 1
<1>1. PICK s, body : s = SubSeq(text, 1, n) /\ body = SubSeq(s, 3, Len(s))
  OBVIOUS
<1>2. n \in Nat /\ 2 <= n /\ n <= Len(text) /\ Len(text) \in Nat
  OBVIOUS
<1>3. /\ s \in Seq(P) /\ Len(s) = n /\ \A i \in 1..n : s[i] = text[i]
  <2>1. /\ SubSeq(text, 0 + 1, n) \in Seq(P) /\ Len(SubSeq(text, 0 + 1, n)) = n - 0
        /\ \A i \in 1..n - 0 : SubSeq(text, 0 + 1, n)[i] = text[0 + i]
    BY <1>2, PartElements
  <2>2. 0 + 1 = 1 /\ n - 0 = n /\ \A i \in 1..n : 0 + i = i
    BY <1>2
  <2> QED BY <1>1, <2>1, <2>2
<1>4. body = SubSeq(text, 3, n)
  <2>1. \A i \in 3..n : i \in 1..Len(s) /\ i \in 1..Len(text) /\ s[i] = text[i]
    BY <1>2, <1>3
  <2>2. SubSeq(s, 3, n) = SubSeq(text, 3, n)
    <3>1. 3 \in Nat /\ n \in Int
      BY <1>2
    <3> QED BY <1>3, <2>1, <3>1, SubSeqSame
  <2> QED BY <1>1, <1>3, <2>2
<1>5. /\ body \in Seq(P) /\ Len(body) = n - 2 /\ \A i \in 1..n - 2 : body[i] = text[2 + i]
  <2>1. /\ SubSeq(text, 2 + 1, n) \in Seq(P) /\ Len(SubSeq(text, 2 + 1, n)) = n - 2
        /\ \A i \in 1..n - 2 : SubSeq(text, 2 + 1, n)[i] = text[2 + i]
    BY <1>2, PartElements
  <2> QED BY <1>4, <2>1
<1>6. CASE body # <<>> /\ Last(body) = ":"
  <2>1. n > 2
    BY <1>2, <1>5, <1>6
  <2>2. Front(body) = SubSeq(text, 3, n - 1)
    <3>1. PICK k : k = n - 3
      OBVIOUS
    <3>2. k \in Nat /\ Len(body) - 1 = k
      BY <1>2, <1>5, <2>1, <3>1
    <3>3. /\ SubSeq(body, 0 + 1, k) \in Seq(P) /\ Len(SubSeq(body, 0 + 1, k)) = k - 0
          /\ \A i \in 1..k - 0 : SubSeq(body, 0 + 1, k)[i] = body[0 + i]
      <4>1. 0 \in Nat /\ 0 <= k /\ k <= Len(body)
        BY <1>2, <1>5, <3>1, <3>2
      <4> QED BY <1>5, <3>2, <4>1, PartElements
    <3>4. PICK h : h = n - 1
      OBVIOUS
    <3>5. /\ SubSeq(text, 2 + 1, h) \in Seq(P) /\ Len(SubSeq(text, 2 + 1, h)) = h - 2
          /\ \A i \in 1..h - 2 : SubSeq(text, 2 + 1, h)[i] = text[2 + i]
      <4>1. 2 \in Nat /\ h \in Nat /\ 2 <= h /\ h <= Len(text)
        BY <1>2, <2>1, <3>4
      <4> QED BY <4>1, PartElements
    <3>6. 0 + 1 = 1 /\ 2 + 1 = 3 /\ k - 0 = k /\ h - 2 = k /\ \A i \in 1..k : 0 + i = i /\ i \in 1..n - 2
      BY <1>2, <3>1, <3>2, <3>4
    <3>7. PICK x, y : x = SubSeq(body, 1, k) /\ y = SubSeq(text, 3, h)
      OBVIOUS
    <3>8. /\ x \in Seq(P) /\ y \in Seq(P) /\ Len(x) = k /\ Len(y) = k
          /\ \A i \in 1..k : x[i] = y[i]
      BY <1>5, <3>3, <3>5, <3>6, <3>7
    <3>9. x = y
      BY <3>8, SeqEqual
    <3> QED BY <3>2, <3>4, <3>7, <3>9 DEF Front
  <2>3. Parts(body) = Split(SubSeq(text, 3, n - 1), ":")
    BY <1>6, <2>2 DEF Parts
  <2> QED BY <1>1, <1>2, <2>1, <2>3
<1>7. CASE ~(body # <<>> /\ Last(body) = ":")
  <2>1. Parts(body) = Split(SubSeq(text, 3, n), ":")
    BY <1>4, <1>7 DEF Parts
  <2>2. ASSUME n > 2 PROVE text[n] # ":"
    <3>1. n - 2 \in 1..n - 2 /\ 2 + (n - 2) = n
      BY <1>2, <2>2
    <3>2. body # <<>>
      BY <1>5, <3>1
    <3>3. Last(body) = text[n]
      BY <1>5, <3>1 DEF Last
    <3> QED BY <1>7, <3>2, <3>3
  <2> QED BY <1>1, <1>2, <2>1, <2>2
<1> QED BY <1>6, <1>7

\* fields are those of a UPID: its numbers are ones.
HasNumbers(fields) == \A i \in 3..5 : IsNumber(fields[i], Hex)

(* ParseUPID of the beginning of a UPID gives nothing, or its type and its   *)
(* ID.                                                                       *)
LEMMA CutIsReadAs ==
  ASSUME NEW P, NEW fields, NEW text, NEW e, IsUPIDText(text, fields, P),
         MarksFields(fields, ":", P, e), HasNumbers(fields), NEW n \in 0..Len(text)
  PROVE  LET read == ParseUPID(SubSeq(text, 1, n))
         IN  /\ ReadAs(read, fields)
             /\ n = Len(text) => read.valid /\ read.user = fields[8]
<1>1. /\ text \in Seq(P) /\ Len(text) \in Nat /\ 3 <= Len(text)
      /\ text[1] = "UPID" /\ text[2] = ":" /\ text[Len(text)] = ":"
  BY UPIDMarks
<1>2. PICK s : s = SubSeq(text, 1, n)
  OBVIOUS
<1>3. n \in Nat /\ n <= Len(text)
  BY <1>1
<1>4. /\ s \in Seq(P) /\ Len(s) = n /\ \A i \in 1..n : s[i] = text[i]
  <2>1. /\ SubSeq(text, 0 + 1, n) \in Seq(P) /\ Len(SubSeq(text, 0 + 1, n)) = n - 0
        /\ \A i \in 1..n - 0 : SubSeq(text, 0 + 1, n)[i] = text[0 + i]
    BY <1>1, <1>3, PartElements
  <2>2. 0 + 1 = 1 /\ n - 0 = n /\ \A i \in 1..n : 0 + i = i
    BY <1>3
  <2> QED BY <1>2, <2>1, <2>2
<1>5. CASE n < 2
  <2>1. ~IsPrefix(<<"UPID", ":">>, s)
    BY <1>3, <1>4, <1>5 DEF IsPrefix
  <2>2. ParseUPID(s) = Invalid
    BY <2>1 DEF ParseUPID
  <2> QED BY <1>1, <1>2, <1>5, <2>2 DEF ReadAs
<1>6. CASE n >= 2
  <2>1. IsPrefix(<<"UPID", ":">>, s)
    <3>1. PICK head : head = <<"UPID", ":">>
      OBVIOUS
    <3>2. s[1] = "UPID" /\ s[2] = ":"
      BY <1>1, <1>3, <1>4, <1>6
    <3>3. P # {} /\ "UPID" \in P /\ ":" \in P
      BY <1>1, ElementOfSeq
    <3>4. head \in Seq(P) /\ Len(head) = 2 /\ head[1] = "UPID" /\ head[2] = ":"
      BY <3>1, <3>3
    <3>5. \A i \in 1..2 : i \in 1..Len(head) /\ i \in 1..Len(s) /\ head[i] = s[i]
      BY <1>3, <1>4, <1>6, <3>2, <3>4
    <3>6. SubSeq(head, 1, 2) = SubSeq(s, 1, 2)
      <4>1. 1 \in Nat /\ 2 \in Int
        OBVIOUS
      <4> QED BY <1>4, <3>4, <3>5, <4>1, SubSeqSame
    <3> QED BY <1>3, <1>4, <1>6, <3>1, <3>4, <3>6 DEF IsPrefix
  <2>2. PICK parts : parts = Parts(SubSeq(s, 3, Len(s)))
    OBVIOUS
  <2>3. PICK m \in {n - 1, n} :
          2 <= m /\ parts = Split(SubSeq(text, 3, m), ":") /\ (n > 2 /\ text[n] = ":" => m = n - 1)
    <3>1. n \in 2..Len(text)
      BY <1>1, <1>3, <1>6
    <3> QED BY <1>1, <1>2, <2>2, <3>1, PartsOfCut
  <2>4. n = Len(text) => m = Len(text) - 1
    BY <1>1, <2>3
  <2>5. m \in Nat /\ 2 <= m /\ m < Len(text)
    BY <1>1, <1>3, <2>3, <2>4
  <2>6. FieldsUpTo(parts, text, fields, m)
    BY <2>3, <2>5, UPIDCut
  <2>7. CASE Len(parts) < 7
    <3>1. ParseUPID(s) = Invalid
      BY <2>1, <2>2, <2>7 DEF ParseUPID
    <3>2. n # Len(text)
      BY <2>4, <2>6, <2>7 DEF FieldsUpTo
    <3> QED BY <1>2, <3>1, <3>2 DEF ReadAs
  <2>8. CASE Len(parts) = 7
    <3>1. \A i \in 1..6 : parts[i] = fields[i + 1]
      BY <2>6, <2>8 DEF FieldsUpTo
    <3>2. \A i \in 2..4 : IsNumber(parts[i], Hex)
      <4> TAKE i \in 2..4
      <4>1. i \in 1..6 /\ i + 1 \in 3..5
        OBVIOUS
      <4> QED BY <3>1, <4>1 DEF HasNumbers
    <3>3. parts[5] = fields[6] /\ parts[6] = fields[7]
      BY <3>1
    <3>4. PICK read : read = ParseUPID(s)
      OBVIOUS
    <3>5. read = [valid |-> TRUE, node |-> parts[1], pid |-> parts[2], pstart |-> parts[3],
                  starttime |-> parts[4], type |-> parts[5], id |-> parts[6],
                  user |-> parts[7], raw |-> s]
      <4>1. ~(Len(parts) < 7 \/ \E i \in 2..4 : ~IsNumber(parts[i], Hex))
        BY <2>8, <3>2
      <4> QED BY <2>1, <2>2, <3>4, <4>1, Zenon DEF ParseUPID
    <3>6. read.valid /\ read.type = fields[6] /\ read.id = fields[7] /\ read.user = parts[7]
      BY <3>3, <3>5
    <3>7. n = Len(text) => parts[7] = fields[8]
      BY <2>4, <2>6 DEF FieldsUpTo
    <3> QED BY <1>2, <3>4, <3>6, <3>7 DEF ReadAs
  <2>9. Len(parts) < 7 \/ Len(parts) = 7
    <3>1. PICK l : l = Len(parts)
      OBVIOUS
    <3>2. l \in 1..7
      BY <2>6, <3>1, Zenon DEF FieldsUpTo
    <3> QED BY <3>1, <3>2
  <2> QED BY <2>7, <2>8, <2>9
<1> QED BY <1>3, <1>5, <1>6

(* The types that PVE gives a worker are those that the code reads as the    *)
(* task.                                                                     *)
LEMMA TypesAreRead ==
  ASSUME NEW u \in UPIDs, NEW type \in TypesOf(u)
  PROVE  WorkerTypeMap(type) = u.task
<1>1. CASE u.task = NotLifecycle
  <2>1. type \in {<<"vz", "reset">>, <<"qm", "snapshot">>, <<"vz", "dump">>, <<"start", "all">>}
    BY <1>1 DEF TypesOf, OtherTypes
  <2>2. /\ type # <<"qm", "igrate">> /\ type # <<"vz", "migrate">>
        /\ type \notin {<<"qm", a>> : a \in QemuActions}
        /\ type \notin {<<"vz", a>> : a \in LxcActions}
    BY <2>1 DEF QemuActions, LxcActions
  <2> QED BY <1>1, <2>2, Zenon DEF WorkerTypeMap
<1>2. CASE u.task # NotLifecycle
  <2>1. type = Spelled(u.task.kind, u.task.action) /\ u.task \in LifecycleTasks
    BY <1>2 DEF TypesOf, UPIDs
  <2>2. CASE u.task = [kind |-> "qemu", action |-> "migrate"]
    <3>1. type = <<"qm", "igrate">>
      BY <2>1, <2>2 DEF Spelled
    <3> QED BY <2>2, <3>1 DEF WorkerTypeMap, QemuActions, LxcActions
  <2>3. CASE u.task = [kind |-> "lxc", action |-> "migrate"]
    <3>1. type = <<"vz", "migrate">>
      BY <2>1, <2>3 DEF Spelled
    <3> QED BY <2>3, <3>1 DEF WorkerTypeMap, QemuActions, LxcActions
  <2>4. ASSUME NEW a \in QemuActions, u.task = [kind |-> "qemu", action |-> a]
        PROVE  WorkerTypeMap(type) = u.task
    <3>1. a # "migrate" /\ a # "igrate"
      BY DEF QemuActions
    <3>2. type = <<"qm", a>>
      BY <2>1, <2>4, <3>1 DEF Spelled
    <3>3. /\ type # <<"qm", "igrate">> /\ type # <<"vz", "migrate">>
          /\ type \in {<<"qm", b>> : b \in QemuActions}
          /\ type \notin {<<"vz", b>> : b \in LxcActions}
          /\ type[2] = a
      BY <3>1, <3>2
    <3> QED BY <2>4, <3>3 DEF WorkerTypeMap
  <2>5. ASSUME NEW a \in LxcActions, u.task = [kind |-> "lxc", action |-> a]
        PROVE  WorkerTypeMap(type) = u.task
    <3>1. a # "migrate"
      BY DEF QemuActions, LxcActions
    <3>2. type = <<"vz", a>>
      BY <2>1, <2>5, <3>1 DEF Spelled
    <3>3. /\ type # <<"qm", "igrate">> /\ type # <<"vz", "migrate">>
          /\ type \notin {<<"qm", b>> : b \in QemuActions}
          /\ type \in {<<"vz", b>> : b \in LxcActions}
          /\ type[2] = a
      BY <3>1, <3>2
    <3> QED BY <2>5, <3>3 DEF WorkerTypeMap
  <2> QED BY <2>1, <2>2, <2>3, <2>4, <2>5 DEF LifecycleTasks
<1> QED BY <1>1, <1>2

(* The UPID of a task is such a text.                                        *)
LEMMA UPIDIsText ==
  ASSUME NEW u \in UPIDs, NEW type \in TypesOf(u)
  PROVE  /\ IsUPIDText(UPIDText(u, type), UPIDFields(u, type), UPIDPieces(u))
         /\ \E e : MarksFields(UPIDFields(u, type), ":", UPIDPieces(u), e)
         /\ UPIDText(u, type) \in Seq(UPIDPieces(u))
<1>1. PICK P, fields, text :
        P = UPIDPieces(u) /\ fields = UPIDFields(u, type) /\ text = UPIDText(u, type)
  OBVIOUS
<1>2. /\ fields \in Seq(Seq(P \ {":"})) /\ Len(fields) = 9 /\ fields # <<>>
      /\ fields[1] = <<"UPID">> /\ fields[9] = <<>>
  BY <1>1, UPIDFieldsAre, Zenon
<1>3. ":" \in P
  BY <1>1 DEF UPIDPieces
<1>4. text = Join(fields, ":")
  BY <1>1 DEF UPIDText, UPIDFields
<1>5. IsUPIDText(text, fields, P)
  <2>1. Seq(P \ {":"}) \subseteq Seq(P)
    BY SeqMonotonic
  <2>2. fields \in Seq(Seq(P))
    BY <1>2, <2>1, SeqMonotonic
  <2> QED BY <1>2, <1>4, <2>2 DEF IsUPIDText
<1>6. PICK e : MarksFields(fields, ":", P, e)
  BY <1>2, <1>3, FieldsOfJoin
<1>7. text \in Seq(P)
  BY <1>5, <1>6, UPIDMarks
<1> QED BY <1>1, <1>5, <1>6, <1>7

(* What a UPID announces that was cut after n pieces.                        *)
LEMMA CutAnnounces ==
  ASSUME NEW u \in UPIDs, NEW type \in TypesOf(u), NEW n \in 0..Len(UPIDText(u, type))
  PROVE  LET text == UPIDText(u, type)
             task == IF u.task = NotLifecycle THEN NotLifecycle
                     ELSE [kind |-> u.task.kind, action |-> u.task.action,
                           vm |-> IF u.id = <<>> THEN NoVM ELSE u.id]
         IN  /\ Announced(SubSeq(text, 1, n)) \in {NotLifecycle, task}
             /\ n = Len(text) => /\ Announced(SubSeq(text, 1, n)) = task
                                 /\ ParseUPID(SubSeq(text, 1, n)).user = u.user
<1> DEFINE P == UPIDPieces(u)
<1>1. PICK fields : fields = UPIDFields(u, type)
  OBVIOUS
<1>2. /\ fields \in Seq(Seq(P \ {":"})) /\ Len(fields) = 9 /\ fields # <<>>
      /\ fields[1] = <<"UPID">> /\ fields[3] = <<"1", "A">> /\ fields[4] = <<"A">>
      /\ fields[5] = <<"1">> /\ fields[6] = type /\ fields[7] = u.id /\ fields[8] = u.user
      /\ fields[9] = <<>>
  BY <1>1, UPIDFieldsAre, Zenon
<1>4. PICK text : text = UPIDText(u, type)
  OBVIOUS
<1>7. PICK e : IsUPIDText(text, fields, P) /\ MarksFields(fields, ":", P, e)
  BY <1>1, <1>4, UPIDIsText
<1> HIDE DEF P
<1>8. HasNumbers(fields)
  <2>1. \A i \in 3..5 : i = 3 \/ i = 4 \/ i = 5
    OBVIOUS
  <2>2. /\ IsNumber(<<"1", "A">>, Hex) /\ IsNumber(<<"A">>, Hex) /\ IsNumber(<<"1">>, Hex)
    BY ParsersAssumption DEF IsNumber
  <2> QED BY <1>2, <2>1, <2>2 DEF HasNumbers
<1>9. PICK read : read = ParseUPID(SubSeq(text, 1, n))
  OBVIOUS
<1>10. ReadAs(read, fields) /\ (n = Len(text) => read.valid /\ read.user = fields[8])
  <2>1. n \in 0..Len(text)
    BY <1>4
  <2> QED BY <1>7, <1>8, <1>9, <2>1, CutIsReadAs
<1>11. CASE read = Invalid
  <2>1. Announced(SubSeq(text, 1, n)) = NotLifecycle
    BY <1>9, <1>11 DEF Announced, Invalid
  <2>2. n # Len(text)
    BY <1>10, <1>11 DEF Invalid
  <2> QED BY <1>4, <2>1, <2>2
<1>12. CASE read.valid /\ read.type = type /\ read.id = u.id
  <2>1. WorkerTypeMap(read.type) = u.task
    BY <1>12, TypesAreRead
  <2>2. VMID(read) = IF u.id = <<>> THEN NoVM ELSE u.id
    <3>1. u.id \in Seq(Digits)
      BY ParsersAssumption DEF UPIDs
    <3>2. \A i \in DOMAIN u.id : u.id[i] \in Digits
      BY <3>1
    <3> QED BY <1>12, <3>2 DEF VMID, IsNumber
  <2>3. Announced(SubSeq(text, 1, n)) =
          IF u.task = NotLifecycle THEN NotLifecycle
          ELSE [kind |-> u.task.kind, action |-> u.task.action, vm |-> VMID(read)]
    BY <1>9, <1>12, <2>1 DEF Announced
  <2> QED BY <1>2, <1>4, <1>9, <1>10, <2>2, <2>3
<1> QED BY <1>2, <1>10, <1>11, <1>12 DEF ReadAs

(* So the UPID of every task is read back.                                   *)
LEMMA UPIDsRead == ASSUME input \in UPIDs PROVE UPIDsReadBack
<1> SUFFICES ASSUME NEW type \in TypesOf(input)
             PROVE  LET text == UPIDText(input, type)
                    IN  /\ Announced(text) = IF input.task = NotLifecycle THEN NotLifecycle
                               ELSE [kind |-> input.task.kind, action |-> input.task.action,
                                     vm |-> IF input.id = <<>> THEN NoVM ELSE input.id]
                        /\ ParseUPID(text).user = input.user
                        /\ \A cut \in Beginnings(text) :
                             Announced(cut) \in {NotLifecycle, Announced(text)}
  BY DEF UPIDsReadBack
<1>1. PICK text, task : /\ text = UPIDText(input, type)
                        /\ task = IF input.task = NotLifecycle THEN NotLifecycle
                               ELSE [kind |-> input.task.kind, action |-> input.task.action,
                                     vm |-> IF input.id = <<>> THEN NoVM ELSE input.id]
  OBVIOUS
<1>2. \A n \in 0..Len(text) :
        /\ Announced(SubSeq(text, 1, n)) \in {NotLifecycle, task}
        /\ n = Len(text) => /\ Announced(SubSeq(text, 1, n)) = task
                            /\ ParseUPID(SubSeq(text, 1, n)).user = input.user
  BY <1>1, CutAnnounces
<1>3. text \in Seq(UPIDPieces(input))
  BY UPIDIsText, <1>1
<1>4. PICK k : k = Len(text)
  OBVIOUS
<1>5. k \in Nat /\ SubSeq(text, 1, k) = text
  BY <1>3, <1>4, SubSeqFull
<1>6. Announced(text) = task /\ ParseUPID(text).user = input.user
  <2>1. k \in 0..Len(text)
    BY <1>4, <1>5
  <2>2. Announced(SubSeq(text, 1, k)) = task /\ ParseUPID(SubSeq(text, 1, k)).user = input.user
    BY <1>2, <1>4, <2>1
  <2> QED BY <1>5, <2>2
<1>7. \A cut \in Beginnings(text) : Announced(cut) \in {NotLifecycle, task}
  <2> SUFFICES ASSUME NEW n \in 0..Len(text) - 1
               PROVE  Announced(SubSeq(text, 1, n)) \in {NotLifecycle, task}
    BY DEF Beginnings
  <2>1. n \in 0..Len(text)
    BY <1>4, <1>5
  <2> QED BY <1>2, <2>1
<1> QED BY <1>1, <1>6, <1>7
-----------------------------------------------------------------------------
(* Tails of active lines                                                     *)

\* The pieces of tails.
TailWords == {"0", "1", "hex", "OK", "word"}

(* What is left of a tail from a piece on begins with it.                    *)
LEMMA RestBegins ==
  ASSUME NEW t \in Seq(TailWords), NEW i \in 1..Len(t)
  PROVE  Rest(t, i) # <<>> /\ Rest(t, i)[1] = t[i]
<1>1. PICK n : n = Len(t)
  OBVIOUS
<1>2. n \in Nat /\ \A j \in i..n : t[j] \in TailWords
  BY <1>1, ElementOfSeq
<1>3. /\ Len(SubSeq(t, i, n)) = n - i + 1 /\ SubSeq(t, i, n) \in Seq(TailWords)
      /\ \A j \in 1..n - i + 1 : SubSeq(t, i, n)[j] = t[i + j - 1]
  <2>1. i \in Int /\ n \in Int /\ i <= n
    BY <1>1, <1>2
  <2> QED BY <1>2, <2>1, SubSeqProperties
<1>4. 1 \in 1..n - i + 1 /\ i + 1 - 1 = i
  BY <1>1, <1>2
<1> QED BY <1>1, <1>3, <1>4 DEF Rest

(* A tail of two fields at least, the first of them an end time, is read     *)
(* from its second field on.                                                 *)
LEMMA IndexSays ==
  ASSUME NEW t \in Seq(TailWords), Len(t) >= 2, t[1] = "hex"
  PROVE  Says(t) = IF t[2] = "OK" THEN "OK" ELSE "ERR"
<1>1. t # <<>> /\ t # <<"0">> /\ t[1] # "1" /\ 2 \in 1..Len(t)
  OBVIOUS
<1>2. StatusTail(t) = Rest(t, 2)
  BY <1>1 DEF StatusTail, IsActiveForm, IsIndexForm, IsHex
<1> QED BY <1>1, <1>2, RestBegins DEF Says

(* One of three fields at least, of which the first says that the task has   *)
(* ended and the second when, is read from its third field on.               *)
LEMMA ActiveSays ==
  ASSUME NEW t \in Seq(TailWords), Len(t) >= 3, t[1] = "1", t[2] = "hex"
  PROVE  Says(t) = IF t[3] = "OK" THEN "OK" ELSE "ERR"
<1>1. t # <<>> /\ t # <<"0">> /\ 3 \in 1..Len(t)
  OBVIOUS
<1>2. StatusTail(t) = Rest(t, 3)
  BY <1>1 DEF StatusTail, IsActiveForm, IsHex
<1> QED BY <1>1, <1>2, RestBegins DEF Says

(* What the tails say that PVE writes.                                       *)
LEMMA TailSays ==
  /\ \A t \in {<<>>, <<"0">>} : Says(t) = "running"
  /\ \A t \in {<<"1", "hex", "OK">>, <<"hex", "OK">>} : Says(t) = "OK"
  /\ \A t \in {<<"1", "hex", "word">>, <<"1", "hex", "word", "1">>,
               <<"hex", "word">>, <<"hex", "word", "OK">>} : Says(t) = "ERR"
<1>1. \A t \in {<<>>, <<"0">>} : Says(t) = "running"
  BY DEF Says, StatusTail
<1>2. PICK a, b, c, d : a = "1" /\ b = "hex" /\ c = "OK" /\ d = "word"
  OBVIOUS
<1>3. a \in TailWords /\ b \in TailWords /\ c \in TailWords /\ d \in TailWords
  BY <1>2 DEF TailWords
<1>4. Says(<<a, b, c>>) = "OK"
  <2>1. PICK t : t = <<a, b, c>>
    OBVIOUS
  <2>2. t \in Seq(TailWords) /\ Len(t) = 3 /\ t[1] = a /\ t[2] = b /\ t[3] = c
    BY <1>3, <2>1
  <2>3. /\ t \in Seq(TailWords) /\ Len(t) >= 3 /\ t[1] = "1" /\ t[3] = "OK"
        /\ t[2] = "hex"
    BY <1>2, <2>2
  <2>4. Says(t) = "OK"
    BY <2>3, ActiveSays
  <2> QED BY <2>1, <2>4, Zenon
<1>5. Says(<<b, c>>) = "OK"
  <2>1. PICK t : t = <<b, c>>
    OBVIOUS
  <2>2. t \in Seq(TailWords) /\ Len(t) = 2 /\ t[1] = b /\ t[2] = c
    BY <1>3, <2>1
  <2>3. /\ t \in Seq(TailWords) /\ Len(t) >= 2 /\ t[1] = "hex" /\ t[2] = "OK"
        /\ t[1] = "hex"
    BY <1>2, <2>2
  <2>4. Says(t) = "OK"
    BY <2>3, IndexSays
  <2> QED BY <2>1, <2>4, Zenon
<1>6. Says(<<a, b, d>>) = "ERR"
  <2>1. PICK t : t = <<a, b, d>>
    OBVIOUS
  <2>2. t \in Seq(TailWords) /\ Len(t) = 3 /\ t[1] = a /\ t[2] = b /\ t[3] = d
    BY <1>3, <2>1
  <2>3. /\ t \in Seq(TailWords) /\ Len(t) >= 3 /\ t[1] = "1" /\ t[3] = "word"
        /\ t[2] = "hex"
    BY <1>2, <2>2
  <2>4. Says(t) = "ERR"
    BY <2>3, ActiveSays
  <2> QED BY <2>1, <2>4, Zenon
<1>7. Says(<<a, b, d, a>>) = "ERR"
  <2>1. PICK t : t = <<a, b, d, a>>
    OBVIOUS
  <2>2. t \in Seq(TailWords) /\ Len(t) = 4 /\ t[1] = a /\ t[2] = b /\ t[3] = d
    BY <1>3, <2>1
  <2>3. /\ t \in Seq(TailWords) /\ Len(t) >= 3 /\ t[1] = "1" /\ t[3] = "word"
        /\ t[2] = "hex"
    BY <1>2, <2>2
  <2>4. Says(t) = "ERR"
    BY <2>3, ActiveSays
  <2> QED BY <2>1, <2>4, Zenon
<1>8. Says(<<b, d>>) = "ERR"
  <2>1. PICK t : t = <<b, d>>
    OBVIOUS
  <2>2. t \in Seq(TailWords) /\ Len(t) = 2 /\ t[1] = b /\ t[2] = d
    BY <1>3, <2>1
  <2>3. /\ t \in Seq(TailWords) /\ Len(t) >= 2 /\ t[1] = "hex" /\ t[2] = "word"
        /\ t[1] = "hex"
    BY <1>2, <2>2
  <2>4. Says(t) = "ERR"
    BY <2>3, IndexSays
  <2> QED BY <2>1, <2>4, Zenon
<1>9. Says(<<b, d, c>>) = "ERR"
  <2>1. PICK t : t = <<b, d, c>>
    OBVIOUS
  <2>2. t \in Seq(TailWords) /\ Len(t) = 3 /\ t[1] = b /\ t[2] = d
    BY <1>3, <2>1
  <2>3. /\ t \in Seq(TailWords) /\ Len(t) >= 2 /\ t[1] = "hex" /\ t[2] = "word"
        /\ t[1] = "hex"
    BY <1>2, <2>2
  <2>4. Says(t) = "ERR"
    BY <2>3, IndexSays
  <2> QED BY <2>1, <2>4, Zenon
<1> QED BY <1>1, <1>2, <1>4, <1>5, <1>6, <1>7, <1>8, <1>9

(* A tail of a running task that was cut is another one.                     *)
LEMMA CutsOfRunning == \A t \in {<<>>, <<"0">>} : Cuts(t) \subseteq {<<>>, <<"0">>}
<1> SUFFICES ASSUME NEW t \in {<<>>, <<"0">>} PROVE Cuts(t) \subseteq {<<>>, <<"0">>}
  OBVIOUS
<1>1. t \in Seq(TailWords) /\ Len(t) \in {0, 1} /\ \A i \in DOMAIN t : t[i] # "OK"
  <2>1. PICK w : w = "0"
    OBVIOUS
  <2>2. w \in TailWords /\ w # "OK"
    BY <2>1 DEF TailWords
  <2>3. CASE t = <<>>
    BY <2>3
  <2>4. CASE t = <<w>>
    <3>1. <<w>> \in Seq(TailWords) /\ Len(<<w>>) = 1 /\ \A i \in DOMAIN <<w>> : <<w>>[i] = w
      BY <2>2
    <3> QED BY <2>2, <2>4, <3>1
  <2> QED BY <2>1, <2>3, <2>4
<1>2. \A n \in 0..Len(t) : SubSeq(t, 1, n) \in {<<>>, t}
  <2> SUFFICES ASSUME NEW n \in 0..Len(t) PROVE SubSeq(t, 1, n) \in {<<>>, t}
    OBVIOUS
  <2>1. n = 0 \/ n = Len(t)
    BY <1>1
  <2>2. SubSeq(t, 1, Len(t)) = t
    BY <1>1, SubSeqFull
  <2>3. SubSeq(t, 1, 0) = <<>>
    BY <1>1, SubSeqEmpty
  <2> QED BY <2>1, <2>2, <2>3
<1>3. {i \in DOMAIN t : t[i] = "OK"} = {}
  BY <1>1
<1> QED BY <1>2, <1>3 DEF Cuts

(* So every tail is read as what it was written for.                         *)
LEMMA TailsRead == ASSUME input \in Tails PROVE LinesReadBack
<1>1. PICK s \in {"running", "OK", "ERR"} : input.says = s /\ input.tail \in Written(s)
  BY DEF Tails
<1>2. Says(input.tail) = input.says
  BY <1>1, TailSays DEF Written
<1>3. ASSUME input.says = "running" PROVE \A c \in Cuts(input.tail) : Says(c) = "running"
  <2>1. input.tail \in {<<>>, <<"0">>}
    BY <1>1, <1>3 DEF Written
  <2> QED BY <2>1, TailSays, CutsOfRunning
<1> QED BY <1>2, <1>3 DEF LinesReadBack
-----------------------------------------------------------------------------
\* The texts that a behaviour may treat: those of Init, since nothing changes them.
Inputs ==
  \/ input \in UPIDs \/ input \in Tails \/ input \in Logs \/ input \in Configs
  \/ input \in NamePairs \/ input \in Migrations \/ input \in NoMigrations

(* Every behaviour treats one of them.                                       *)
LEMMA InputsStay == Spec => []Inputs
<1>1. Init => Inputs
  BY DEF Init, Inputs
<1>2. Inputs /\ [Next]_input => Inputs'
  BY DEF Inputs, Next
<1> QED BY <1>1, <1>2, PTL DEF Spec

(* An input has the form of the set it is in, and so is one of the others.   *)
LEMMA FormsOfInputs ==
  ASSUME Inputs
  PROVE  /\ Of("upid") => input \in UPIDs
         /\ Of("tail") => input \in Tails
         /\ Of("log") => input \in Logs
         /\ Of("config") => input \in Configs
         /\ Of("names") => input \in NamePairs
         /\ Of("migration") => input \in Migrations
         /\ Of("command") => input \in NoMigrations
<1>1. /\ input \in UPIDs => input.form = "upid"
      /\ input \in Tails => input.form = "tail"
      /\ input \in Logs => input.form = "log"
      /\ input \in Configs => input.form = "config"
      /\ input \in NamePairs => input.form = "names"
      /\ input \in Migrations => input.form = "migration"
      /\ input \in NoMigrations => input.form = "command"
  BY DEF UPIDs, Tails, Logs, Configs, NamePairs, Migrations, NoMigrations
<1> QED BY <1>1 DEF Inputs, Of

(* Every UPID of a task is announced as that task, and however it is cut as  *)
(* that task or not at all (upid.go:32, watcher.go:171).                     *)
THEOREM UPIDsAreReadBack == Spec => []UPIDsReadBack
<1>1. Inputs => UPIDsReadBack
  <2> SUFFICES ASSUME Inputs, Of("upid") PROVE UPIDsReadBack
    BY DEF UPIDsReadBack
  <2> QED BY FormsOfInputs, UPIDsRead
<1> QED BY <1>1, InputsStay, PTL

(* Every tail that PVE writes is read as what it was written for, in the     *)
(* form of the index and in that of the active file.                         *)
THEOREM LinesAreReadBack == Spec => []LinesReadBack
<1>1. Inputs => LinesReadBack
  <2> SUFFICES ASSUME Inputs, Of("tail") PROVE LinesReadBack
    BY DEF LinesReadBack
  <2> QED BY FormsOfInputs, TailsRead
<1> QED BY <1>1, InputsStay, PTL

(* Whatever a cluster and its nodes are named, what is published and what is *)
(* requested gets to those it is for (docs/EVENTS.md:62 and 132).            *)
THEOREM SubjectsDoRoute == Spec => []SubjectsRoute
<1>1. Inputs => SubjectsRoute
  <2> SUFFICES ASSUME Inputs, Of("names") PROVE SubjectsRoute
    BY DEF SubjectsRoute
  <2> QED BY FormsOfInputs, NamesRoute
<1> QED BY <1>1, InputsStay, PTL
=============================================================================
