---------------------------- MODULE ParsersProofs -----------------------------
(*****************************************************************************)
(* The theorems of Parsers that the shape of its texts alone does not give:  *)
(* what is taken for the target on each command line (TargetIsParsed), the   *)
(* target in every task log (LogTargetIsParsed), and a config read as what   *)
(* the VM has now (ConfigReadBack).                                          *)
(*****************************************************************************)
EXTENDS TextProofs
-----------------------------------------------------------------------------
(* Command lines                                                             *)

(* The least of a set is the first of it.                                    *)
LEMMA FirstIndex ==
  ASSUME NEW S, S \subseteq Int, NEW k \in S, \A j \in S : k <= j
  PROVE  (CHOOSE i \in S : \A j \in S : i <= j) = k
<1>1. \A i \in S : (\A j \in S : i <= j) => i = k
  OBVIOUS
<1> QED BY <1>1

(* Without an argument that gives a target there is no option that does.     *)
LEMMA NoOption ==
  ASSUME NEW args, {i \in DOMAIN args : IsTargetPair(args, i) \/ IsTargetFlag(args, i)} = {}
  PROVE  TargetOption(args) = None
BY DEF TargetOption, FirstOf

(* With one, the option is what it gives.                                    *)
LEMMA OneOption ==
  ASSUME NEW args, NEW k \in Int,
         {i \in DOMAIN args : IsTargetPair(args, i) \/ IsTargetFlag(args, i)} = {k}
  PROVE  TargetOption(args) = IF IsTargetPair(args, k) THEN args[k].word ELSE args[k + 1].word
<1>1. (CHOOSE i \in {k} : \A j \in {k} : i <= j) = k
  BY FirstIndex
<1> QED BY <1>1 DEF TargetOption, FirstOf

(* The target is the one behind the first place, if there is one.            *)
LEMMA FirstTargetFrom ==
  ASSUME NEW args, NEW S, S \subseteq Int, NEW h \in S, \A j \in S : h <= j,
         TargetAfterMigrate(From(args, h)) # None
  PROVE  TargetFrom(args, S) = TargetAfterMigrate(From(args, h))
<1> DEFINE Found == {i \in S : TargetAfterMigrate(From(args, i)) # None}
<1>1. (CHOOSE i \in Found : \A j \in Found : i <= j) = h
  <2>1. Found \subseteq Int /\ h \in Found /\ \A j \in Found : h <= j
    OBVIOUS
  <2> HIDE DEF Found
  <2> QED BY <2>1, FirstIndex
<1>2. Found # {}
  OBVIOUS
<1> QED BY <1>1, <1>2 DEF TargetFrom, FirstOf

(* Without a place there is none.                                            *)
LEMMA NoTargetFrom ==
  ASSUME NEW args, NEW S, S = {} PROVE TargetFrom(args, S) = None
BY DEF TargetFrom, FirstOf

(* The arguments from i on.                                                  *)
LEMMA FromElements ==
  ASSUME NEW A, NEW args \in Seq(A), NEW i \in 1..Len(args) + 1
  PROVE  /\ From(args, i) \in Seq(A) /\ Len(From(args, i)) = Len(args) - i + 1
         /\ DOMAIN From(args, i) = 1..Len(args) - i + 1
         /\ \A j \in 1..Len(args) - i + 1 : From(args, i)[j] = args[i + j - 1]
<1>1. PICK n, b : n = Len(args) /\ b = i - 1
  OBVIOUS
<1>2. n \in Nat /\ b \in Nat /\ b <= n /\ b + 1 = i
  BY <1>1
<1>3. /\ SubSeq(args, b + 1, n) \in Seq(A) /\ Len(SubSeq(args, b + 1, n)) = n - b
      /\ \A j \in 1..n - b : SubSeq(args, b + 1, n)[j] = args[b + j]
  BY <1>1, <1>2, PartElements
<1>4. PICK y : y = From(args, i)
  OBVIOUS
<1>5. /\ y \in Seq(A) /\ Len(y) = n - b /\ \A j \in 1..n - b : y[j] = args[b + j]
  BY <1>1, <1>2, <1>3, <1>4 DEF From
<1>6. n - b = Len(args) - i + 1 /\ \A j \in 1..n - b : b + j = i + j - 1
  BY <1>1, <1>2
<1> QED BY <1>4, <1>5, <1>6

(* Pieces that are joined are made of the elements of the pieces.            *)
LEMMA JoinedElements ==
  ASSUME NEW A, NEW S \in SUBSET Seq(A), NEW n PROVE Joined(S, n) \subseteq Seq(A)
<1> SUFFICES ASSUME NEW pieces \in BoundedSeq(S, n) PROVE FlattenSeq(pieces) \in Seq(A)
  BY DEF Joined
<1>1. pieces \in Seq(S)
  BY DEF BoundedSeq, SeqOf
<1>2. pieces \in Seq(Seq(A))
  BY <1>1, SeqMonotonic
<1> QED BY <1>2, FlattenElements

\* Arguments that give no target as an option.
Silent  == {a \in Arguments : a.key # "target" /\ a.word # "--target"}

\* Of these, those that are no VMID either.
NoVMIDs == {a \in Silent : ~IsVMID(a)}

\* Of these, those that cannot be taken for the target.
Passed  == {a \in NoVMIDs : IsPair(a) \/ IsOption(a)}

\* What options are made of: these, and names as their values.
Apart   == Passed \cup {Word(w) : w \in Names}

\* The head of a migration ends with its command, and holds no other.
HeadRead(h) ==
  /\ h \in Seq(Silent) /\ Len(h) \in 1..3
  /\ \/ h[Len(h)] \in {Word(w) : w \in Workers}
     \/ /\ Len(h) > 1 /\ h[Len(h)] = Word("migrate")
        /\ h[Len(h) - 1] \in {Word(q) : q \in Programs}
  /\ \A i \in 1..Len(h) - 1 : h[i] # Word("migrate") /\ h[i] \notin {Word(w) : w \in Workers}

(* What a word is as an argument.                                            *)
LEMMA WordFacts ==
  ASSUME NEW w PROVE Word(w).key = None /\ Word(w).word = w /\ ~IsPair(Word(w))
BY DEF Word, IsPair

(* A word other than --target gives no target.                               *)
LEMMA WordIs ==
  ASSUME NEW w \in Words, w # "--target" PROVE Word(w) \in Silent
BY DEF Word, Silent, Arguments, None

(* That is what the heads of migrations are like.                            *)
LEMMA HeadsRead == ASSUME NEW h \in Heads PROVE HeadRead(h)
<1>1. \A w \in Programs \cup Workers \cup {"migrate"} \cup Other : Word(w) \in Silent
  BY WordIs, TargetAssumption DEF Words, Keywords, Programs, Workers
<1>2. \A w, x : Word(w) = Word(x) => w = x
  BY WordFacts
<1>3. \A q \in Programs \cup Other : q # "migrate" /\ q \notin Workers
  BY TargetAssumption DEF Programs, Workers, Keywords
<1>4. \A q \in Programs \cup Other :
        Word(q) # Word("migrate") /\ Word(q) \notin {Word(w) : w \in Workers}
  BY <1>2, <1>3
<1>5. PICK p \in {<<>>} \cup {<<Word(o)>> : o \in Other},
           k \in {<<Word(q), Word("migrate")>> : q \in Programs} \cup {<<Word(w)>> : w \in Workers} :
        h = p \o k
  BY DEF Heads
<1>6. PICK migrate : migrate = Word("migrate") /\ migrate \in Silent
  BY <1>1
<1>7. CASE k \in {<<Word(q), Word("migrate")>> : q \in Programs}
  <2>1. PICK q, program : q \in Programs /\ program = Word(q) /\ k = <<program, migrate>>
    BY <1>6, <1>7
  <2>2. /\ program \in Silent /\ program \in {Word(r) : r \in Programs}
        /\ program # migrate /\ program \notin {Word(w) : w \in Workers}
    BY <1>1, <1>4, <1>6, <2>1
  <2>3. k \in Seq(Silent) /\ Len(k) = 2 /\ k[1] = program /\ k[2] = migrate
    BY <1>6, <2>1, <2>2
  <2>4. CASE p = <<>>
    <3>1. h = k
      BY <1>5, <2>3, <2>4, ConcatEmptySeq
    <3>2. h \in Seq(Silent) /\ Len(h) = 2 /\ h[1] = program /\ h[2] = migrate
      BY <2>3, <3>1
    <3> QED BY <1>6, <2>2, <3>2 DEF HeadRead
  <2>5. CASE p \in {<<Word(o)>> : o \in Other}
    <3>1. PICK o, path : o \in Other /\ path = Word(o) /\ p = <<path>>
      BY <2>5
    <3>2. path \in Silent /\ path # migrate /\ path \notin {Word(w) : w \in Workers}
      BY <1>1, <1>4, <1>6, <3>1
    <3>3. h \in Seq(Silent) /\ Len(h) = 3 /\ h[1] = path /\ h[2] = program /\ h[3] = migrate
      <4>1. p \in Seq(Silent) /\ Len(p) = 1 /\ p[1] = path
        BY <3>1, <3>2
      <4>2. h \in Seq(Silent) /\ TwoParts(h, p, k)
        BY <1>5, <2>3, <4>1, ConcatParts
      <4> QED BY <2>3, <4>1, <4>2 DEF TwoParts
    <3> QED BY <1>6, <2>2, <3>2, <3>3 DEF HeadRead
  <2> QED BY <1>5, <2>4, <2>5
<1>8. CASE k \in {<<Word(w)>> : w \in Workers}
  <2>1. PICK w, worker : w \in Workers /\ worker = Word(w) /\ k = <<worker>>
    BY <1>8
  <2>2. worker \in Silent /\ worker \in {Word(r) : r \in Workers}
    BY <1>1, <2>1
  <2>3. k \in Seq(Silent) /\ Len(k) = 1 /\ k[1] = worker
    BY <2>1, <2>2
  <2>4. CASE p = <<>>
    <3>1. h = k
      BY <1>5, <2>3, <2>4, ConcatEmptySeq
    <3>2. h \in Seq(Silent) /\ Len(h) = 1 /\ h[1] = worker
      BY <2>3, <3>1
    <3> QED BY <2>2, <3>2 DEF HeadRead
  <2>5. CASE p \in {<<Word(o)>> : o \in Other}
    <3>1. PICK o, path : o \in Other /\ path = Word(o) /\ p = <<path>>
      BY <2>5
    <3>2. path \in Silent /\ path # migrate /\ path \notin {Word(r) : r \in Workers}
      BY <1>1, <1>4, <1>6, <3>1
    <3>3. h \in Seq(Silent) /\ Len(h) = 2 /\ h[1] = path /\ h[2] = worker
      <4>1. p \in Seq(Silent) /\ Len(p) = 1 /\ p[1] = path
        BY <3>1, <3>2
      <4>2. h \in Seq(Silent) /\ TwoParts(h, p, k)
        BY <1>5, <2>3, <4>1, ConcatParts
      <4> QED BY <2>3, <4>1, <4>2 DEF TwoParts
    <3> QED BY <1>6, <2>2, <3>2, <3>3 DEF HeadRead
  <2> QED BY <1>5, <2>4, <2>5
<1> QED BY <1>5, <1>7, <1>8

(* The options give no target and no VMID.                                   *)
LEMMA OptionsRead ==
  /\ Apart \subseteq NoVMIDs /\ Options \subseteq Seq(Apart) /\ Options \subseteq Seq(NoVMIDs)
<1>1. \A f \in Flags : Word(f) \in Passed
  <2> SUFFICES ASSUME NEW f \in Flags PROVE Word(f) \in Passed
    OBVIOUS
  <2>1. f \in Words /\ f # "--target" /\ f \notin Numbers
    BY TargetAssumption DEF Words, Keywords
  <2>2. Word(f) \in Silent
    BY <2>1, WordIs
  <2> QED BY <2>1, <2>2, WordFacts DEF Passed, NoVMIDs, IsVMID, IsOption
<1>2. \A w \in Names : Word(w) \in NoVMIDs
  <2> SUFFICES ASSUME NEW w \in Names PROVE Word(w) \in NoVMIDs
    OBVIOUS
  <2>1. w \in Words /\ w # "--target" /\ w \notin Numbers
    BY TargetAssumption DEF Words, Keywords
  <2>2. Word(w) \in Silent
    BY <2>1, WordIs
  <2> QED BY <2>1, <2>2, WordFacts DEF NoVMIDs, IsVMID
<1>3. \A w \in Names : Pair("storage", w) \in Passed
  <2> SUFFICES ASSUME NEW w \in Names PROVE Pair("storage", w) \in Passed
    OBVIOUS
  <2>1. w \in Words /\ w # "--target" /\ w \notin Numbers
    BY TargetAssumption DEF Words, Keywords
  <2> QED BY <2>1
        DEF Passed, NoVMIDs, Silent, Arguments, Keys, Pair, IsVMID, IsPair, None
<1>4. Apart \subseteq NoVMIDs
  BY <1>2 DEF Apart, Passed
<1>5. \A f \in Flags, w \in Names :
        Word(f) \in Apart /\ Word(w) \in Apart /\ Pair("storage", w) \in Apart
  BY <1>1, <1>2, <1>3 DEF Apart
<1>6. \A a \in Apart, b \in Apart : <<a>> \in Seq(Apart) /\ <<a, b>> \in Seq(Apart)
  <2> HIDE DEF Apart
  <2> QED OBVIOUS
<1>7. FlagOptions \subseteq Seq(Apart)
  <2> SUFFICES ASSUME NEW o \in FlagOptions PROVE o \in Seq(Apart)
    OBVIOUS
  <2>1. PICK y : o = <<y>> /\ y \in Apart
    BY <1>1, <1>3 DEF FlagOptions, Apart
  <2> HIDE DEF Apart
  <2> QED BY <1>6, <2>1
<1>8. ValuedOptions \subseteq Seq(Apart)
  <2> SUFFICES ASSUME NEW o \in ValuedOptions PROVE o \in Seq(Apart)
    OBVIOUS
  <2>1. PICK f \in Flags, w \in Names : o = <<Word(f), Word(w)>>
    BY DEF ValuedOptions
  <2>2. PICK a, b : a = Word(f) /\ b = Word(w)
    OBVIOUS
  <2>3. a \in Apart /\ b \in Apart
    BY <1>5, <2>2
  <2> QED BY <1>6, <2>1, <2>2, <2>3
<1>9. Options \subseteq Seq(Apart)
  BY <1>7, <1>8 DEF Options
<1> QED BY <1>4, <1>9, SeqMonotonic

\* Where the parts of a command line are: the head up to a, the VMID at v, and
\* what gives the target, g, from t + 1 to e.  The names in S, and no others,
\* stand on their own between the VMID and it.
LineRead(x, h, g, S, a, v, t, e) ==
  /\ x \in Seq(Arguments) /\ Len(x) \in Nat /\ Len(g) \in Nat
  /\ a = Len(h) /\ a \in Nat /\ v \in Nat /\ t \in Nat /\ e \in Nat
  /\ a < v /\ v <= t /\ e = t + Len(g) /\ e <= Len(x)
  /\ \A i \in 1..a : x[i] = h[i]
  /\ \A i \in a + 1..v - 1 : x[i] \in NoVMIDs
  /\ x[v] = Word("100")
  /\ \A i \in v + 1..t : /\ x[i] \in NoVMIDs
                         /\ x[i] \in Passed \/ (IsBareName(x[i]) /\ x[i].word \in S)
  /\ S # {} => \E i \in v + 1..t : IsBareName(x[i])
  /\ \A i \in 1..Len(g) : x[t + i] = g[i]
  /\ \A i \in e + 1..Len(x) : x[i] \in NoVMIDs

(* The parts of a command line have their places.                            *)
LEMMA SixRead ==
  ASSUME NEW h \in Seq(Silent), NEW b \in Seq(NoVMIDs), NEW m \in Seq(Apart),
         NEW g \in Seq(Arguments), NEW z \in Seq(NoVMIDs),
         NEW S, S = {m[i].word : i \in {j \in DOMAIN m : IsBareName(m[j])}}
  PROVE  \E a, v, t, e :
           LineRead(h \o b \o <<Word("100")>> \o m \o g \o z, h, g, S, a, v, t, e)
<1>1. PICK number, s : number = Word("100") /\ s = <<number>>
  OBVIOUS
<1>2. number \in Arguments
  BY <1>1 DEF Word, Arguments, Words, Numbers
<1>3. /\ Apart \subseteq NoVMIDs /\ NoVMIDs \subseteq Silent /\ Silent \subseteq Arguments
  BY OptionsRead DEF NoVMIDs, Silent
<1>4. s \in Seq(Arguments) /\ Len(s) = 1 /\ s[1] = number
  BY <1>1, <1>2
<1>5. PICK x : x = h \o b \o s \o m \o g \o z
  OBVIOUS
<1>6. x \in Seq(Arguments) /\ SixParts(x, h, b, s, m, g, z)
  <2>1. h \in Seq(Arguments) /\ b \in Seq(Arguments) /\ m \in Seq(Arguments) /\ z \in Seq(Arguments)
    BY <1>3, SeqMonotonic
  <2> QED BY <1>4, <1>5, <2>1, ConcatSix
<1>7. PICK a, lb, lm, lg, lz : a = Len(h) /\ lb = Len(b) /\ lm = Len(m) /\ lg = Len(g) /\ lz = Len(z)
  OBVIOUS
<1>8. /\ a \in Nat /\ lb \in Nat /\ lm \in Nat /\ lg \in Nat /\ lz \in Nat
      /\ \A i \in 1..lb : b[i] \in NoVMIDs
      /\ DOMAIN m = 1..lm /\ \A i \in 1..lm : m[i] \in Apart
      /\ \A i \in 1..lz : z[i] \in NoVMIDs
  BY <1>7, ElementOfSeq, LenProperties
<1>9. PICK v, t, e : v = a + lb + 1 /\ t = v + lm /\ e = t + lg
  OBVIOUS
<1>10. /\ Len(x) = e + lz
       /\ \A i \in 1..a : x[i] = h[i]
       /\ \A i \in 1..lb : x[a + i] = b[i]
       /\ x[v] = number
       /\ \A i \in 1..lm : x[v + i] = m[i]
       /\ \A i \in 1..lg : x[t + i] = g[i]
       /\ \A i \in 1..lz : x[e + i] = z[i]
  <2>1. /\ Len(x) = a + lb + 1 + lm + lg + lz
        /\ \A i \in 1..a : x[i] = h[i]
        /\ \A i \in 1..lb : x[a + i] = b[i]
        /\ \A i \in 1..1 : x[a + lb + i] = s[i]
        /\ \A i \in 1..lm : x[a + lb + 1 + i] = m[i]
        /\ \A i \in 1..lg : x[a + lb + 1 + lm + i] = g[i]
        /\ \A i \in 1..lz : x[a + lb + 1 + lm + lg + i] = z[i]
    BY <1>4, <1>6, <1>7, Zenon DEF SixParts
  <2>2. x[a + lb + 1] = number
    BY <1>4, <2>1
  <2> QED BY <1>9, <2>1, <2>2
<1>11. \A i \in a + 1..v - 1 : x[i] \in NoVMIDs
  <2> TAKE i \in a + 1..v - 1
  <2>1. PICK j : j = i - a
    OBVIOUS
  <2>2. j \in 1..lb /\ a + j = i
    BY <1>8, <1>9, <2>1
  <2> QED BY <1>8, <1>10, <2>2
<1>12. \A i \in v + 1..t :
         /\ x[i] \in NoVMIDs
         /\ x[i] \in Passed \/ (IsBareName(x[i]) /\ x[i].word \in S)
  <2> TAKE i \in v + 1..t
  <2>1. PICK j : j = i - v
    OBVIOUS
  <2>2. j \in 1..lm /\ v + j = i
    BY <1>8, <1>9, <2>1
  <2>3. x[i] = m[j] /\ m[j] \in Apart /\ j \in DOMAIN m
    BY <1>8, <1>10, <2>2
  <2>4. m[j] \in Passed \/ IsBareName(m[j])
    BY <2>3, WordFacts DEF Apart, IsBareName
  <2>5. IsBareName(m[j]) => m[j].word \in S
    BY <2>3
  <2> QED BY <1>3, <2>3, <2>4, <2>5
<1>16. S # {} => \E i \in v + 1..t : IsBareName(x[i])
  <2> SUFFICES ASSUME S # {} PROVE \E i \in v + 1..t : IsBareName(x[i])
    OBVIOUS
  <2>1. PICK j \in DOMAIN m : IsBareName(m[j])
    OBVIOUS
  <2>2. j \in 1..lm /\ x[v + j] = m[j]
    BY <1>8, <1>10, <2>1
  <2>3. v + j \in v + 1..t
    <3>1. v \in Nat /\ t = v + lm /\ lm \in Nat
      BY <1>8, <1>9
    <3> QED BY <2>2, <3>1
  <2> QED BY <2>1, <2>2, <2>3
<1>13. \A i \in e + 1..Len(x) : x[i] \in NoVMIDs
  <2> TAKE i \in e + 1..Len(x)
  <2>1. PICK j : j = i - e
    OBVIOUS
  <2>2. j \in 1..lz /\ e + j = i
    BY <1>8, <1>9, <1>10, <2>1
  <2> QED BY <1>8, <1>10, <2>2
<1>14. /\ v \in Nat /\ t \in Nat /\ e \in Nat /\ Len(x) \in Nat
       /\ a < v /\ v <= t /\ e <= Len(x)
  <2>1. Len(x) = e + lz
    BY <1>10
  <2>2. lb \in Nat /\ lm \in Nat /\ lg \in Nat /\ lz \in Nat /\ a \in Nat
    BY <1>8
  <2> QED BY <1>9, <2>1, <2>2
<1>15. LineRead(x, h, g, S, a, v, t, e)
  BY <1>1, <1>6, <1>7, <1>8, <1>9, <1>10, <1>11, <1>12, <1>13, <1>14, <1>16 DEF LineRead
<1> QED BY <1>1, <1>5, <1>15

(* A command line gives its target at one place.                             *)
LEMMA OthersAreSilent ==
  ASSUME NEW x, NEW h, NEW g, NEW S, NEW a, NEW v, NEW t, NEW e, HeadRead(h),
         LineRead(x, h, g, S, a, v, t, e)
  PROVE  \A i \in 1..Len(x) : x[i] \in Silent \/ i \in t + 1..e
<1> TAKE i \in 1..Len(x)
<1>1. /\ a = Len(h) /\ a \in Nat /\ v \in Nat /\ t \in Nat /\ e \in Nat
      /\ a < v /\ v <= t /\ t <= e /\ e <= Len(x) /\ Len(x) \in Nat
  BY DEF LineRead, HeadRead
<1>2. Word("100") \in Silent
  BY WordIs DEF Words, Numbers
<1>3. NoVMIDs \subseteq Silent
  BY DEF NoVMIDs
<1>4. \A j \in 1..a : h[j] \in Silent
  BY <1>1, ElementOfSeq DEF HeadRead
<1>5. i \in 1..a \/ i \in a + 1..v - 1 \/ i = v \/ i \in v + 1..t \/ i \in t + 1..e \/ i \in e + 1..Len(x)
  BY <1>1
<1> QED BY <1>2, <1>3, <1>4, <1>5, Zenon DEF LineRead

(* What the arguments behind the head are.                                   *)
LEMMA AfterHead ==
  ASSUME NEW x, NEW h, NEW g, NEW S, NEW a, NEW v, NEW t, NEW e, LineRead(x, h, g, S, a, v, t, e)
  PROVE  LET y == From(x, a + 1)
         IN  /\ y \in Seq(Arguments) /\ Len(y) = Len(x) - a /\ DOMAIN y = 1..Len(x) - a
             /\ \A i \in 1..Len(x) - a : y[i] = x[a + i]
<1>1. /\ x \in Seq(Arguments) /\ Len(x) \in Nat /\ a \in Nat /\ a < Len(x)
  BY DEF LineRead
<1>2. PICK i : i = a + 1
  OBVIOUS
<1>3. /\ From(x, i) \in Seq(Arguments) /\ Len(From(x, i)) = Len(x) - i + 1
      /\ DOMAIN From(x, i) = 1..Len(x) - i + 1
      /\ \A j \in 1..Len(x) - i + 1 : From(x, i)[j] = x[i + j - 1]
  <2>1. i \in 1..Len(x) + 1
    BY <1>1, <1>2
  <2> QED BY <1>1, <2>1, FromElements
<1>4. Len(x) - i + 1 = Len(x) - a /\ \A j \in 1..Len(x) - a : i + j - 1 = a + j
  BY <1>1, <1>2
<1>5. PICK y : y = From(x, i)
  OBVIOUS
<1>6. /\ y \in Seq(Arguments) /\ Len(y) = Len(x) - a /\ DOMAIN y = 1..Len(x) - a
      /\ \A j \in 1..Len(x) - a : y[j] = x[a + j]
  BY <1>3, <1>4, <1>5
<1> QED BY <1>2, <1>5, <1>6

(* An argument that gives no target is no option that does.                  *)
LEMMA SilentGivesNone ==
  ASSUME NEW x, NEW i, x[i] \in Silent PROVE ~IsTargetPair(x, i) /\ ~IsTargetFlag(x, i)
BY WordFacts DEF Silent, IsTargetPair, IsTargetFlag

(* A line that gives the target by an option, on its own or with the target  *)
(* behind it, and nothing else that gives one: the option is found.          *)
LEMMA OptionIsFound ==
  ASSUME NEW n \in Nodes, NEW x \in Seq(Arguments), NEW g, NEW t \in Nat, NEW e \in Nat,
         g = <<Word("--target"), Word(n)>> \/ g = <<Pair("target", n)>>,
         e = t + Len(g), e <= Len(x), \A i \in 1..Len(g) : x[t + i] = g[i],
         \A i \in 1..Len(x) : x[i] \in Silent \/ i \in t + 1..e
  PROVE  TargetOption(x) = n
<1>1. /\ x \in Seq(Arguments) /\ t \in Nat /\ e \in Nat /\ e = t + Len(g) /\ e <= Len(x)
      /\ Len(x) \in Nat /\ \A i \in 1..Len(g) : x[t + i] = g[i]
  OBVIOUS
<1>2. n \in Names /\ n # "--target" /\ LooksLikeNode(n) /\ n \in Words
  BY ParsersAssumption, TargetAssumption DEF Keywords, LooksLikeNode, Words
<1>3. DOMAIN x = 1..Len(x)
  BY <1>1
<1>4. \A i \in 1..Len(x) : i \in t + 1..e \/ (~IsTargetPair(x, i) /\ ~IsTargetFlag(x, i))
  BY SilentGivesNone
<1>5. PICK k : k = t + 1
  OBVIOUS
<1>6. CASE g = <<Pair("target", n)>>
  <2>1. PICK p : p = Pair("target", n)
    OBVIOUS
  <2>2. p.key = "target" /\ p.word = n
    BY <2>1 DEF Pair
  <2>3. e = k /\ x[k] = p
    BY <1>1, <1>5, <1>6, <2>1
  <2>4. IsTargetPair(x, k)
    BY <1>2, <2>2, <2>3 DEF IsTargetPair
  <2>5. {i \in DOMAIN x : IsTargetPair(x, i) \/ IsTargetFlag(x, i)} = {k}
    BY <1>1, <1>3, <1>4, <1>5, <2>3, <2>4
  <2>6. TargetOption(x) = x[k].word
    <3>1. k \in Int
      BY <1>1, <1>5
    <3> QED BY <2>4, <2>5, <3>1, OneOption
  <2> QED BY <2>2, <2>3, <2>6
<1>7. CASE g = <<Word("--target"), Word(n)>>
  <2>1. PICK p, q : p = Word("--target") /\ q = Word(n)
    OBVIOUS
  <2>2. p.key = None /\ q.key = None /\ q.word = n /\ ~IsPair(q)
    BY <2>1, WordFacts
  <2>3. e = k + 1 /\ x[k] = p /\ x[k + 1] = q
    <3>1. g = <<p, q>>
      BY <1>7, <2>1
    <3>2. Len(g) = 2 /\ g[1] = p /\ g[2] = q
      BY <3>1
    <3>3. x[t + 1] = p /\ x[t + 2] = q
      BY <1>1, <3>2
    <3>4. k + 1 = t + 2
      BY <1>1, <1>5
    <3> QED BY <1>1, <1>5, <3>2, <3>3, <3>4
  <2>4. ~IsTargetPair(x, k) /\ ~IsTargetPair(x, k + 1)
    BY <2>2, <2>3 DEF IsTargetPair, None
  <2>5. ~IsTargetFlag(x, k + 1)
    <3>1. q # Word("--target")
      BY <1>2, <2>2, WordFacts
    <3> QED BY <2>3, <3>1 DEF IsTargetFlag
  <2>6. IsTargetFlag(x, k)
    <3>1. k < Len(x)
      BY <1>1, <1>5, <2>3
    <3> QED BY <1>2, <2>1, <2>2, <2>3, <3>1 DEF IsTargetFlag
  <2>7. {i \in DOMAIN x : IsTargetPair(x, i) \/ IsTargetFlag(x, i)} = {k}
    <3>1. \A i \in t + 1..e : i = k \/ i = k + 1
      BY <1>1, <1>5, <2>3
    <3>2. k \in DOMAIN x
      BY <1>1, <1>3, <1>5, <2>3
    <3> QED BY <1>3, <1>4, <2>4, <2>5, <2>6, <3>1, <3>2
  <2>8. TargetOption(x) = x[k + 1].word
    <3>1. k \in Int
      BY <1>1, <1>5
    <3> QED BY <2>4, <2>7, <3>1, OneOption
  <2> QED BY <2>2, <2>3, <2>8
<1> QED BY <1>6, <1>7

(* In one that does not, none is.                                            *)
LEMMA NoOptionIsFound ==
  ASSUME NEW x \in Seq(Silent) PROVE TargetOption(x) = None
<1>1. \A i \in DOMAIN x : x[i] \in Silent
  BY ElementOfSeq, LenProperties
<1> HIDE DEF Silent
<1> QED BY <1>1, SilentGivesNone, NoOption

(* A node that stands on its own is no option.                               *)
LEMMA NodeIsSilent ==
  ASSUME NEW n \in Nodes PROVE /\ Word(n) \in Silent /\ n # None /\ ~IsPair(Word(n))
                               /\ Word(n).word = n /\ ~IsOption(Word(n)) /\ LooksLikeNode(n)
<1>1. n \in Names /\ n \in Words /\ n # "--target" /\ n \notin Flags /\ n # None
  BY ParsersAssumption, TargetAssumption DEF Words, Keywords
<1> QED BY <1>1, WordIs, WordFacts DEF IsOption, LooksLikeNode

\* What is taken for the target where it stands on its own behind the names S.
Taken(n, S) == IF S = {} THEN {n} ELSE S

(* Where the target stands on its own, the first name after the VMID is      *)
(* taken for it.                                                             *)
LEMMA NameIsFound ==
  ASSUME NEW n \in Nodes, NEW x, NEW h, NEW S, NEW a, NEW v, NEW t, NEW e, HeadRead(h),
         LineRead(x, h, <<Word(n)>>, S, a, v, t, e)
  PROVE  TargetAfterMigrate(From(x, a + 1)) \in Taken(n, S)
<1>1. /\ x \in Seq(Arguments) /\ a \in Nat /\ v \in Nat /\ t \in Nat /\ e \in Nat /\ a < v /\ v <= t
      /\ e <= Len(x) /\ Len(x) \in Nat
  BY DEF LineRead
<1>2. e = t + 1 /\ x[e] = Word(n)
  <2>1. PICK p, g : p = Word(n) /\ g = <<p>>
    OBVIOUS
  <2>2. Len(g) = 1 /\ g[1] = p
    BY <2>1
  <2>3. e = t + Len(g) /\ \A i \in 1..Len(g) : x[t + i] = g[i]
    BY <2>1 DEF LineRead
  <2> QED BY <1>1, <2>1, <2>2, <2>3
<1>3. \A i \in 1..Len(x) : x[i] \in Silent
  BY <1>1, <1>2, OthersAreSilent, NodeIsSilent
<1>4. PICK y : y = From(x, a + 1)
  OBVIOUS
<1>5. /\ y \in Seq(Arguments) /\ Len(y) = Len(x) - a /\ DOMAIN y = 1..Len(x) - a
      /\ \A i \in 1..Len(x) - a : y[i] = x[a + i]
  BY <1>4, AfterHead
<1>6. TargetOption(y) = None
  <2>1. \A i \in DOMAIN y : y[i] \in Silent
    BY <1>1, <1>3, <1>5, SMTT(30)
  <2> HIDE DEF Silent
  <2> QED BY <2>1, SilentGivesNone, NoOption
<1> DEFINE Found == {i \in DOMAIN y : /\ ~IsPair(y[i]) /\ ~IsOption(y[i])
                                      /\ LooksLikeNode(y[i].word)
                                      /\ \E j \in 1..(i - 1) : IsVMID(y[j])}
           Bare  == {i \in v + 1..e : IsBareName(x[i])}
<1>7. PICK f \in Bare : \A i \in Bare : f <= i
  <2>1. e \in Bare
    BY <1>1, <1>2, NodeIsSilent, ParsersAssumption DEF IsBareName
  <2>2. Bare \subseteq Nat
    BY <1>1
  <2>3. PICK m \in Bare : \A i \in Bare : m <= i
    <3> HIDE DEF Bare
    <3>1. Bare # {} /\ Bare \in SUBSET Nat
      BY <2>1, <2>2
    <3>2. PICK m \in Bare : \A i \in Bare : <<i, m>> \notin OpToRel(<, Nat)
      BY <3>1, WFMin, NatLessThanWellFounded, Zenon
    <3>3. \A i \in Bare : ~(i < m)
      BY <2>2, <3>2, Zenon DEF OpToRel
    <3> QED BY <2>2, <3>3
  <2> QED BY <2>3
<1>8. PICK k : k = f - a
  OBVIOUS
<1>9. f \in v + 1..e /\ IsBareName(x[f])
  BY <1>7
<1>10. k \in DOMAIN y /\ y[k] = x[f] /\ k \in Int
  <2>1. k \in 1..Len(x) - a /\ a + k = f
    BY <1>1, <1>8, <1>9
  <2> QED BY <1>5, <2>1
<1>11. k \in Found
  <2>1. v - a \in 1..k - 1 /\ v - a \in 1..Len(x) - a /\ a + (v - a) = v
    BY <1>1, <1>8, <1>9
  <2>2. y[v - a] = Word("100")
    BY <1>5, <2>1 DEF LineRead
  <2>3. IsVMID(y[v - a])
    BY <2>2, WordFacts DEF IsVMID, Numbers
  <2>4. /\ ~IsPair(x[f]) /\ ~IsOption(x[f]) /\ LooksLikeNode(x[f].word)
    BY <1>9, TargetAssumption DEF IsBareName, IsOption, LooksLikeNode, Keywords
  <2> QED BY <1>10, <2>1, <2>3, <2>4
<1>12. \A i \in Found : k <= i
  <2> SUFFICES ASSUME NEW i \in Found, ~(k <= i) PROVE FALSE
    OBVIOUS
  <2>0. PICK j \in 1..(i - 1) : IsVMID(y[j])
    OBVIOUS
  <2>1. PICK p, q : p = a + i /\ q = a + j
    OBVIOUS
  <2>2. /\ p \in a + 1..t /\ q \in a + 1..t /\ q < p /\ p < f /\ y[i] = x[p] /\ y[j] = x[q]
    <3>1. i \in 1..Len(x) - a /\ i < k
      BY <1>1, <1>5, <1>10
    <3>2. j \in 1..Len(x) - a /\ j < i
      BY <1>1, <3>1
    <3>3. y[i] = x[p] /\ y[j] = x[q]
      BY <1>5, <2>1, <3>1, <3>2
    <3>4. f <= t + 1 /\ f \in Nat
      BY <1>1, <1>2, <1>9
    <3> QED BY <1>1, <1>8, <2>1, <3>1, <3>2, <3>3, <3>4, SMTT(30)
  <2>3. \A r \in a + 1..v - 1 : x[r] \in NoVMIDs
    BY DEF LineRead
  <2>4. \A r \in v + 1..t : x[r] \in Passed \/ IsBareName(x[r])
    BY DEF LineRead
  <2>5. q \notin a + 1..v - 1
    BY <2>0, <2>2, <2>3 DEF NoVMIDs
  <2>6. p \in v + 1..t
    BY <1>1, <2>2, <2>5
  <2>7. IsBareName(x[p])
    BY <2>2, <2>4, <2>6 DEF Passed
  <2>8. p \in Bare
    BY <1>1, <1>2, <2>6, <2>7
  <2>9. f <= p
    <3> HIDE DEF Bare
    <3> QED BY <1>7, <2>8
  <2> QED BY <1>1, <1>9, <2>2, <2>9
<1>13. (CHOOSE i \in Found : \A j \in Found : i <= j) = k
  <2>1. Found \subseteq Int
    BY <1>1, <1>5
  <2> HIDE DEF Found
  <2> QED BY <1>11, <1>12, <2>1, FirstIndex
<1>14. TargetAfterMigrate(y) = x[f].word
  BY <1>6, <1>10, <1>11, <1>13 DEF TargetAfterMigrate, FirstOf
<1>15. x[f].word \in Taken(n, S)
  <2>1. CASE f = e
    <3>1. S = {}
      <4> SUFFICES ASSUME S # {} PROVE FALSE
        OBVIOUS
      <4>1. PICK i \in v + 1..t : IsBareName(x[i])
        BY DEF LineRead
      <4>2. i \in Bare /\ i < e
        BY <1>1, <1>2, <4>1
      <4>3. f <= i
        <5> HIDE DEF Bare
        <5> QED BY <1>7, <4>2
      <4> QED BY <1>1, <2>1, <4>1, <4>2, <4>3
    <3> QED BY <1>2, <2>1, <3>1, NodeIsSilent DEF Taken
  <2>2. CASE f # e
    <3>1. f \in v + 1..t
      BY <1>1, <1>2, <1>9, <2>2
    <3>2. x[f] \in Passed \/ x[f].word \in S
      BY <3>1 DEF LineRead
    <3>3. x[f] \notin Passed
      BY <1>9, TargetAssumption DEF Passed, IsBareName, IsOption, Keywords
    <3> QED BY <3>2, <3>3 DEF Taken
  <2> QED BY <2>1, <2>2
<1> QED BY <1>4, <1>14, <1>15

(* The arguments of a command begin at the end of its head, if they begin    *)
(* anywhere.                                                                 *)
LEMMA HeadEnds ==
  ASSUME NEW x, NEW h, NEW g, NEW S, NEW a, NEW v, NEW t, NEW e, HeadRead(h),
         LineRead(x, h, g, S, a, v, t, e)
  PROVE  /\ a + 1 \in AfterProgram(x) /\ AfterProgram(x) \subseteq Int
         /\ \A i \in AfterProgram(x) : a + 1 <= i
<1>1. /\ a \in 1..3 /\ Len(x) \in Nat /\ a < Len(x)
      /\ \A i \in 1..a : x[i] = h[i]
      /\ \A i \in 1..a - 1 : h[i] # Word("migrate") /\ h[i] \notin {Word(w) : w \in Workers}
      /\ \/ h[a] \in {Word(w) : w \in Workers}
         \/ /\ a > 1 /\ h[a] = Word("migrate") /\ h[a - 1] \in {Word(q) : q \in Programs}
  BY DEF LineRead, HeadRead
<1>2. PICK i : i = a + 1
  OBVIOUS
<1>3. i \in AfterProgram(x)
  <2>1. i \in 2..(Len(x) + 1) /\ i - 1 = a /\ i - 2 = a - 1 /\ (a > 1 => i > 2)
    BY <1>1, <1>2
  <2>2. x[a] = h[a] /\ (a > 1 => x[a - 1] = h[a - 1])
    BY <1>1
  <2>3. \/ x[i - 1] \in {Word(w) : w \in Workers}
        \/ /\ i > 2 /\ x[i - 2] \in {Word(w) : w \in Programs}
           /\ x[i - 1] = Word("migrate")
    BY <1>1, <2>1, <2>2
  <2> QED BY <2>1, <2>3 DEF AfterProgram
<1>4. \A j \in AfterProgram(x) : i <= j
  <2> SUFFICES ASSUME NEW j \in AfterProgram(x), j < i PROVE FALSE
    BY <1>1, <1>2 DEF AfterProgram
  <2>1. j - 1 \in 1..a - 1
    BY <1>1, <1>2 DEF AfterProgram
  <2>2. x[j - 1] \notin {Word(w) : w \in Workers} /\ x[j - 1] # Word("migrate")
    BY <1>1, <2>1
  <2> QED BY <2>2 DEF AfterProgram
<1> QED BY <1>2, <1>3, <1>4 DEF AfterProgram

(* An option of a migration gives its target.                                *)
LEMMA OptionReadsBack ==
  ASSUME NEW n \in Nodes, NEW x, NEW h, NEW g, NEW S, NEW a, NEW v, NEW t, NEW e, HeadRead(h),
         g = <<Word("--target"), Word(n)>> \/ g = <<Pair("target", n)>>,
         LineRead(x, h, g, S, a, v, t, e)
  PROVE  ParseMigrateTarget(x) = n
<1>1. /\ x \in Seq(Arguments) /\ t \in Nat /\ e \in Nat /\ e = t + Len(g) /\ e <= Len(x)
      /\ \A i \in 1..Len(g) : x[t + i] = g[i]
  BY DEF LineRead
<1>2. TargetOption(x) = n
  BY <1>1, OthersAreSilent, OptionIsFound
<1> QED BY <1>2, NodeIsSilent DEF ParseMigrateTarget

(* Without one, the target or a value before it is taken.                    *)
LEMMA NameReadsBack ==
  ASSUME NEW n \in Nodes, NEW x, NEW h, NEW S \in SUBSET Names, NEW a, NEW v, NEW t, NEW e,
         HeadRead(h), LineRead(x, h, <<Word(n)>>, S, a, v, t, e)
  PROVE  ParseMigrateTarget(x) \in Taken(n, S)
<1>1. None \notin Taken(n, S)
  BY NodeIsSilent, TargetAssumption DEF Taken
<1>2. \A i \in 1..Len(x) : x[i] \in Silent
  <2>1. e = t + 1 /\ x[e] = Word(n) /\ t \in Nat
    <3>1. PICK p, g : p = Word(n) /\ g = <<p>>
      OBVIOUS
    <3>2. Len(g) = 1 /\ g[1] = p
      BY <3>1
    <3>3. e = t + Len(g) /\ t \in Nat /\ \A i \in 1..Len(g) : x[t + i] = g[i]
      BY <3>1 DEF LineRead
    <3> QED BY <3>1, <3>2, <3>3
  <2> QED BY <2>1, OthersAreSilent, NodeIsSilent
<1>3. TargetOption(x) = None
  <2>1. DOMAIN x = 1..Len(x)
    BY DEF LineRead
  <2> HIDE DEF Silent
  <2> QED BY <1>2, <2>1, SilentGivesNone, NoOption
<1>4. TargetFrom(x, AfterProgram(x)) \in Taken(n, S)
  <2>1. PICK k : k = a + 1
    OBVIOUS
  <2>2. /\ AfterProgram(x) \subseteq Int /\ k \in AfterProgram(x)
        /\ \A j \in AfterProgram(x) : k <= j
    BY <2>1, HeadEnds
  <2>3. TargetAfterMigrate(From(x, k)) \in Taken(n, S)
    BY <2>1, NameIsFound
  <2>4. TargetAfterMigrate(From(x, k)) # None
    BY <1>1, <2>3, Zenon
  <2>5. TargetFrom(x, AfterProgram(x)) = TargetAfterMigrate(From(x, k))
    BY <2>2, <2>4, FirstTargetFrom
  <2> QED BY <2>3, <2>5, Zenon
<1>5. ParseMigrateTarget(x) = TargetFrom(x, AfterProgram(x))
  BY <1>1, <1>3, <1>4, Zenon DEF ParseMigrateTarget
<1> QED BY <1>4, <1>5, Zenon

(* What gives a target is made of arguments.                                 *)
LEMMA TargetIsArguments ==
  ASSUME NEW n \in Nodes,
         NEW g \in {<<Word("--target"), Word(n)>>, <<Pair("target", n)>>, <<Word(n)>>}
  PROVE  g \in Seq(Arguments)
<1>1. PICK p, q, r : p = Word("--target") /\ q = Word(n) /\ r = Pair("target", n)
  OBVIOUS
<1>2. p \in Arguments /\ q \in Arguments /\ r \in Arguments
  <2>1. n \in Words
    BY ParsersAssumption DEF Words
  <2> QED BY <1>1, <2>1 DEF Word, Pair, Arguments, Words, Keywords, Keys
<1>3. g = <<p, q>> \/ g = <<r>> \/ g = <<q>>
  BY <1>1
<1>4. <<p, q>> \in Seq(Arguments) /\ <<r>> \in Seq(Arguments) /\ <<q>> \in Seq(Arguments)
  BY <1>2
<1> QED BY <1>3, <1>4, Zenon

(* That holds for the command line of every migration.                       *)
LEMMA MigrationsRead ==
  ASSUME NEW c \in Migrations
  PROVE  ParseMigrateTarget(Line(c)) \in
           IF c.as = "positional" /\ ValuesBetween(c) # {} THEN ValuesBetween(c) ELSE {c.target}
<1>1. PICK h, b, m, g, z, n :
        /\ h = c.head /\ b = c.before /\ m = c.between /\ g = TargetArgs(c) /\ z = c.after
        /\ n = c.target
  OBVIOUS
<1>2. h \in Heads /\ n \in Nodes
  BY <1>1 DEF Migrations
<1>3. HeadRead(h)
  BY <1>2, HeadsRead
<1>4. b \in Seq(NoVMIDs) /\ z \in Seq(NoVMIDs) /\ m \in Seq(Apart)
  <2>1. /\ b \in Joined(Options, MaxEarly) /\ z \in Joined(Options, MaxOptions)
        /\ m \in Joined(Options, MaxEarly)
    BY <1>1 DEF Migrations
  <2> QED BY <2>1, OptionsRead, JoinedElements
<1>5. /\ c.as = "positional" => g = <<Word(n)>>
      /\ c.as # "positional" => g = <<Word("--target"), Word(n)>> \/ g = <<Pair("target", n)>>
  BY <1>1 DEF Migrations, TargetArgs
<1>6. g \in Seq(Arguments)
  <2>1. g \in {<<Word("--target"), Word(n)>>, <<Pair("target", n)>>, <<Word(n)>>}
    BY <1>5, Zenon
  <2> QED BY <1>2, <2>1, TargetIsArguments
<1>7. PICK x : x = h \o b \o <<Word("100")>> \o m \o g \o z
  OBVIOUS
<1>8. PICK S : S = ValuesBetween(c)
  OBVIOUS
<1>9. S = {m[i].word : i \in {j \in DOMAIN m : IsBareName(m[j])}} /\ S \subseteq Names
  BY <1>1, <1>8 DEF ValuesBetween, IsBareName
<1>10. PICK a, v, t, e : LineRead(x, h, g, S, a, v, t, e)
  <2>1. h \in Seq(Silent)
    BY <1>3 DEF HeadRead
  <2> QED BY <1>4, <1>6, <1>7, <1>9, <2>1, SixRead
<1>11. x = Line(c)
  BY <1>1, <1>7 DEF Line
<1>12. c.as # "positional" => ParseMigrateTarget(x) = n
  BY <1>2, <1>3, <1>5, <1>10, OptionReadsBack
<1>13. c.as = "positional" => ParseMigrateTarget(x) \in Taken(n, S)
  BY <1>2, <1>3, <1>5, <1>9, <1>10, NameReadsBack
<1> QED BY <1>1, <1>8, <1>11, <1>12, <1>13 DEF Taken

(* What the commands that migrate nothing are made of.                       *)
LEMMA CommandParts ==
  ASSUME NEW c \in NoMigrations, NEW Quiet,
         Quiet = {y \in Silent : y # Word("migrate") /\ y \notin {Word(w) : w \in Workers}}
  PROVE  c.head \in Seq(Quiet) /\ c.after \in Seq(Quiet)
<1>1. PICK h, z : h = c.head /\ z = c.after
  OBVIOUS
<1>2. \A w, y : Word(w) = Word(y) => w = y
  BY WordFacts
<1>3. \A w \in Words \ (Workers \cup {"migrate", "--target"}) : Word(w) \in Quiet
  BY <1>2, WordIs
<1>4. \/ h \in {<<Word(o)>> : o \in Other} /\ z = <<>>
      \/ /\ h \in {<<Word(q), Word(n), Word("100")>> : q \in Programs, n \in Names}
         /\ z \in Joined(Options, MaxOptions)
  BY <1>1 DEF NoMigrations
<1>5. CASE h \in {<<Word(o)>> : o \in Other} /\ z = <<>>
  <2>1. PICK o \in Other : h = <<Word(o)>>
    BY <1>5
  <2>2. PICK p : p = Word(o)
    OBVIOUS
  <2>3. o \in Words \ (Workers \cup {"migrate", "--target"})
    BY TargetAssumption DEF Words, Keywords
  <2>4. p \in Quiet
    BY <1>3, <2>2, <2>3
  <2> QED BY <1>1, <1>5, <2>1, <2>2, <2>4
<1>6. CASE /\ h \in {<<Word(q), Word(n), Word("100")>> : q \in Programs, n \in Names}
           /\ z \in Joined(Options, MaxOptions)
  <2>1. PICK q \in Programs, n \in Names : h = <<Word(q), Word(n), Word("100")>>
    BY <1>6
  <2>2. PICK p1, p2, p3 : p1 = Word(q) /\ p2 = Word(n) /\ p3 = Word("100")
    OBVIOUS
  <2>3. /\ q \in Words \ (Workers \cup {"migrate", "--target"})
        /\ n \in Words \ (Workers \cup {"migrate", "--target"})
        /\ "100" \in Words \ (Workers \cup {"migrate", "--target"})
    BY TargetAssumption DEF Words, Keywords, Programs, Workers, Numbers
  <2>4. p1 \in Quiet /\ p2 \in Quiet /\ p3 \in Quiet
    BY <1>3, <2>2, <2>3
  <2>5. h \in Seq(Quiet)
    BY <2>1, <2>2, <2>4
  <2>6. z \in Seq(Quiet)
    <3>1. \A w \in Flags \cup Names : w \in Words \ (Workers \cup {"migrate", "--target"})
      BY TargetAssumption DEF Words, Keywords
    <3>2. \A w \in Flags \cup Names : Word(w) \in Quiet
      BY <1>3, <3>1
    <3>3. \A w \in Names : Pair("storage", w) \in Quiet
      <4> SUFFICES ASSUME NEW w \in Names PROVE Pair("storage", w) \in Quiet
        OBVIOUS
      <4>1. Pair("storage", w) \in Silent
        BY <3>1 DEF Pair, Silent, Arguments, Keys
      <4>2. Pair("storage", w).key # None /\ \A y : Word(y).key = None
        BY WordFacts DEF Pair, None
      <4> QED BY <4>1, <4>2
    <3>4. \A y1 \in Quiet, y2 \in Quiet : <<y1>> \in Seq(Quiet) /\ <<y1, y2>> \in Seq(Quiet)
      OBVIOUS
    <3>5. FlagOptions \subseteq Seq(Quiet)
      BY <3>2, <3>3, <3>4 DEF FlagOptions
    <3>6. ValuedOptions \subseteq Seq(Quiet)
      <4> SUFFICES ASSUME NEW o \in ValuedOptions PROVE o \in Seq(Quiet)
        OBVIOUS
      <4>1. PICK f \in Flags, w \in Names : o = <<Word(f), Word(w)>>
        BY DEF ValuedOptions
      <4>2. PICK y1, y2 : y1 = Word(f) /\ y2 = Word(w)
        OBVIOUS
      <4>3. y1 \in Quiet /\ y2 \in Quiet
        BY <3>2, <4>2
      <4> QED BY <3>4, <4>1, <4>2, <4>3
    <3>7. Joined(Options, MaxOptions) \subseteq Seq(Quiet)
      BY <3>5, <3>6, JoinedElements DEF Options
    <3> QED BY <1>6, <3>7
  <2> QED BY <1>1, <2>5, <2>6
<1> QED BY <1>4, <1>5, <1>6

(* A command that is no migration gives the target of its own options, or    *)
(* there is nowhere to look for one.                                         *)
LEMMA CommandsRead ==
  ASSUME NEW c \in NoMigrations
  PROVE  ParseMigrateTarget(CommandLine(c)) = IF c.as = "none" THEN None ELSE c.target
<1>1. PICK h, g, z, n, x :
        h = c.head /\ g = TargetArgs(c) /\ z = c.after /\ n = c.target /\ x = CommandLine(c)
  OBVIOUS
<1>2. PICK Quiet :
        Quiet = {y \in Silent : y # Word("migrate") /\ y \notin {Word(w) : w \in Workers}}
  OBVIOUS
<1>3. Quiet \subseteq Silent /\ Silent \subseteq Arguments
  BY <1>2 DEF Silent
<1>4. h \in Seq(Quiet) /\ z \in Seq(Quiet)
  BY <1>1, <1>2, CommandParts
<1>5. x = (h \o g) \o z
  BY <1>1 DEF CommandLine
<1>6. n \in Nodes /\ c.as \in {"none", "flag", "pair"}
  BY <1>1 DEF NoMigrations
<1>7. CASE c.as = "none"
  <2>1. g = <<>>
    BY <1>1, <1>7 DEF TargetArgs
  <2>2. x \in Seq(Quiet)
    <3>1. <<>> \in Seq(Quiet)
      OBVIOUS
    <3> QED BY <1>4, <1>5, <2>1, <3>1, ConcatProperties
  <2>3. \A i \in 1..Len(x) : x[i] \in Quiet
    BY <2>2, ElementOfSeq
  <2>4. x \in Seq(Silent) /\ Len(x) \in Nat
    BY <1>3, <2>2, SeqMonotonic, LenProperties
  <2>5. AfterProgram(x) = {} /\ AfterWord(x) = {}
    <3>1. \A i \in 2..Len(x) + 1 : i - 1 \in 1..Len(x)
      BY <2>4
    <3>2. \A i \in 2..Len(x) + 1 : x[i - 1] # Word("migrate") /\ x[i - 1] \notin {Word(w) : w \in Workers}
      BY <1>2, <2>3, <3>1
    <3> QED BY <3>2, Zenon DEF AfterProgram, AfterWord
  <2>6. TargetOption(x) = None
    BY <2>4, NoOptionIsFound
  <2> QED BY <1>1, <1>7, <2>5, <2>6, NoTargetFrom DEF ParseMigrateTarget
<1>8. CASE c.as # "none"
  <2>1. g = <<Word("--target"), Word(n)>> \/ g = <<Pair("target", n)>>
    BY <1>1, <1>6, <1>8 DEF TargetArgs
  <2>2. g \in Seq(Arguments)
    BY <1>6, <2>1, TargetIsArguments
  <2>3. h \in Seq(Arguments) /\ z \in Seq(Arguments)
    BY <1>3, <1>4, SeqMonotonic
  <2>4. PICK y : y = h \o g
    OBVIOUS
  <2>5. y \in Seq(Arguments) /\ TwoParts(y, h, g) /\ Len(h) \in Nat /\ Len(g) \in Nat
    BY <2>2, <2>3, <2>4, ConcatParts
  <2>6. x \in Seq(Arguments) /\ TwoParts(x, y, z) /\ Len(z) \in Nat /\ Len(y) \in Nat
    BY <1>5, <2>3, <2>4, <2>5, ConcatParts
  <2>7. PICK t, e : t = Len(h) /\ e = Len(y)
    OBVIOUS
  <2>8. /\ t \in Nat /\ e \in Nat /\ e = t + Len(g) /\ e <= Len(x) /\ Len(x) = e + Len(z)
        /\ \A i \in 1..Len(g) : x[t + i] = g[i]
        /\ \A i \in 1..t : x[i] = h[i]
        /\ \A i \in 1..Len(z) : x[e + i] = z[i]
    BY <2>5, <2>6, <2>7 DEF TwoParts
  <2>9. \A i \in 1..Len(x) : x[i] \in Silent \/ i \in t + 1..e
    <3>1. (\A i \in 1..t : h[i] \in Silent) /\ (\A i \in 1..Len(z) : z[i] \in Silent)
      BY <1>3, <1>4, <2>7, ElementOfSeq
    <3> TAKE i \in 1..Len(x)
    <3>2. i \in 1..t \/ i \in t + 1..e \/ (i - e \in 1..Len(z) /\ e + (i - e) = i)
      BY <2>6, <2>8
    <3> QED BY <2>8, <3>1, <3>2
  <2>10. TargetOption(x) = n
    BY <1>6, <2>1, <2>6, <2>8, <2>9, OptionIsFound
  <2> QED BY <1>1, <1>6, <1>8, <2>10, NodeIsSilent DEF ParseMigrateTarget
<1> QED BY <1>7, <1>8
-----------------------------------------------------------------------------
(* Task logs: names and matches                                              *)

(* The first name is that of the first place that has one.                   *)
LEMMA FirstNameIs ==
  ASSUME NEW names, Len(names) \in Nat, NEW k \in 1..Len(names), IsName(names[k]),
         \A i \in 1..k - 1 : ~IsName(names[i])
  PROVE  FirstName(names) = names[k]
<1> DEFINE I == {i \in 1..Len(names) : IsName(names[i])}
<1>1. k \in I /\ \A i \in I : k <= i
  OBVIOUS
<1>2. (CHOOSE x \in I : \A y \in I : x <= y) = k
  <2>1. \A x \in I : (\A y \in I : x <= y) => x = k
    BY <1>1
  <2> QED BY <1>1, <2>1
<1>3. SelectInSeq(names, IsName) = k
  BY <1>1, <1>2 DEF SelectInSeq, Min
<1> QED BY <1>3 DEF FirstName

(* Without a place that has one there is none.                               *)
LEMMA NoFirstName ==
  ASSUME NEW names, \A i \in 1..Len(names) : ~IsName(names[i])
  PROVE  FirstName(names) = NoTarget
<1>1. SelectInSeq(names, IsName) = 0
  BY DEF SelectInSeq
<1> QED BY <1>1 DEF FirstName

(* White space ends at the first place that is none.                         *)
LEMMA SkipSpacesIs ==
  ASSUME NEW A, NEW log \in Seq(A), NEW i \in Nat, NEW j \in i..Len(log) + 1,
         At(log, j) # Blank, \A k \in i..j - 1 : log[k] = Blank
  PROVE  SkipSpaces(log, i) = j
<1>1. ASSUME NEW m \in i..Len(log) + 1, At(log, m) # Blank, \A k \in i..m - 1 : log[k] = Blank
      PROVE  m = j
  <2>0. PICK n : n = Len(log)
    OBVIOUS
  <2>4. n \in Nat /\ m \in Nat /\ j \in Nat /\ i <= m /\ i <= j /\ m <= n + 1 /\ j <= n + 1
    BY <1>1, <2>0
  <2>1. CASE m < j
    <3>1. m \in i..j - 1 /\ ~(m > Len(log))
      BY <2>0, <2>1, <2>4
    <3> QED BY <1>1, <3>1 DEF At
  <2>2. CASE j < m
    <3>1. j \in i..m - 1 /\ ~(j > Len(log))
      BY <2>0, <2>2, <2>4
    <3> QED BY <1>1, <3>1 DEF At
  <2> QED BY <2>1, <2>2, <2>4
<1> QED BY <1>1 DEF SkipSpaces

(* The name that is a single piece, at b.                                    *)
LEMMA NameAtIs ==
  ASSUME NEW A, NEW log \in Seq(A), NEW i \in Nat, NEW b \in 1..Len(log),
         b = IF At(log, i) = "'" THEN i + 1 ELSE i,
         log[b] \in NameLike, At(log, b + 1) \notin NameLike
  PROVE  NameAt(log, i) = <<log[b]>>
<1> DEFINE Ends(m) == /\ At(log, m) \notin NameLike
                      /\ \A k \in b..m - 1 : log[k] \in NameLike
<1>1. Len(log) \in Nat /\ b \in Nat /\ b + 1 \in b..Len(log) + 1 /\ ~(b > Len(log))
  OBVIOUS
<1>2. Ends(b + 1)
  <2>1. \A k \in b..(b + 1) - 1 : k = b
    OBVIOUS
  <2> QED BY <2>1
<1>3. ASSUME NEW m \in b..Len(log) + 1, Ends(m) PROVE m = b + 1
  <2>1. m # b
    BY <1>1, <1>3 DEF At
  <2>2. ASSUME m > b + 1 PROVE FALSE
    <3>1. b + 1 \in b..m - 1 /\ ~(b + 1 > Len(log))
      BY <2>2
    <3> QED BY <1>3, <3>1 DEF At
  <2> QED BY <2>1, <2>2
<1>4. (CHOOSE m \in b..Len(log) + 1 : Ends(m)) = b + 1
  <2> HIDE DEF Ends
  <2> QED BY <1>1, <1>2, <1>3
<1>5. NameAt(log, i) = SubSeq(log, b, (b + 1) - 1)
  <2>1. NameAt(log, i) = SubSeq(log, b, (CHOOSE m \in b..Len(log) + 1 : Ends(m)) - 1)
    BY DEF NameAt
  <2> HIDE DEF Ends
  <2> QED BY <1>4, <2>1
<1>6. SubSeq(log, b, b) = <<log[b]>>
  <2>1. PICK s, x : s = SubSeq(log, b, b) /\ x = log[b]
    OBVIOUS
  <2>2. \A k \in b..b : log[k] \in A
    BY <1>1, ElementOfSeq
  <2>3. s \in Seq(A) /\ Len(s) = 1 /\ s[1] = x
    <3>1. /\ SubSeq(log, b, b) \in Seq(A)
          /\ Len(SubSeq(log, b, b)) = (IF b <= b THEN b - b + 1 ELSE 0)
          /\ \A k \in 1..b - b + 1 : SubSeq(log, b, b)[k] = log[b + k - 1]
      BY <1>1, <2>2, SubSeqProperties
    <3>2. b - b + 1 = 1 /\ b + 1 - 1 = b /\ b <= b
      BY <1>1
    <3> QED BY <2>1, <3>1, <3>2
  <2>4. <<x>> \in Seq(A) /\ Len(<<x>>) = 1 /\ <<x>>[1] = x
    <3>1. x \in A
      BY <1>1, <2>1, <2>2
    <3> QED BY <3>1
  <2>5. s = <<x>>
    BY <2>3, <2>4, SeqEqual
  <2> QED BY <2>1, <2>5
<1>7. (b + 1) - 1 = b
  BY <1>1
<1> QED BY <1>5, <1>6, <1>7

(* A place where no alternative matches.                                     *)
LEMMA NoMatch ==
  ASSUME NEW log, NEW i, TargetKeyAt(log, i) = NoTarget, ToNodeAt(log, i) = NoTarget,
         ToAt(log, i) = NoTarget
  PROVE  MatchAt(log, i) = NoTarget
<1>1. PICK a, b, c : a = TargetKeyAt(log, i) /\ b = ToNodeAt(log, i) /\ c = ToAt(log, i)
  OBVIOUS
<1>2. PICK names : names = <<a, b, c>>
  OBVIOUS
<1>3. \A k \in 1..Len(names) : ~IsName(names[k])
  <2>1. Len(names) = 3 /\ names[1] = a /\ names[2] = b /\ names[3] = c
    BY <1>2
  <2>2. \A k \in 1..3 : k = 1 \/ k = 2 \/ k = 3
    OBVIOUS
  <2> QED BY <1>1, <2>1, <2>2 DEF IsName
<1>4. FirstName(names) = NoTarget
  BY <1>3, NoFirstName
<1> QED BY <1>1, <1>2, <1>4 DEF MatchAt

(* What is neither to nor target begins no match.                            *)
LEMMA OtherPiece ==
  ASSUME NEW log, NEW i, log[i] # "to", log[i] # "target"
  PROVE  MatchAt(log, i) = NoTarget
BY NoMatch DEF TargetKeyAt, ToNodeAt, ToAt

(* The first of the alternatives that matches gives the name.                *)
LEMMA MatchIs ==
  ASSUME NEW log, NEW i, NEW name, name # NoTarget,
         \/ TargetKeyAt(log, i) = name
         \/ TargetKeyAt(log, i) = NoTarget /\ ToNodeAt(log, i) = name
         \/ /\ TargetKeyAt(log, i) = NoTarget /\ ToNodeAt(log, i) = NoTarget
            /\ ToAt(log, i) = name
  PROVE  MatchAt(log, i) = name
<1>1. PICK a, b, c : a = TargetKeyAt(log, i) /\ b = ToNodeAt(log, i) /\ c = ToAt(log, i)
  OBVIOUS
<1>2. PICK names : names = <<a, b, c>>
  OBVIOUS
<1>3. Len(names) = 3 /\ names[1] = a /\ names[2] = b /\ names[3] = c
  BY <1>2
<1>4. FirstName(names) = name
  <2>1. PICK k \in 1..3 : names[k] = name /\ \A j \in 1..k - 1 : names[j] = NoTarget
    <3>1. CASE a = name
      <4>1. 1 \in 1..3 /\ names[1] = name /\ \A j \in 1..1 - 1 : names[j] = NoTarget
        BY <1>3, <3>1
      <4> QED BY <4>1
    <3>2. CASE a = NoTarget /\ b = name
      <4>1. \A j \in 1..2 - 1 : j = 1
        OBVIOUS
      <4>2. 2 \in 1..3 /\ names[2] = name /\ \A j \in 1..2 - 1 : names[j] = NoTarget
        BY <1>3, <3>2, <4>1
      <4> QED BY <4>2
    <3>3. CASE a = NoTarget /\ b = NoTarget /\ c = name
      <4>1. \A j \in 1..3 - 1 : j = 1 \/ j = 2
        OBVIOUS
      <4>2. 3 \in 1..3 /\ names[3] = name /\ \A j \in 1..3 - 1 : names[j] = NoTarget
        BY <1>3, <3>3, <4>1
      <4> QED BY <4>2
    <3> QED BY <1>1, <3>1, <3>2, <3>3
  <2>2. k \in 1..Len(names) /\ Len(names) \in Nat
    BY <1>3
  <2>3. IsName(names[k]) /\ \A j \in 1..k - 1 : ~IsName(names[j])
    BY <2>1 DEF IsName
  <2> QED BY <2>1, <2>2, <2>3, FirstNameIs
<1> QED BY <1>1, <1>2, <1>4 DEF MatchAt

(* White space and quotes are no part of names, nor are they the other       *)
(* pieces.                                                                   *)
LEMMA BlankFacts ==
  /\ Blank \notin NameLike /\ "'" \notin NameLike
  /\ Blank # "text" /\ Blank # "target" /\ Blank # "to" /\ Blank # "node" /\ Blank # "au"
  /\ Blank # "'" /\ Blank # "=" /\ Blank # ":" /\ Blank # "end" /\ Blank # "_"
<1>1. Blank # "text" /\ Blank # "target" /\ Blank # "to" /\ Blank # "node" /\ Blank # "au"
  BY Zenon DEF Blank
<1>2. Blank # "'" /\ Blank # "=" /\ Blank # ":" /\ Blank # "end" /\ Blank # "_"
  BY Zenon DEF Blank
<1>3. Blank \notin NameLike /\ "'" \notin NameLike
  BY TaskLogAssumption
<1> QED BY <1>1, <1>2, <1>3

\* The piece of a text at a place.
PieceIs(log, i, w) == i \in 1..Len(log) /\ i \in Nat /\ log[i] = w /\ At(log, i) = w

(* The pieces of a line in a text.                                           *)
LEMMA PiecesAt ==
  ASSUME NEW A, NEW log \in Seq(A), NEW b, NEW line, LineAt(log, b, line),
         NEW n \in Nat, Len(line) = n
  PROVE  \A j \in 1..n : PieceIs(log, b + j, line[j])
<1>1. Len(log) \in Nat /\ b \in Nat /\ b + n <= Len(log)
  BY DEF LineAt
<1>2. \A j \in 1..n : log[b + j] = line[j]
  BY DEF LineAt
<1>3. \A j \in 1..n : b + j \in 1..Len(log) /\ ~(b + j > Len(log)) /\ b + j \in Nat
  BY <1>1
<1> QED BY <1>2, <1>3 DEF At, PieceIs

(* A preamble names nothing, whatever follows it.                            *)
LEMMA PreambleRead ==
  ASSUME NEW A, NEW log \in Seq(A), NEW b, NEW line \in Preambles, LineAt(log, b, line)
  PROVE  \A j \in 1..Len(line) : MatchAt(log, b + j) = NoTarget
<1>1. PICK w, x, y, z, c : w = "text" /\ x = "target" /\ y = "au" /\ z = "to" /\ c = ":"
  OBVIOUS
<1>2. line = <<w, Blank>> \/ line = <<x, Blank, w, Blank>> \/ line = <<y, z, c, Blank>>
  BY <1>1 DEF Preambles
<1>3. b \in Nat
  BY DEF LineAt
<1>4. CASE line = <<w, Blank>>
  <2>1. Len(line) = 2 /\ line[1] = w /\ line[2] = Blank
    BY <1>4
  <2>2. /\ log[b + 1] = w /\ log[b + 2] = Blank
    <3>1. 1 \in 1..2 /\ 2 \in 1..2
      OBVIOUS
    <3>2. \A j \in 1..2 : PieceIs(log, b + j, line[j])
      BY <2>1, PiecesAt
    <3>3. PieceIs(log, b + 1, w) /\ PieceIs(log, b + 2, Blank)
      BY <2>1, <3>1, <3>2, Zenon
    <3> QED BY <3>3, Zenon DEF PieceIs
  <2>3. MatchAt(log, b + 1) = NoTarget /\ MatchAt(log, b + 2) = NoTarget
    BY <1>1, <2>2, BlankFacts, OtherPiece
  <2>4. \A j \in 1..2 : j = 1 \/ j = 2
    OBVIOUS
  <2> QED BY <2>1, <2>3, <2>4
<1>5. CASE line = <<x, Blank, w, Blank>>
  <2>1. Len(line) = 4 /\ line[1] = x /\ line[2] = Blank /\ line[3] = w /\ line[4] = Blank
    BY <1>5
  <2>2. /\ log[b + 1] = x /\ log[b + 2] = Blank /\ log[b + 3] = w /\ log[b + 4] = Blank
        /\ At(log, b + 2) = Blank /\ At(log, b + 3) = w /\ b + 3 \in 1..Len(log)
    <3>1. 1 \in 1..4 /\ 2 \in 1..4 /\ 3 \in 1..4 /\ 4 \in 1..4
      OBVIOUS
    <3>2. \A j \in 1..4 : PieceIs(log, b + j, line[j])
      BY <2>1, PiecesAt
    <3>3. /\ PieceIs(log, b + 1, x) /\ PieceIs(log, b + 2, Blank)
          /\ PieceIs(log, b + 3, w) /\ PieceIs(log, b + 4, Blank)
      BY <2>1, <3>1, <3>2, Zenon
    <3> QED BY <3>3, Zenon DEF PieceIs
  <2>3. TargetKeyAt(log, b + 1) = NoTarget
    <3>1. PICK i : i = b + 1
      OBVIOUS
    <3>2. i + 1 = b + 2 /\ i + 2 = b + 3 /\ i + 1 \in Nat
      BY <1>3, <3>1
    <3>3. SkipSpaces(log, i + 1) = b + 3
      <4>1. b + 3 \in i + 1..Len(log) + 1 /\ \A k \in i + 1..(b + 3) - 1 : k = b + 2
        BY <1>3, <2>2, <3>1
      <4>2. At(log, b + 3) # Blank
        BY <1>1, <2>2, BlankFacts
      <4>3. \A k \in i + 1..(b + 3) - 1 : log[k] = Blank
        BY <2>2, <4>1
      <4>4. PICK from, to : from = i + 1 /\ to = b + 3
        OBVIOUS
      <4> QED BY <3>2, <4>1, <4>2, <4>3, <4>4, SkipSpacesIs
    <3>4. At(log, i + 2) # "node" /\ At(log, b + 3) \notin {"=", ":"}
      BY <1>1, <2>2, <3>2
    <3>5. TargetKeyAt(log, i) = NoTarget
      BY <3>3, <3>4 DEF TargetKeyAt
    <3> QED BY <3>1, <3>5
  <2>4. ToAt(log, b + 1) = NoTarget /\ ToNodeAt(log, b + 1) = NoTarget
    BY <1>1, <2>2 DEF ToAt, ToNodeAt
  <2>5. MatchAt(log, b + 1) = NoTarget
    BY <2>3, <2>4, NoMatch
  <2>6. MatchAt(log, b + 2) = NoTarget /\ MatchAt(log, b + 3) = NoTarget /\ MatchAt(log, b + 4) = NoTarget
    BY <1>1, <2>2, BlankFacts, OtherPiece
  <2>7. \A j \in 1..4 : j = 1 \/ j = 2 \/ j = 3 \/ j = 4
    OBVIOUS
  <2> QED BY <2>1, <2>5, <2>6, <2>7
<1>6. CASE line = <<y, z, c, Blank>>
  <2>1. Len(line) = 4 /\ line[1] = y /\ line[2] = z /\ line[3] = c /\ line[4] = Blank
    BY <1>6
  <2>2. /\ log[b + 1] = y /\ log[b + 2] = z /\ log[b + 3] = c /\ log[b + 4] = Blank
        /\ At(log, b + 3) = c
    <3>1. 1 \in 1..4 /\ 2 \in 1..4 /\ 3 \in 1..4 /\ 4 \in 1..4
      OBVIOUS
    <3>2. \A j \in 1..4 : PieceIs(log, b + j, line[j])
      BY <2>1, PiecesAt
    <3>3. /\ PieceIs(log, b + 1, y) /\ PieceIs(log, b + 2, z)
          /\ PieceIs(log, b + 3, c) /\ PieceIs(log, b + 4, Blank)
      BY <2>1, <3>1, <3>2, Zenon
    <3> QED BY <3>3, Zenon DEF PieceIs
  <2>3. MatchAt(log, b + 2) = NoTarget
    <3>1. PICK i : i = b + 2
      OBVIOUS
    <3>2. i + 1 = b + 3
      BY <1>3, <3>1
    <3>3. log[i] = "to" /\ At(log, i + 1) = ":" /\ Blank # ":"
      BY <1>1, <2>2, <3>1, <3>2, BlankFacts
    <3>4. ToAt(log, i) = NoTarget
      BY <3>3, Zenon DEF ToAt
    <3>5. ToNodeAt(log, i) = NoTarget
      BY <3>3, Zenon DEF ToNodeAt
    <3>6. TargetKeyAt(log, i) = NoTarget
      BY <3>3 DEF TargetKeyAt
    <3> QED BY <3>1, <3>4, <3>5, <3>6, NoMatch
  <2>4. MatchAt(log, b + 1) = NoTarget /\ MatchAt(log, b + 3) = NoTarget /\ MatchAt(log, b + 4) = NoTarget
    BY <1>1, <2>2, BlankFacts, OtherPiece
  <2>5. \A j \in 1..4 : j = 1 \/ j = 2 \/ j = 3 \/ j = 4
    OBVIOUS
  <2> QED BY <2>1, <2>3, <2>4, <2>5
<1> QED BY <1>2, <1>4, <1>5, <1>6
-----------------------------------------------------------------------------
(* Task logs: the lines that name a target                                   *)

(* White space of one piece.                                                 *)
LEMMA SkipOne ==
  ASSUME NEW A, NEW log \in Seq(A), NEW i \in Nat, NEW j, j = i + 1, PieceIs(log, i, Blank),
         NEW w, w # Blank, PieceIs(log, j, w)
  PROVE  SkipSpaces(log, i) = j
<1>1. j \in i..Len(log) + 1 /\ \A k \in i..j - 1 : k = i
  BY DEF PieceIs
<1>2. \A k \in i..j - 1 : log[k] = Blank
  BY <1>1 DEF PieceIs
<1>3. At(log, j) # Blank
  BY DEF PieceIs
<1> QED BY <1>1, <1>2, <1>3, SkipSpacesIs

(* And of none.                                                              *)
LEMMA SkipNone ==
  ASSUME NEW A, NEW log \in Seq(A), NEW i \in Nat, NEW w, w # Blank, PieceIs(log, i, w)
  PROVE  SkipSpaces(log, i) = i
<1>1. i \in i..Len(log) + 1 /\ \A k \in i..i - 1 : log[k] = Blank
  BY DEF PieceIs
<1>2. At(log, i) # Blank
  BY DEF PieceIs
<1> QED BY <1>1, <1>2, SkipSpacesIs

(* A name that is not quoted.                                                *)
LEMMA PlainName ==
  ASSUME NEW A, NEW log \in Seq(A), NEW i \in Nat, NEW j, j = i + 1,
         NEW n \in NameLike, PieceIs(log, i, n), NEW w, w \notin NameLike, PieceIs(log, j, w)
  PROVE  NameAt(log, i) = <<n>>
<1>1. i \in 1..Len(log) /\ log[i] = n /\ At(log, i) # "'" /\ At(log, i + 1) \notin NameLike
  BY BlankFacts DEF PieceIs
<1>2. i = IF At(log, i) = "'" THEN i + 1 ELSE i
  BY <1>1
<1>3. NameAt(log, i) = <<log[i]>>
  BY <1>1, <1>2, NameAtIs
<1> QED BY <1>1, <1>3

(* And one that is.                                                          *)
LEMMA QuotedName ==
  ASSUME NEW A, NEW log \in Seq(A), NEW i \in Nat, NEW j, j = i + 1, NEW e, e = j + 1,
         PieceIs(log, i, "'"), NEW n \in NameLike, PieceIs(log, j, n),
         NEW w, w \notin NameLike, PieceIs(log, e, w)
  PROVE  NameAt(log, i) = <<n>>
<1>1. /\ j \in 1..Len(log) /\ log[j] = n /\ log[j] \in NameLike /\ At(log, i) = "'"
      /\ At(log, j + 1) \notin NameLike
  BY DEF PieceIs
<1>2. j = IF At(log, i) = "'" THEN i + 1 ELSE i
  BY <1>1
<1>3. NameAt(log, i) = <<log[j]>>
  BY <1>1, <1>2, NameAtIs
<1> QED BY <1>1, <1>3

\* The k-th piece of the line after b is the first that begins a match.
FirstMatchIs(log, b, k, name) ==
  MatchAt(log, b + k) = name /\ \A j \in 1..k - 1 : MatchAt(log, b + j) = NoTarget

(* A node looks like a name, is no number and not called node.               *)
LEMMA NodeFacts ==
  ASSUME NEW n \in Nodes
  PROVE  n \in NameLike /\ n \notin NumberLike /\ n # "node" /\ n # Blank /\ n # "'"
<1>1. n \in NameLike /\ n \notin NumberLike /\ n # "node"
  BY ParsersAssumption
<1> QED BY <1>1, BlankFacts

(* The pieces of the lines that name a target.                               *)
LEMMA NamingPieces ==
  ASSUME NEW A, NEW log \in Seq(A), NEW b, NEW n
  PROVE  /\ LineAt(log, b, NamingLine("sentence", n)) =>
              /\ PieceIs(log, b + 1, "text") /\ PieceIs(log, b + 2, Blank)
              /\ PieceIs(log, b + 3, "to") /\ PieceIs(log, b + 4, Blank)
              /\ PieceIs(log, b + 5, "node") /\ PieceIs(log, b + 6, Blank)
              /\ PieceIs(log, b + 7, "'") /\ PieceIs(log, b + 8, n)
              /\ PieceIs(log, b + 9, "'")
         /\ LineAt(log, b, NamingLine("unquoted", n)) =>
              /\ PieceIs(log, b + 1, "text") /\ PieceIs(log, b + 2, Blank)
              /\ PieceIs(log, b + 3, "to") /\ PieceIs(log, b + 4, Blank)
              /\ PieceIs(log, b + 5, n) /\ PieceIs(log, b + 6, Blank)
         /\ LineAt(log, b, NamingLine("option", n)) =>
              /\ PieceIs(log, b + 1, "target") /\ PieceIs(log, b + 2, "_")
              /\ PieceIs(log, b + 3, "node") /\ PieceIs(log, b + 4, "=")
              /\ PieceIs(log, b + 5, n) /\ PieceIs(log, b + 6, Blank)
         /\ LineAt(log, b, NamingLine("title", n)) =>
              /\ PieceIs(log, b + 1, "target") /\ PieceIs(log, b + 2, Blank)
              /\ PieceIs(log, b + 3, "node") /\ PieceIs(log, b + 4, Blank)
              /\ PieceIs(log, b + 5, ":") /\ PieceIs(log, b + 6, Blank)
              /\ PieceIs(log, b + 7, n) /\ PieceIs(log, b + 8, Blank)
<1>1. PICK x, t, a, o, d, q, u, s, c : /\ x = "text" /\ t = "to" /\ a = "target" /\ d = "node"
                                       /\ q = "'" /\ u = "_" /\ s = "=" /\ c = ":" /\ o = Blank
  OBVIOUS
<1>2. ASSUME NEW line, line = NamingLine("sentence", n), LineAt(log, b, line)
      PROVE  /\ PieceIs(log, b + 1, x) /\ PieceIs(log, b + 2, o)
             /\ PieceIs(log, b + 3, t) /\ PieceIs(log, b + 4, o)
             /\ PieceIs(log, b + 5, d) /\ PieceIs(log, b + 6, o)
             /\ PieceIs(log, b + 7, q) /\ PieceIs(log, b + 8, n)
             /\ PieceIs(log, b + 9, q)
  <2>1. line = <<x, o, t, o, d, o, q, n, q, o>>
    BY <1>1, <1>2 DEF NamingLine
  <2>2. /\ Len(line) = 10 /\ line[1] = x /\ line[2] = o /\ line[3] = t /\ line[4] = o
        /\ line[5] = d /\ line[6] = o /\ line[7] = q /\ line[8] = n /\ line[9] = q
    BY <2>1
  <2>3. /\ 1 \in 1..10 /\ 2 \in 1..10 /\ 3 \in 1..10 /\ 4 \in 1..10 /\ 5 \in 1..10
        /\ 6 \in 1..10 /\ 7 \in 1..10 /\ 8 \in 1..10 /\ 9 \in 1..10
    OBVIOUS
  <2>4. \A j \in 1..10 : PieceIs(log, b + j, line[j])
    BY <1>2, <2>2, PiecesAt
  <2> QED BY <2>2, <2>3, <2>4, Zenon
<1>3. ASSUME NEW line, line = NamingLine("unquoted", n), LineAt(log, b, line)
      PROVE  /\ PieceIs(log, b + 1, x) /\ PieceIs(log, b + 2, o)
             /\ PieceIs(log, b + 3, t) /\ PieceIs(log, b + 4, o)
             /\ PieceIs(log, b + 5, n) /\ PieceIs(log, b + 6, o)
  <2>1. line = <<x, o, t, o, n, o>>
    BY <1>1, <1>3 DEF NamingLine
  <2>2. /\ Len(line) = 6 /\ line[1] = x /\ line[2] = o /\ line[3] = t /\ line[4] = o
        /\ line[5] = n /\ line[6] = o
    BY <2>1
  <2>3. /\ 1 \in 1..6 /\ 2 \in 1..6 /\ 3 \in 1..6 /\ 4 \in 1..6 /\ 5 \in 1..6 /\ 6 \in 1..6
    OBVIOUS
  <2>4. \A j \in 1..6 : PieceIs(log, b + j, line[j])
    BY <1>3, <2>2, PiecesAt
  <2> QED BY <2>2, <2>3, <2>4, Zenon
<1>4. ASSUME NEW line, line = NamingLine("option", n), LineAt(log, b, line)
      PROVE  /\ PieceIs(log, b + 1, a) /\ PieceIs(log, b + 2, u)
             /\ PieceIs(log, b + 3, d) /\ PieceIs(log, b + 4, s)
             /\ PieceIs(log, b + 5, n) /\ PieceIs(log, b + 6, o)
  <2>1. line = <<a, u, d, s, n, o>>
    BY <1>1, <1>4 DEF NamingLine
  <2>2. /\ Len(line) = 6 /\ line[1] = a /\ line[2] = u /\ line[3] = d /\ line[4] = s
        /\ line[5] = n /\ line[6] = o
    BY <2>1
  <2>3. /\ 1 \in 1..6 /\ 2 \in 1..6 /\ 3 \in 1..6 /\ 4 \in 1..6 /\ 5 \in 1..6 /\ 6 \in 1..6
    OBVIOUS
  <2>4. \A j \in 1..6 : PieceIs(log, b + j, line[j])
    BY <1>4, <2>2, PiecesAt
  <2> QED BY <2>2, <2>3, <2>4, Zenon
<1>5. ASSUME NEW line, line = NamingLine("title", n), LineAt(log, b, line)
      PROVE  /\ PieceIs(log, b + 1, a) /\ PieceIs(log, b + 2, o)
             /\ PieceIs(log, b + 3, d) /\ PieceIs(log, b + 4, o)
             /\ PieceIs(log, b + 5, c) /\ PieceIs(log, b + 6, o)
             /\ PieceIs(log, b + 7, n) /\ PieceIs(log, b + 8, o)
  <2>1. line = <<a, o, d, o, c, o, n, o>>
    BY <1>1, <1>5 DEF NamingLine
  <2>2. /\ Len(line) = 8 /\ line[1] = a /\ line[2] = o /\ line[3] = d /\ line[4] = o
        /\ line[5] = c /\ line[6] = o /\ line[7] = n /\ line[8] = o
    BY <2>1
  <2>3. /\ 1 \in 1..8 /\ 2 \in 1..8 /\ 3 \in 1..8 /\ 4 \in 1..8 /\ 5 \in 1..8 /\ 6 \in 1..8
        /\ 7 \in 1..8 /\ 8 \in 1..8
    OBVIOUS
  <2>4. \A j \in 1..8 : PieceIs(log, b + j, line[j])
    BY <1>5, <2>2, PiecesAt
  <2> QED BY <2>2, <2>3, <2>4, Zenon
<1>6. /\ LineAt(log, b, NamingLine("sentence", n)) =>
           /\ PieceIs(log, b + 1, x) /\ PieceIs(log, b + 2, o)
           /\ PieceIs(log, b + 3, t) /\ PieceIs(log, b + 4, o)
           /\ PieceIs(log, b + 5, d) /\ PieceIs(log, b + 6, o)
           /\ PieceIs(log, b + 7, q) /\ PieceIs(log, b + 8, n)
           /\ PieceIs(log, b + 9, q)
      /\ LineAt(log, b, NamingLine("unquoted", n)) =>
           /\ PieceIs(log, b + 1, x) /\ PieceIs(log, b + 2, o)
           /\ PieceIs(log, b + 3, t) /\ PieceIs(log, b + 4, o)
           /\ PieceIs(log, b + 5, n) /\ PieceIs(log, b + 6, o)
      /\ LineAt(log, b, NamingLine("option", n)) =>
           /\ PieceIs(log, b + 1, a) /\ PieceIs(log, b + 2, u)
           /\ PieceIs(log, b + 3, d) /\ PieceIs(log, b + 4, s)
           /\ PieceIs(log, b + 5, n) /\ PieceIs(log, b + 6, o)
      /\ LineAt(log, b, NamingLine("title", n)) =>
           /\ PieceIs(log, b + 1, a) /\ PieceIs(log, b + 2, o)
           /\ PieceIs(log, b + 3, d) /\ PieceIs(log, b + 4, o)
           /\ PieceIs(log, b + 5, c) /\ PieceIs(log, b + 6, o)
           /\ PieceIs(log, b + 7, n) /\ PieceIs(log, b + 8, o)
  BY <1>2, <1>3, <1>4, <1>5, Zenon
<1> QED BY <1>1, <1>6, Zenon

(* to node 'n': the alternative with node matches, behind the text.          *)
LEMMA SentenceRead ==
  ASSUME NEW A, NEW log \in Seq(A), NEW b \in Nat, NEW n \in Nodes,
         LineAt(log, b, NamingLine("sentence", n))
  PROVE  FirstMatchIs(log, b, 3, <<n>>)
<1>1. /\ PieceIs(log, b + 1, "text") /\ PieceIs(log, b + 2, Blank)
      /\ PieceIs(log, b + 3, "to") /\ PieceIs(log, b + 4, Blank)
      /\ PieceIs(log, b + 5, "node") /\ PieceIs(log, b + 6, Blank)
      /\ PieceIs(log, b + 7, "'") /\ PieceIs(log, b + 8, n)
      /\ PieceIs(log, b + 9, "'")
  BY NamingPieces
<1>2. PICK p3, p4, p5, p6, p7, p8, p9 :
        /\ p3 = b + 3 /\ p4 = b + 4 /\ p5 = b + 5 /\ p6 = b + 6 /\ p7 = b + 7 /\ p8 = b + 8
        /\ p9 = b + 9
  OBVIOUS
<1>3. /\ p4 \in Nat /\ p6 \in Nat /\ p7 \in Nat /\ p4 = p3 + 1 /\ p5 = p4 + 1 /\ p6 = p5 + 1
      /\ p7 = p6 + 1 /\ p8 = p7 + 1 /\ p9 = p8 + 1
  BY <1>2
<1>4. /\ PieceIs(log, p3, "to") /\ PieceIs(log, p4, Blank) /\ PieceIs(log, p5, "node")
      /\ PieceIs(log, p6, Blank) /\ PieceIs(log, p7, "'") /\ PieceIs(log, p8, n)
      /\ PieceIs(log, p9, "'")
  BY <1>1, <1>2, Zenon
<1>5. SkipSpaces(log, p4) = p5
  BY <1>3, <1>4, BlankFacts, SkipOne
<1>6. SkipSpaces(log, p6) = p7
  BY <1>3, <1>4, BlankFacts, SkipOne
<1>7. NameAt(log, p7) = <<n>>
  <2>1. PICK q : q = "'"
    OBVIOUS
  <2>2. /\ PieceIs(log, p7, q) /\ PieceIs(log, p8, n) /\ PieceIs(log, p9, q)
        /\ p7 \in Nat /\ p8 = p7 + 1 /\ p9 = p8 + 1
    BY <1>3, <1>4, <2>1, Zenon
  <2>3. q \notin NameLike /\ n \in NameLike
    BY <2>1, BlankFacts, NodeFacts, Zenon
  <2> QED BY <2>1, <2>2, <2>3, QuotedName
<1>8. ToNodeAt(log, p3) = <<n>>
  <2>1. /\ log[p3] = "to" /\ At(log, p3 + 1) = Blank /\ At(log, p5) = "node"
        /\ At(log, p5 + 1) = Blank /\ SkipSpaces(log, p3 + 1) = p5
        /\ NameAt(log, SkipSpaces(log, p5 + 1)) = <<n>>
    BY <1>3, <1>4, <1>5, <1>6, <1>7 DEF PieceIs
  <2> QED BY <2>1, Zenon DEF ToNodeAt
<1>9. TargetKeyAt(log, p3) = NoTarget
  BY <1>4 DEF TargetKeyAt, PieceIs
<1>10. MatchAt(log, p3) = <<n>>
  <2>1. <<n>> # NoTarget
    BY DEF NoTarget
  <2> QED BY <1>8, <1>9, <2>1, MatchIs, Zenon
<1>11. MatchAt(log, b + 1) = NoTarget /\ MatchAt(log, b + 2) = NoTarget
  BY <1>1, BlankFacts, OtherPiece DEF PieceIs
<1>12. \A j \in 1..3 - 1 : j = 1 \/ j = 2
  OBVIOUS
<1> QED BY <1>2, <1>10, <1>11, <1>12, Zenon DEF FirstMatchIs

(* to n: only the alternative without node matches.                          *)
LEMMA UnquotedRead ==
  ASSUME NEW A, NEW log \in Seq(A), NEW b \in Nat, NEW n \in Nodes,
         LineAt(log, b, NamingLine("unquoted", n))
  PROVE  FirstMatchIs(log, b, 3, <<n>>)
<1>1. /\ PieceIs(log, b + 1, "text") /\ PieceIs(log, b + 2, Blank)
      /\ PieceIs(log, b + 3, "to") /\ PieceIs(log, b + 4, Blank)
      /\ PieceIs(log, b + 5, n) /\ PieceIs(log, b + 6, Blank)
  BY NamingPieces
<1>2. PICK p3, p4, p5, p6 : p3 = b + 3 /\ p4 = b + 4 /\ p5 = b + 5 /\ p6 = b + 6
  OBVIOUS
<1>3. p4 \in Nat /\ p5 \in Nat /\ p4 = p3 + 1 /\ p5 = p4 + 1 /\ p6 = p5 + 1
  BY <1>2
<1>4. /\ PieceIs(log, p3, "to") /\ PieceIs(log, p4, Blank) /\ PieceIs(log, p5, n)
      /\ PieceIs(log, p6, Blank)
  BY <1>1, <1>2, Zenon
<1>5. SkipSpaces(log, p4) = p5
  BY <1>3, <1>4, NodeFacts, SkipOne
<1>6. NameAt(log, p5) = <<n>>
  BY <1>3, <1>4, BlankFacts, NodeFacts, PlainName
<1>7. /\ log[p3] = "to" /\ At(log, p3 + 1) = Blank /\ SkipSpaces(log, p3 + 1) = p5
      /\ NameAt(log, SkipSpaces(log, p3 + 1)) = <<n>> /\ At(log, p5) # "node"
  BY <1>3, <1>4, <1>5, <1>6, NodeFacts DEF PieceIs
<1>8. ToAt(log, p3) = <<n>>
  BY <1>7, Zenon DEF ToAt
<1>9. ToNodeAt(log, p3) = NoTarget
  BY <1>7, Zenon DEF ToNodeAt
<1>10. TargetKeyAt(log, p3) = NoTarget
  BY <1>7 DEF TargetKeyAt
<1>11. MatchAt(log, p3) = <<n>>
  <2>1. <<n>> # NoTarget
    BY DEF NoTarget
  <2> QED BY <1>8, <1>9, <1>10, <2>1, MatchIs, Zenon
<1>12. MatchAt(log, b + 1) = NoTarget /\ MatchAt(log, b + 2) = NoTarget
  BY <1>1, BlankFacts, OtherPiece DEF PieceIs
<1>13. \A j \in 1..3 - 1 : j = 1 \/ j = 2
  OBVIOUS
<1> QED BY <1>2, <1>11, <1>12, <1>13, Zenon DEF FirstMatchIs

(* A match that begins with the first piece is the first.                    *)
LEMMA FirstPieceMatches ==
  ASSUME NEW log, NEW b, NEW i, i = b + 1, NEW name, MatchAt(log, i) = name
  PROVE  FirstMatchIs(log, b, 1, name)
<1>1. \A j \in 1..1 - 1 : FALSE
  OBVIOUS
<1> QED BY <1>1 DEF FirstMatchIs

(* What target or target node and a sign lead to.                            *)
LEMMA KeyRead ==
  ASSUME NEW log, NEW b, NEW i, i = b + 1, NEW p2, p2 = i + 1, NEW p3, p3 = i + 2, NEW p4, p4 = i + 3,
         PieceIs(log, i, "target"), At(log, p2) \in {"_", Blank}, At(log, p3) = "node",
         NEW e, SkipSpaces(log, p4) = e, At(log, e) \in {"=", ":"},
         NEW n, NameAt(log, SkipSpaces(log, e + 1)) = <<n>>
  PROVE  FirstMatchIs(log, b, 1, <<n>>)
<1>1. (IF At(log, i + 1) \in {"_", Blank} /\ At(log, i + 2) = "node" THEN i + 3 ELSE i + 1) = p4
  OBVIOUS
<1>2. TargetKeyAt(log, i) = <<n>>
  <2>1. log[i] = "target"
    BY DEF PieceIs
  <2> QED BY <1>1, <2>1, Zenon DEF TargetKeyAt
<1>3. <<n>> # NoTarget
  BY DEF NoTarget
<1>4. MatchAt(log, i) = <<n>>
  BY <1>2, <1>3, MatchIs, Zenon
<1> QED BY <1>4, FirstPieceMatches

(* target_node=n.                                                            *)
LEMMA OptionRead ==
  ASSUME NEW A, NEW log \in Seq(A), NEW b \in Nat, NEW n \in Nodes,
         LineAt(log, b, NamingLine("option", n))
  PROVE  FirstMatchIs(log, b, 1, <<n>>)
<1>1. /\ PieceIs(log, b + 1, "target") /\ PieceIs(log, b + 2, "_")
      /\ PieceIs(log, b + 3, "node") /\ PieceIs(log, b + 4, "=")
      /\ PieceIs(log, b + 5, n) /\ PieceIs(log, b + 6, Blank)
  BY NamingPieces
<1>2. PICK p1, p2, p3, p4, p5, p6 : /\ p1 = b + 1 /\ p2 = b + 2 /\ p3 = b + 3 /\ p4 = b + 4
                                    /\ p5 = b + 5 /\ p6 = b + 6
  OBVIOUS
<1>3. /\ p1 \in Nat /\ p4 \in Nat /\ p5 \in Nat /\ p2 = p1 + 1 /\ p3 = p1 + 2 /\ p4 = p1 + 3
      /\ p5 = p4 + 1 /\ p6 = p5 + 1
  BY <1>2
<1>4. /\ PieceIs(log, p1, "target") /\ PieceIs(log, p2, "_") /\ PieceIs(log, p3, "node")
      /\ PieceIs(log, p4, "=") /\ PieceIs(log, p5, n) /\ PieceIs(log, p6, Blank)
  BY <1>1, <1>2, Zenon
<1>5. SkipSpaces(log, p4) = p4
  BY <1>3, <1>4, BlankFacts, SkipNone
<1>6. SkipSpaces(log, p5) = p5
  BY <1>3, <1>4, NodeFacts, SkipNone
<1>7. NameAt(log, p5) = <<n>>
  BY <1>3, <1>4, BlankFacts, NodeFacts, PlainName
<1>8. /\ At(log, p2) \in {"_", Blank} /\ At(log, p3) = "node" /\ At(log, p4) \in {"=", ":"}
      /\ NameAt(log, SkipSpaces(log, p4 + 1)) = <<n>>
  BY <1>3, <1>4, <1>6, <1>7 DEF PieceIs
<1> QED BY <1>2, <1>3, <1>4, <1>5, <1>8, KeyRead

(* target node : n.                                                          *)
LEMMA TitleRead ==
  ASSUME NEW A, NEW log \in Seq(A), NEW b \in Nat, NEW n \in Nodes,
         LineAt(log, b, NamingLine("title", n))
  PROVE  FirstMatchIs(log, b, 1, <<n>>)
<1>1. /\ PieceIs(log, b + 1, "target") /\ PieceIs(log, b + 2, Blank)
      /\ PieceIs(log, b + 3, "node") /\ PieceIs(log, b + 4, Blank)
      /\ PieceIs(log, b + 5, ":") /\ PieceIs(log, b + 6, Blank)
      /\ PieceIs(log, b + 7, n) /\ PieceIs(log, b + 8, Blank)
  BY NamingPieces
<1>2. PICK p1, p2, p3, p4, p5, p6, p7, p8 :
        /\ p1 = b + 1 /\ p2 = b + 2 /\ p3 = b + 3 /\ p4 = b + 4
        /\ p5 = b + 5 /\ p6 = b + 6 /\ p7 = b + 7 /\ p8 = b + 8
  OBVIOUS
<1>3. /\ p1 \in Nat /\ p4 \in Nat /\ p6 \in Nat /\ p7 \in Nat /\ p2 = p1 + 1 /\ p3 = p1 + 2
      /\ p4 = p1 + 3 /\ p5 = p4 + 1 /\ p6 = p5 + 1 /\ p7 = p6 + 1 /\ p8 = p7 + 1
  BY <1>2
<1>4. /\ PieceIs(log, p1, "target") /\ PieceIs(log, p2, Blank) /\ PieceIs(log, p3, "node")
      /\ PieceIs(log, p4, Blank) /\ PieceIs(log, p5, ":") /\ PieceIs(log, p6, Blank)
      /\ PieceIs(log, p7, n) /\ PieceIs(log, p8, Blank)
  BY <1>1, <1>2, Zenon
<1>5. SkipSpaces(log, p4) = p5
  BY <1>3, <1>4, BlankFacts, SkipOne
<1>6. SkipSpaces(log, p6) = p7
  BY <1>3, <1>4, NodeFacts, SkipOne
<1>7. NameAt(log, p7) = <<n>>
  <2>1. PieceIs(log, p7, n) /\ PieceIs(log, p8, Blank) /\ p8 = p7 + 1 /\ p7 \in Nat
    BY <1>3, <1>4
  <2> QED BY <2>1, BlankFacts, NodeFacts, PlainName
<1>8. /\ At(log, p2) \in {"_", Blank} /\ At(log, p3) = "node" /\ At(log, p5) \in {"=", ":"}
      /\ NameAt(log, SkipSpaces(log, p5 + 1)) = <<n>>
  BY <1>3, <1>4, <1>6, <1>7 DEF PieceIs
<1> QED BY <1>2, <1>3, <1>4, <1>5, <1>8, KeyRead

(* A line that names a target is read, in one of its places.                 *)
LEMMA NamingRead ==
  ASSUME NEW A, NEW log \in Seq(A), NEW b \in Nat, NEW n \in Nodes,
         NEW form \in {"sentence", "unquoted", "option", "title"}, NEW line,
         line = NamingLine(form, n), LineAt(log, b, line)
  PROVE  \E k \in 1..Len(line) : FirstMatchIs(log, b, k, <<n>>)
<1>1. CASE form = "sentence"
  <2>1. Len(line) = 10
    BY <1>1 DEF NamingLine
  <2>2. FirstMatchIs(log, b, 3, <<n>>)
    BY <1>1, SentenceRead
  <2> QED BY <2>1, <2>2
<1>2. CASE form = "unquoted"
  <2>1. Len(line) = 6
    BY <1>2 DEF NamingLine
  <2>2. FirstMatchIs(log, b, 3, <<n>>)
    BY <1>2, UnquotedRead
  <2> QED BY <2>1, <2>2
<1>3. CASE form = "option"
  <2>1. Len(line) = 6
    BY <1>3 DEF NamingLine
  <2>2. FirstMatchIs(log, b, 1, <<n>>)
    BY <1>3, OptionRead
  <2> QED BY <2>1, <2>2
<1>4. CASE form = "title"
  <2>1. Len(line) = 8
    BY <1>4 DEF NamingLine
  <2>2. FirstMatchIs(log, b, 1, <<n>>)
    BY <1>4, TitleRead
  <2> QED BY <2>1, <2>2
<1> QED BY <1>1, <1>2, <1>3, <1>4
-----------------------------------------------------------------------------
(* Task logs: texts and files                                                *)

\* The pieces of the lines of logs.
LogAlphabet == NameLike \cup Nodes \cup
             {"text", "to", "node", "target", "au", "local", "_", "=", ":", "'", Blank}

(* The lines of logs are made of these: those that name nothing,             *)
LEMMA PreambleText ==
  ASSUME NEW line \in Preambles
  PROVE  line \in Seq(LogAlphabet) /\ Len(line) \in Nat
<1>1. /\ "text" \in LogAlphabet /\ "to" \in LogAlphabet /\ "target" \in LogAlphabet
      /\ "au" \in LogAlphabet /\ ":" \in LogAlphabet /\ Blank \in LogAlphabet
  BY DEF LogAlphabet
<1>2. \/ line = <<"text", Blank>> \/ line = <<"target", Blank, "text", Blank>>
      \/ line = <<"au", "to", ":", Blank>>
  BY DEF Preambles
<1>3. line = <<"text", Blank>> => line \in Seq(LogAlphabet)
  BY <1>1
<1>4. line = <<"target", Blank, "text", Blank>> => line \in Seq(LogAlphabet)
  BY <1>1
<1>5. line = <<"au", "to", ":", Blank>> => line \in Seq(LogAlphabet)
  BY <1>1
<1>6. line \in Seq(LogAlphabet)
  BY <1>2, <1>3, <1>4, <1>5, Zenon
<1> QED BY <1>6

(* those that come after the line with the target,                           *)
LEMMA ReportText ==
  ASSUME NEW line \in Reports
  PROVE  line \in Seq(LogAlphabet)
<1>1. /\ "text" \in LogAlphabet /\ "to" \in LogAlphabet /\ "target" \in LogAlphabet
      /\ "local" \in LogAlphabet /\ ":" \in LogAlphabet /\ Blank \in LogAlphabet
  BY DEF LogAlphabet
<1>2. \/ line \in Preambles \/ line = <<"text", Blank, "to", Blank, "local", Blank>>
      \/ line = <<"target", ":", Blank, "local", Blank>>
  BY DEF Reports
<1>3. line \in Preambles => line \in Seq(LogAlphabet)
  BY PreambleText
<1>4. line = <<"text", Blank, "to", Blank, "local", Blank>> => line \in Seq(LogAlphabet)
  BY <1>1
<1>5. line = <<"target", ":", Blank, "local", Blank>> => line \in Seq(LogAlphabet)
  BY <1>1
<1> QED BY <1>2, <1>3, <1>4, <1>5, Zenon

(* and that line.                                                            *)
LEMMA NamingText ==
  ASSUME NEW n \in Nodes, NEW form \in {"sentence", "unquoted", "option", "title"}
  PROVE  NamingLine(form, n) \in Seq(LogAlphabet)
<1>1. PICK x, t, a, o, d, q, u, s, c : /\ x = "text" /\ t = "to" /\ a = "target" /\ d = "node"
                                       /\ q = "'" /\ u = "_" /\ s = "=" /\ c = ":" /\ o = Blank
  OBVIOUS
<1>2. /\ x \in LogAlphabet /\ t \in LogAlphabet /\ a \in LogAlphabet /\ o \in LogAlphabet
      /\ d \in LogAlphabet /\ q \in LogAlphabet /\ u \in LogAlphabet /\ s \in LogAlphabet
      /\ c \in LogAlphabet /\ n \in LogAlphabet
  BY <1>1 DEF LogAlphabet
<1>3. /\ <<x, o, t, o, d, o, q, n, q, o>> \in Seq(LogAlphabet)
      /\ <<x, o, t, o, n, o>> \in Seq(LogAlphabet)
      /\ <<a, u, d, s, n, o>> \in Seq(LogAlphabet)
      /\ <<a, o, d, o, c, o, n, o>> \in Seq(LogAlphabet)
  BY <1>2
<1>4. \/ NamingLine(form, n) = <<x, o, t, o, d, o, q, n, q, o>>
      \/ NamingLine(form, n) = <<x, o, t, o, n, o>>
      \/ NamingLine(form, n) = <<a, u, d, s, n, o>>
      \/ NamingLine(form, n) = <<a, o, d, o, c, o, n, o>>
  BY <1>1 DEF NamingLine
<1> QED BY <1>3, <1>4, Zenon

(* The matches of a log are those of its places.                             *)
LEMMA MatchesOfLog ==
  ASSUME NEW A, NEW log \in Seq(A), NEW names, names = [i \in DOMAIN log |-> MatchAt(log, i)]
  PROVE  /\ Len(names) = Len(log) /\ Len(log) \in Nat
         /\ \A i \in 1..Len(log) : names[i] = MatchAt(log, i)
<1>1. PICK n : n = Len(log)
  OBVIOUS
<1>2. n \in Nat /\ DOMAIN log = 1..n
  BY <1>1
<1>3. DOMAIN names = 1..n /\ \A i \in 1..n : names[i] = MatchAt(log, i)
  BY <1>2
<1>4. names \in Seq({MatchAt(log, i) : i \in 1..n})
  <2>1. names = [i \in 1..n |-> MatchAt(log, i)]
    BY <1>2
  <2>2. PICK F : F = {MatchAt(log, i) : i \in 1..n}
    OBVIOUS
  <2>3. \A i \in 1..n : names[i] \in F
    BY <1>3, <2>2
  <2>4. names \in [1..n -> F]
    BY <1>3, <2>1, <2>3
  <2>5. names \in Seq(F)
    BY <1>2, <2>4
  <2> QED BY <2>2, <2>5
<1>5. Len(names) = n
  BY <1>2, <1>3, <1>4
<1> QED BY <1>1, <1>2, <1>3, <1>5

(* The leftmost match gives the target, since no node is a number.           *)
LEMMA ReadsAs ==
  ASSUME NEW A, NEW log \in Seq(A), NEW n \in Nodes, NEW i \in 1..Len(log),
         MatchAt(log, i) = <<n>>, \A j \in 1..i - 1 : MatchAt(log, j) = NoTarget
  PROVE  ParseMigrateTargetFromLog(log) = <<n>>
<1>1. PICK names : names = [j \in DOMAIN log |-> MatchAt(log, j)]
  OBVIOUS
<1>2. /\ Len(names) = Len(log) /\ Len(log) \in Nat
      /\ \A j \in 1..Len(log) : names[j] = MatchAt(log, j)
  BY <1>1, MatchesOfLog
<1>3. \A j \in 1..i - 1 : j \in 1..Len(log)
  BY <1>2
<1>4. PICK t : t = <<n>>
  OBVIOUS
<1>5. Len(t) = 1 /\ t[1] = n /\ t # NoTarget
  BY <1>4 DEF NoTarget
<1>6. IsName(names[i]) /\ \A j \in 1..i - 1 : ~IsName(names[j])
  BY <1>2, <1>3, <1>4, <1>5 DEF IsName
<1>7. FirstName(names) = t
  <2>1. FirstName(names) = names[i]
    BY <1>2, <1>6, FirstNameIs
  <2> QED BY <1>2, <1>4, <2>1
<1>8. ~(Len(t) = 1 /\ t[1] \in NumberLike)
  BY <1>5, NodeFacts
<1>9. FirstName([j \in DOMAIN log |-> MatchAt(log, j)]) = t
  BY <1>1, <1>7, Zenon
<1> QED BY <1>4, <1>8, <1>9, Zenon DEF ParseMigrateTargetFromLog

(* A log in which nothing matches gives none.                                *)
LEMMA ReadsAsNothing ==
  ASSUME NEW A, NEW log \in Seq(A), \A i \in 1..Len(log) : MatchAt(log, i) = NoTarget
  PROVE  ParseMigrateTargetFromLog(log) = NoTarget
<1>1. PICK names : names = [j \in DOMAIN log |-> MatchAt(log, j)]
  OBVIOUS
<1>2. Len(names) = Len(log) /\ \A j \in 1..Len(log) : names[j] = MatchAt(log, j)
  BY <1>1, MatchesOfLog
<1>3. \A i \in 1..Len(names) : ~IsName(names[i])
  BY <1>2 DEF IsName
<1>4. FirstName(names) = NoTarget
  BY <1>3, NoFirstName
<1>5. FirstName([j \in DOMAIN log |-> MatchAt(log, j)]) = NoTarget
  BY <1>1, <1>4, Zenon
<1> QED BY <1>5, Zenon DEF ParseMigrateTargetFromLog

(* In a text of which the first c lines name nothing no match begins in      *)
(* them.                                                                     *)
LEMMA PreamblesRead ==
  ASSUME NEW A, NEW log \in Seq(A), NEW lines, NEW n \in Nat, NEW o, IsText(log, lines, n, o),
         \A k \in 1..n : Len(lines[k]) \in Nat,
         NEW c \in 0..n, \A k \in 1..c : lines[k] \in Preambles
  PROVE  \A i \in 1..o[c] : MatchAt(log, i) = NoTarget
<1> TAKE i \in 1..o[c]
<1>1. PICK k \in 1..c : \E j \in 1..Len(lines[k]) : i = o[k - 1] + j
  BY PlaceInLine
<1>2. PICK b, line : b = o[k - 1] /\ line = lines[k]
  OBVIOUS
<1>3. PICK j \in 1..Len(line) : i = b + j
  BY <1>1, <1>2
<1>4. LineAt(log, b, line) /\ line \in Preambles
  <2>1. k \in 1..n
    OBVIOUS
  <2> QED BY <1>2, <2>1 DEF IsText
<1> QED BY <1>3, <1>4, PreambleRead

(* A text that names its target behind these lines gives it, whatever        *)
(* follows.                                                                  *)
LEMMA NamingTextRead ==
  ASSUME NEW A, NEW log \in Seq(A), NEW lines, NEW n \in Nat, NEW o, IsText(log, lines, n, o),
         \A k \in 1..n : Len(lines[k]) \in Nat,
         NEW c \in 0..n, \A k \in 1..c : lines[k] \in Preambles, c < n,
         NEW node \in Nodes, NEW form \in {"sentence", "unquoted", "option", "title"},
         lines[c + 1] = NamingLine(form, node)
  PROVE  ParseMigrateTargetFromLog(log) = <<node>>
<1>1. PICK b, line : b = o[c] /\ line = lines[c + 1]
  OBVIOUS
<1>2. c + 1 \in 1..n /\ (c + 1) - 1 = c
  OBVIOUS
<1>3. LineAt(log, b, line) /\ b \in Nat /\ Len(line) \in Nat
  <2>1. LineAt(log, b, line)
    BY <1>1, <1>2 DEF IsText
  <2> QED BY <1>1, <1>2, <2>1 DEF LineAt
<1>4. PICK k \in 1..Len(line) : FirstMatchIs(log, b, k, <<node>>)
  BY <1>1, <1>3, NamingRead
<1>5. PICK i : i = b + k
  OBVIOUS
<1>6. i \in 1..Len(log)
  <2>1. b + Len(line) <= Len(log)
    BY <1>3 DEF LineAt
  <2> QED BY <1>3, <1>5, <2>1
<1>7. MatchAt(log, i) = <<node>> /\ \A j \in 1..k - 1 : MatchAt(log, b + j) = NoTarget
  BY <1>4, <1>5 DEF FirstMatchIs
<1>8. \A j \in 1..b : MatchAt(log, j) = NoTarget
  BY <1>1, PreamblesRead
<1>9. \A j \in 1..i - 1 : j \in 1..b \/ (j - b \in 1..k - 1 /\ b + (j - b) = j)
  BY <1>3, <1>5
<1>10. ASSUME NEW j \in 1..i - 1 PROVE MatchAt(log, j) = NoTarget
  <2>1. CASE j \in 1..b
    BY <1>8, <2>1
  <2>2. CASE j \notin 1..b
    <3>1. PICK m : m = j - b
      OBVIOUS
    <3>2. m \in 1..k - 1 /\ b + m = j
      BY <1>9, <2>2, <3>1
    <3> QED BY <1>7, <3>2
  <2> QED BY <2>1, <2>2
<1> QED BY <1>6, <1>7, <1>10, ReadsAs

(* So a log gives the target, if it was written far enough.                  *)
LEMMA LogReads ==
  ASSUME NEW l \in Logs
  PROVE  ParseMigrateTargetFromLog(LogText(l)) =
           IF l.written > Len(l.before) THEN <<l.target>> ELSE NoTarget
<1>1. /\ l.target \in Nodes /\ l.names \in {"sentence", "unquoted", "option", "title"}
      /\ l.before \in BoundedSeq(Preambles, MaxLines) /\ l.after \in BoundedSeq(Reports, MaxReports)
      /\ l.written \in Nat
  BY DEF Logs
<1>2. PICK X, before, after, line, count :
        /\ X = Seq(LogAlphabet) /\ before = l.before /\ after = l.after
        /\ line = NamingLine(l.names, l.target) /\ count = l.written
  OBVIOUS
<1>3. before \in Seq(Preambles) /\ after \in Seq(Reports) /\ line \in X
  <2>1. before \in Seq(Preambles)
    BY <1>1, <1>2, BoundedIsSeq
  <2>2. after \in Seq(Reports)
    BY <1>1, <1>2, BoundedIsSeq
  <2>3. line \in X
    BY <1>1, <1>2, NamingText
  <2> QED BY <2>1, <2>2, <2>3
<1>4. before \in Seq(X) /\ after \in Seq(X) /\ <<line>> \in Seq(X)
  <2>1. Preambles \subseteq X /\ Reports \subseteq X
    BY <1>2, PreambleText, ReportText
  <2>2. <<line>> \in Seq(X)
    BY <1>3
  <2> QED BY <1>3, <2>1, <2>2
<1>5. PICK lines : lines = before \o <<line>> \o after
  OBVIOUS
<1>6. PICK c : c = Len(before)
  OBVIOUS
<1>7. /\ lines \in Seq(X) /\ c \in Nat /\ c + 1 <= Len(lines) /\ Len(lines) \in Nat
      /\ \A k \in 1..c : lines[k] \in Preambles
      /\ lines[c + 1] = line
  <2>1. PICK one, head : one = <<line>> /\ head = before \o one
    OBVIOUS
  <2>2. Len(one) = 1 /\ one[1] = line /\ one \in Seq(X)
    BY <1>4, <2>1
  <2>3. head \in Seq(X) /\ TwoParts(head, before, one)
    BY <1>4, <2>1, <2>2, ConcatParts
  <2>4. lines = head \o after
    BY <1>5, <2>1, Zenon
  <2>5. lines \in Seq(X) /\ TwoParts(lines, head, after)
    BY <1>4, <2>3, <2>4, ConcatParts
  <2>6. c \in Nat /\ Len(after) \in Nat /\ \A k \in 1..c : before[k] \in Preambles
    BY <1>3, <1>6, ElementOfSeq
  <2>7. Len(head) = c + 1 /\ head[c + 1] = line /\ \A k \in 1..c : head[k] = before[k]
    BY <1>6, <2>2, <2>3, <2>6 DEF TwoParts
  <2>8. Len(lines) = c + 1 + Len(after) /\ \A k \in 1..c + 1 : lines[k] = head[k]
    BY <2>5, <2>7 DEF TwoParts
  <2>9. c + 1 \in 1..c + 1 /\ \A k \in 1..c : k \in 1..c + 1
    BY <2>6
  <2> QED BY <2>5, <2>6, <2>7, <2>8, <2>9
<1>8. PICK n : n = IF count < Len(lines) THEN count ELSE Len(lines)
  OBVIOUS
<1>9. n \in Nat /\ n <= Len(lines) /\ (n > c <=> count > c)
  BY <1>1, <1>2, <1>7, <1>8
<1>10. PICK some : some = [i \in 1..n |-> lines[i]]
  OBVIOUS
<1>11. some \in Seq(X) /\ Len(some) = n /\ \A k \in 1..n : some[k] = lines[k]
  <2>1. \A k \in 1..n : k \in 1..Len(lines)
    BY <1>7, <1>9
  <2>2. \A k \in 1..n : lines[k] \in X
    BY <1>7, <2>1, ElementOfSeq
  <2>3. some \in [1..n -> X]
    BY <1>10, <2>2
  <2> QED BY <1>9, <1>10, <2>3
<1>12. PICK text : text = FlattenSeq(some)
  OBVIOUS
<1>13. LogText(l) = text
  BY <1>2, <1>5, <1>8, <1>10, <1>12, Zenon DEF LogText
<1>14. CASE n = 0
  <2>1. some = <<>>
    BY <1>11, <1>14, EmptySeq
  <2>2. text = <<>>
    BY <1>12, <2>1 DEF FlattenSeq
  <2>3. text \in Seq(LogAlphabet) /\ \A i \in 1..Len(text) : MatchAt(text, i) = NoTarget
    BY <2>2
  <2>4. ParseMigrateTargetFromLog(text) = NoTarget
    BY <2>3, ReadsAsNothing
  <2>5. ~(count > c)
    BY <1>7, <1>9, <1>14
  <2> QED BY <1>2, <1>6, <1>13, <2>4, <2>5, Zenon
<1>15. CASE n # 0
  <2>1. some # <<>>
    BY <1>11, <1>15
  <2>2. PICK o : text \in Seq(LogAlphabet) /\ IsText(text, some, n, o)
    BY <1>2, <1>11, <1>12, <2>1, LinesOfText
  <2>3. \A k \in 1..n : Len(some[k]) \in Nat
    <3>1. \A k \in 1..n : some[k] \in X
      BY <1>11, ElementOfSeq
    <3> QED BY <1>2, <3>1
  <2>4. CASE count > c
    <3>1. c < n /\ c \in 0..n /\ c + 1 \in 1..n /\ \A k \in 1..c : k \in 1..n
      BY <1>7, <1>9, <2>4
    <3>2. some[c + 1] = NamingLine(l.names, l.target) /\ \A k \in 1..c : some[k] \in Preambles
      BY <1>2, <1>7, <1>11, <3>1
    <3>3. ParseMigrateTargetFromLog(text) = <<l.target>>
      BY <1>1, <1>9, <2>2, <2>3, <3>1, <3>2, NamingTextRead
    <3> QED BY <1>2, <1>6, <1>13, <2>4, <3>3, Zenon
  <2>5. CASE ~(count > c)
    <3>1. n \in 0..n /\ \A k \in 1..n : some[k] \in Preambles
      <4>1. \A k \in 1..n : k \in 1..c
        BY <1>7, <1>9, <2>5
      <4> QED BY <1>7, <1>9, <1>11, <4>1
    <3>2. \A i \in 1..o[n] : MatchAt(text, i) = NoTarget
      BY <1>9, <2>2, <2>3, <3>1, PreamblesRead
    <3>3. o[n] = Len(text)
      BY <2>2 DEF IsText
    <3>4. ParseMigrateTargetFromLog(text) = NoTarget
      BY <2>2, <3>2, <3>3, ReadsAsNothing
    <3> QED BY <1>2, <1>6, <1>13, <2>5, <3>4, Zenon
  <2> QED BY <2>4, <2>5
<1> QED BY <1>14, <1>15

(* Of several files one has the name: it is what is found, if not too deep.  *)
LEMMA FindsOwn ==
  ASSUME NEW files, NEW upid, NEW own \in files, Last(own) \in {upid, Front(upid)},
         \A f \in files \ {own} : Last(f) \notin {upid, Front(upid)}
  PROVE  FindLogFile(files, upid) = IF Dirs(own) \in 0..3 THEN {own} ELSE {}
<1> DEFINE Places(name, depths) == {f \in files : Last(f) = name /\ Dirs(f) \in depths}
<1>1. PICK trimmed, d : trimmed = Front(upid) /\ d = Dirs(own)
  OBVIOUS
<1>2. ASSUME NEW name \in {upid, trimmed}, NEW D
      PROVE  Places(name, D) = IF Last(own) = name /\ d \in D THEN {own} ELSE {}
  BY <1>1
<1> DEFINE tries == << Places(upid, {0}), Places(trimmed, {0}),
                       Places(upid, {1}), Places(trimmed, {1}),
                       Places(upid, 0..3) \cup Places(trimmed, 0..3) >>
<1>3. PICK a1, a2, a3, a4, a5 : /\ a1 = Places(upid, {0}) /\ a2 = Places(trimmed, {0})
                                /\ a3 = Places(upid, {1}) /\ a4 = Places(trimmed, {1})
                                /\ a5 = Places(upid, 0..3) \cup Places(trimmed, 0..3)
  OBVIOUS
<1>4. /\ a1 = {} \/ (a1 = {own} /\ d = 0)
      /\ a2 = {} \/ (a2 = {own} /\ d = 0)
      /\ a3 = {} \/ (a3 = {own} /\ d = 1)
      /\ a4 = {} \/ (a4 = {own} /\ d = 1)
      /\ a5 = IF d \in 0..3 THEN {own} ELSE {}
  <2>1. \A D : /\ Places(upid, D) = IF Last(own) = upid /\ d \in D THEN {own} ELSE {}
               /\ Places(trimmed, D) = IF Last(own) = trimmed /\ d \in D THEN {own} ELSE {}
    BY <1>2
  <2>2. Last(own) = upid \/ Last(own) = trimmed
    BY <1>1
  <2> HIDE DEF Places
  <2> QED BY <1>3, <2>1, <2>2
<1>5. PICK t : t = <<a1, a2, a3, a4, a5>>
  OBVIOUS
<1>6. Len(t) = 5 /\ t[1] = a1 /\ t[2] = a2 /\ t[3] = a3 /\ t[4] = a4 /\ t[5] = a5
  BY <1>5
<1> DEFINE I == {i \in 1..Len(t) : t[i] # {}}
           first == IF I # {} THEN Min(I) ELSE 0
<1>7. FindLogFile(files, upid) = IF first = 0 THEN {} ELSE t[first]
  <2>1. tries = t
    BY <1>3, <1>5, Zenon
  <2> HIDE DEF tries, Places
  <2>2. SelectInSeq(t, LAMBDA places : places # {}) = first
    BY DEF SelectInSeq
  <2> QED BY <1>1, <2>1, <2>2, Zenon DEF FindLogFile, tries, Places
<1>8. \A i \in 1..5 : i = 1 \/ i = 2 \/ i = 3 \/ i = 4 \/ i = 5
  OBVIOUS
<1>9. CASE d \in 0..3
  <2>1. \A i \in I : t[i] = {own}
    BY <1>4, <1>6, <1>8
  <2>2. 5 \in I
    BY <1>4, <1>6, <1>9
  <2>3. Min(I) \in I
    <3>1. I \subseteq Nat /\ I # {}
      BY <1>6, <2>2
    <3> HIDE DEF I
    <3> QED BY <3>1, LeastIn
  <2>4. first # 0 /\ first \in I
    BY <1>6, <2>2, <2>3, SMTT(30)
  <2> QED BY <1>1, <1>7, <1>9, <2>1, <2>4
<1>10. CASE d \notin 0..3
  <2>1. I = {}
    BY <1>4, <1>6, <1>8, <1>10
  <2> QED BY <1>1, <1>7, <1>10, <2>1
<1> QED BY <1>9, <1>10

\* A path of dirs directories and a name.
Path(dirs, name) == [i \in 1..dirs |-> "dir"] \o <<name>>

(* What it ends with, and how deep it is.                                    *)
LEMMA PathIs ==
  ASSUME NEW dirs \in Nat, NEW name
  PROVE  Last(Path(dirs, name)) = name /\ Dirs(Path(dirs, name)) = dirs
<1>1. PICK A, up, one, path : /\ A = {"dir", name} /\ up = [i \in 1..dirs |-> "dir"]
                              /\ one = <<name>> /\ path = up \o one
  OBVIOUS
<1>2. up \in Seq(A) /\ Len(up) = dirs
  <2>1. up \in [1..dirs -> A]
    BY <1>1
  <2> QED BY <1>1, <2>1
<1>3. one \in Seq(A) /\ Len(one) = 1 /\ one[1] = name
  BY <1>1
<1>4. TwoParts(path, up, one)
  BY <1>1, <1>2, <1>3, ConcatParts
<1>5. Len(path) = dirs + 1 /\ path[dirs + 1] = name
  BY <1>2, <1>3, <1>4 DEF TwoParts
<1>6. Path(dirs, name) = path
  BY <1>1, Zenon DEF Path
<1> QED BY <1>5, <1>6 DEF Last, Dirs

(* The names of logs are told apart.                                         *)
LEMMA NamesDiffer ==
  /\ Front(Own) = <<"own">>
  /\ <<"other", ":">> \notin {Own, <<"own">>}
  /\ Own \o <<"own">> \notin {Own, <<"own">>}
  /\ <<"own", "er">> \notin {Own, <<"own">>}
<1>1. Len(Own) = 2 /\ Own[1] = "own" /\ Own[2] = ":" /\ Own \in Seq({"own", ":"})
  BY DEF Own
<1>2. PICK f, o : f = Front(Own) /\ o = <<"own">>
  OBVIOUS
<1>3. o \in Seq({"own", ":"}) /\ Len(o) = 1 /\ o[1] = "own"
  BY <1>2
<1>4. f \in Seq({"own", ":"}) /\ Len(f) = 1 /\ f[1] = "own"
  <2>1. f = SubSeq(Own, 1, 1)
    BY <1>1, <1>2 DEF Front
  <2>2. \A k \in 1..1 : Own[k] \in {"own", ":"}
    BY <1>1
  <2>3. /\ f \in Seq({"own", ":"}) /\ Len(f) = 1 - 1 + 1
        /\ \A k \in 1..1 - 1 + 1 : f[k] = Own[1 + k - 1]
    BY <2>1, <2>2, SubSeqProperties
  <2> QED BY <1>1, <2>3
<1>5. f = o
  BY <1>3, <1>4, SeqEqual
<1>6. PICK other, owner, more :
        other = <<"other", ":">> /\ owner = <<"own", "er">> /\ more = Own \o o
  OBVIOUS
<1>7. other[1] = "other" /\ Len(owner) = 2 /\ owner[2] = "er"
  BY <1>6
<1>8. Len(more) = 3
  <2>1. TwoParts(Own \o o, Own, o)
    BY <1>1, <1>3, ConcatParts
  <2> QED BY <1>1, <1>3, <1>6, <2>1 DEF TwoParts
<1>9. other \notin {Own, o}
  BY <1>1, <1>3, <1>7
<1>10. owner \notin {Own, o}
  BY <1>1, <1>3, <1>7
<1>11. more \notin {Own, o}
  <2>1. PICK two : two = Own
    OBVIOUS
  <2>2. Len(two) = 2
    BY <1>1, <2>1
  <2>3. more # two /\ more # o
    BY <1>3, <1>8, <2>2
  <2> QED BY <2>1, <2>3
<1> QED BY <1>2, <1>5, <1>6, <1>9, <1>10, <1>11, Zenon

(* So the log of the task is found among others, and gives the target.       *)
LEMMA LogsRead ==
  ASSUME input \in Logs PROVE LogTargetIsParsed
<1> SUFFICES MigrateTargetFromTaskLog(LogFiles(input), Own) =
               {IF input.written > Len(input.before) /\ input.dirs <= 3
                  THEN <<input.target>> ELSE NoTarget}
  BY DEF LogTargetIsParsed
<1>1. input.dirs \in Nat
  BY DEF Logs
<1>2. PICK d, name : d = input.dirs /\ name = IF input.colon THEN Own ELSE Front(Own)
  OBVIOUS
<1>3. PICK own, a, b, c, files, told :
        /\ own = Path(d, name) /\ a = Path(d, <<"other", ":">>) /\ b = << Own \o <<"own">> >>
        /\ c = << <<"own", "er">> >> /\ files = {a, b, c} \cup {own}
        /\ told = [f \in files |-> IF f = own THEN LogText(input)
                                              ELSE NamingLine("sentence", "local")]
  OBVIOUS
<1>4. LogFiles(input) = told
  BY <1>2, <1>3, Zenon DEF LogFiles, Path
<1>5. name \in {Own, Front(Own)} /\ Last(own) = name /\ Dirs(own) = d /\ own \in files
  <2>1. Last(own) = name /\ Dirs(own) = d
    BY <1>1, <1>2, <1>3, PathIs
  <2> QED BY <1>2, <1>3, <2>1
<1>6. \A f \in files \ {own} : Last(f) \notin {Own, Front(Own)}
  <2>1. Last(a) = <<"other", ":">>
    BY <1>1, <1>2, <1>3, PathIs
  <2>2. Last(b) = Own \o <<"own">> /\ Last(c) = <<"own", "er">>
    <3>1. PICK x, y : x = Own \o <<"own">> /\ y = <<"own", "er">>
      OBVIOUS
    <3>2. b = <<x>> /\ c = <<y>>
      BY <1>3, <3>1, Zenon
    <3>3. Last(b) = x /\ Last(c) = y
      BY <3>2 DEF Last
    <3> QED BY <3>1, <3>3, Zenon
  <2>3. /\ Last(a) \notin {Own, Front(Own)} /\ Last(b) \notin {Own, Front(Own)}
        /\ Last(c) \notin {Own, Front(Own)}
    BY <2>1, <2>2, NamesDiffer, Zenon
  <2>4. \A f \in files \ {own} : f = a \/ f = b \/ f = c
    BY <1>3
  <2> QED BY <2>3, <2>4, Zenon
<1>7. FindLogFile(files, Own) = IF d \in 0..3 THEN {own} ELSE {}
  BY <1>5, <1>6, FindsOwn
<1>8. DOMAIN told = files /\ told[own] = LogText(input)
  BY <1>3, <1>5
<1>9. d \in 0..3 <=> d <= 3
  BY <1>1, <1>2
<1>10. PICK text, found : text = LogText(input) /\ found = ParseMigrateTargetFromLog(text)
  OBVIOUS
<1>11. found = IF input.written > Len(input.before) THEN <<input.target>> ELSE NoTarget
  BY <1>10, LogReads
<1>12. MigrateTargetFromTaskLog(told, Own) = IF d <= 3 THEN {found} ELSE {NoTarget}
  <2>1. CASE d <= 3
    <3>1. FindLogFile(DOMAIN told, Own) = {own}
      BY <1>7, <1>8, <1>9, <2>1
    <3>2. MigrateTargetFromTaskLog(told, Own) =
            {ParseMigrateTargetFromLog(told[f]) : f \in {own}}
      BY <3>1 DEF MigrateTargetFromTaskLog
    <3>3. \A f \in {own} : ParseMigrateTargetFromLog(told[f]) = found
      BY <1>8, <1>10
    <3> QED BY <2>1, <3>2, <3>3
  <2>2. CASE ~(d <= 3)
    <3>1. FindLogFile(DOMAIN told, Own) = {}
      BY <1>7, <1>8, <1>9, <2>2
    <3> QED BY <2>2, <3>1 DEF MigrateTargetFromTaskLog
  <2> QED BY <2>1, <2>2
<1> QED BY <1>2, <1>4, <1>11, <1>12
-----------------------------------------------------------------------------
(* Configs: entries and sections                                             *)

(* What a text is cut into first that has a separator in its second place.   *)
LEMMA FirstCut ==
  ASSUME NEW A, NEW text \in Seq(A), NEW sep, Len(text) >= 2, text[2] = sep, text[1] # sep
  PROVE  Split(text, sep)[1] = SubSeq(text, 1, 1)
<1> DEFINE ends == {0, Len(text) + 1} \cup {i \in DOMAIN text : text[i] = sep}
           End(k) == CHOOSE i \in ends : Cardinality({j \in ends : j < i}) = k
<1>1. PICK n : n = Len(text)
  OBVIOUS
<1>2. n \in Nat /\ n >= 2 /\ DOMAIN text = 1..n
  BY <1>1
<1>3. PICK E : E = ends
  OBVIOUS
<1>4. /\ E \subseteq 0..n + 1 /\ 0 \in E /\ 2 \in E /\ 1 \notin E
  BY <1>1, <1>2, <1>3
<1>5. IsFiniteSet(E)
  <2>1. \A s \in E : s <= n + 1
    BY <1>2, <1>4
  <2>2. E \in SUBSET Nat /\ n + 1 \in Nat
    BY <1>2, <1>4
  <2> QED BY <2>1, <2>2, FS_BoundedSetOfNaturals
<1>6. Cardinality({}) = 0 /\ Cardinality({0}) = 1
  BY FS_EmptySet, FS_Singleton
<1>7. Cardinality({0, 2}) = 2
  <2>1. {0, 2} = {0} \cup {2} /\ 2 \notin {0}
    OBVIOUS
  <2>3. IsFiniteSet({0})
    BY FS_Singleton
  <2>2. Cardinality({0} \cup {2}) = Cardinality({0}) + 1
    BY <2>1, <2>3, FS_AddElement
  <2>4. Cardinality({0} \cup {2}) = 1 + 1 /\ 1 + 1 = 2
    BY <1>6, <2>2
  <2> QED BY <2>1, <2>4, Zenon
<1>8. \A S \in SUBSET E : IsFiniteSet(S) /\ Cardinality(S) \in Nat
  BY <1>5, FS_Subset, FS_CardinalityType
<1>9. \A S \in SUBSET E : {0, 2} \subseteq S => Cardinality(S) >= 2
  <2> TAKE S \in SUBSET E
  <2> SUFFICES ASSUME {0, 2} \subseteq S PROVE Cardinality(S) >= 2
    OBVIOUS
  <2>1. Cardinality({0, 2}) <= Cardinality(S)
    BY <1>8, FS_Subset
  <2> QED BY <1>7, <1>8, <2>1
<1>10. {j \in E : j < 0} = {} /\ {j \in E : j < 2} = {0}
  <2>1. \A j \in E : j \in Nat /\ j # 1
    BY <1>4
  <2>2. \A j \in E : ~(j < 0) /\ (j < 2 <=> j = 0)
    BY <2>1
  <2>3. {j \in E : j < 0} = {}
    BY <2>2
  <2>4. {j \in E : j < 2} = {0}
    BY <1>4, <2>2
  <2> QED BY <2>3, <2>4
<1>11. \A i \in E : i # 0 /\ i # 2 => Cardinality({j \in E : j < i}) >= 2
  <2> TAKE i \in E
  <2> SUFFICES ASSUME i # 0, i # 2 PROVE Cardinality({j \in E : j < i}) >= 2
    OBVIOUS
  <2>1. i \in Nat /\ i > 2
    BY <1>4
  <2>2. {0, 2} \subseteq {j \in E : j < i}
    BY <1>4, <2>1
  <2> QED BY <1>9, <2>2
<1>12. (CHOOSE i \in E : Cardinality({j \in E : j < i}) = 0) = 0
  <2>1. ASSUME NEW i \in E, Cardinality({j \in E : j < i}) = 0 PROVE i = 0
    <3>1. i # 2
      BY <1>6, <1>10, <2>1
    <3> QED BY <1>11, <2>1, <3>1
  <2>2. Cardinality({j \in E : j < 0}) = 0
    BY <1>6, <1>10
  <2> QED BY <1>4, <2>1, <2>2
<1>13. (CHOOSE i \in E : Cardinality({j \in E : j < i}) = 1) = 2
  <2>1. ASSUME NEW i \in E, Cardinality({j \in E : j < i}) = 1 PROVE i = 2
    <3>1. i # 0
      BY <1>6, <1>10, <2>1
    <3> QED BY <1>11, <2>1, <3>1
  <2>2. Cardinality({j \in E : j < 2}) = 1
    BY <1>6, <1>10
  <2> QED BY <1>4, <2>1, <2>2
<1>14. 1 \in 1..Cardinality(ends) - 1
  <2>1. Cardinality(E) >= 2 /\ Cardinality(E) \in Nat
    BY <1>4, <1>8, <1>9
  <2> QED BY <1>3, <2>1
<1>15. Split(text, sep) = [k \in 1..Cardinality(ends) - 1 |-> SubSeq(text, End(k - 1) + 1, End(k) - 1)]
  BY Zenon DEF Split
<1>16. Split(text, sep)[1] = SubSeq(text, End(1 - 1) + 1, End(1) - 1)
  <2> HIDE DEF ends, End
  <2> QED BY <1>14, <1>15
<1>17. End(1 - 1) + 1 = 1 /\ End(1) - 1 = 1
  <2>1. End(0) = 0 /\ End(1) = 2
    BY <1>3, <1>12, <1>13, Zenon
  <2> HIDE DEF End
  <2>2. 1 - 1 = 0 /\ 0 + 1 = 1 /\ 2 - 1 = 1
    OBVIOUS
  <2> QED BY <2>1, <2>2, Zenon
<1> HIDE DEF End
<1> QED BY <1>16, <1>17, Zenon

(* The beginning of a text of one piece.                                     *)
LEMMA OnePiecePrefix ==
  ASSUME NEW A, NEW line \in Seq(A), NEW p
  PROVE  IsPrefix(<<p>>, line) <=> line # <<>> /\ line[1] = p
<1>1. PICK one, n : one = <<p>> /\ n = Len(line)
  OBVIOUS
<1>2. one \in Seq({p}) /\ Len(one) = 1 /\ one[1] = p /\ n \in Nat
  BY <1>1
<1>3. SubSeq(one, 1, 1) \in Seq({p}) /\ Len(SubSeq(one, 1, 1)) = 1 /\ SubSeq(one, 1, 1)[1] = p
  <2>1. \A k \in 1..1 : one[k] \in {p}
    BY <1>2
  <2>2. /\ SubSeq(one, 1, 1) \in Seq({p}) /\ Len(SubSeq(one, 1, 1)) = 1 - 1 + 1
        /\ \A k \in 1..1 - 1 + 1 : SubSeq(one, 1, 1)[k] = one[1 + k - 1]
    BY <2>1, SubSeqProperties
  <2> QED BY <1>2, <2>2
<1>4. CASE n = 0
  <2>1. line = <<>>
    BY <1>1, <1>4, EmptySeq
  <2>2. ~(Len(one) <= Len(line))
    BY <1>1, <1>2, <1>4
  <2> QED BY <1>1, <2>1, <2>2, Zenon DEF IsPrefix
<1>5. CASE n # 0
  <2>1. line # <<>> /\ 1 \in 1..n /\ Len(one) <= Len(line)
    BY <1>1, <1>2, <1>5
  <2>2. PICK x, first : x = line[1] /\ first = SubSeq(line, 1, 1)
    OBVIOUS
  <2>3. first \in Seq(A) /\ Len(first) = 1 /\ first[1] = x
    <3>1. \A k \in 1..1 : line[k] \in A
      BY <1>1, <2>1, ElementOfSeq
    <3>2. /\ SubSeq(line, 1, 1) \in Seq(A) /\ Len(SubSeq(line, 1, 1)) = 1 - 1 + 1
          /\ \A k \in 1..1 - 1 + 1 : SubSeq(line, 1, 1)[k] = line[1 + k - 1]
      BY <3>1, SubSeqProperties
    <3> QED BY <2>2, <3>2
  <2>4. PICK sub : sub = SubSeq(one, 1, 1)
    OBVIOUS
  <2>5. sub \in Seq({p}) /\ Len(sub) = 1 /\ sub[1] = p
    BY <1>3, <2>4
  <2>6. sub = first <=> x = p
    <3>1. sub = first => x = p
      BY <2>3, <2>5
    <3>2. x = p => sub = first
      BY <2>3, <2>5, SeqEqual
    <3> QED BY <3>1, <3>2
  <2>7. IsPrefix(one, line) <=> sub = first
    BY <1>2, <2>1, <2>2, <2>4 DEF IsPrefix
  <2> QED BY <1>1, <2>1, <2>2, <2>6, <2>7, Zenon
<1> QED BY <1>4, <1>5

\* An entry: its key and its value.
EntryLine(key, value) == <<key, ":">> \o value

(* It is read as that, whatever the value holds.                             *)
LEMMA EntryRead ==
  ASSUME NEW A, NEW value \in Seq(A), NEW key, key # ":"
  PROVE  LET line == EntryLine(key, value)
         IN  /\ line \in Seq(A \cup {key, ":"}) /\ line # <<>> /\ line[1] = key
             /\ Before(line, ":") = <<key>> /\ Before(line, ":") \notin {<<>>, line}
             /\ After(line, ":") = value
<1>1. PICK B, head, line : /\ B = A \cup {key, ":"} /\ head = <<key, ":">>
                           /\ line = head \o value
  OBVIOUS
<1>2. /\ head \in Seq(B) /\ Len(head) = 2 /\ head[1] = key /\ head[2] = ":"
      /\ value \in Seq(B)
  BY <1>1
<1>3. line \in Seq(B) /\ Len(line) \in Nat /\ Len(value) \in Nat /\ TwoParts(line, head, value)
  BY <1>1, <1>2, ConcatParts
<1>4. /\ Len(line) = 2 + Len(value) /\ line[1] = key /\ line[2] = ":"
      /\ \A i \in 1..Len(value) : line[2 + i] = value[i]
  BY <1>2, <1>3 DEF TwoParts
<1>5. Before(line, ":") = <<key>>
  <2>1. Split(line, ":")[1] = SubSeq(line, 1, 1)
    <3>1. PICK sep : sep = ":"
      OBVIOUS
    <3>2. Len(line) >= 2 /\ line[2] = sep /\ line[1] # sep
      BY <1>3, <1>4, <3>1
    <3>3. Split(line, sep)[1] = SubSeq(line, 1, 1)
      BY <1>3, <3>2, FirstCut
    <3> QED BY <3>1, <3>3, Zenon
  <2>2. PICK first, one : first = SubSeq(line, 1, 1) /\ one = <<key>>
    OBVIOUS
  <2>3. first \in Seq(B) /\ Len(first) = 1 /\ first[1] = key
    <3>1. \A k \in 1..1 : line[k] \in B
      BY <1>3, <1>4, ElementOfSeq
    <3>2. /\ SubSeq(line, 1, 1) \in Seq(B) /\ Len(SubSeq(line, 1, 1)) = 1 - 1 + 1
          /\ \A k \in 1..1 - 1 + 1 : SubSeq(line, 1, 1)[k] = line[1 + k - 1]
      BY <3>1, SubSeqProperties
    <3> QED BY <1>4, <2>2, <3>2
  <2>4. one \in Seq(B) /\ Len(one) = 1 /\ one[1] = key
    BY <1>1, <2>2
  <2>5. first = one
    BY <2>3, <2>4, SeqEqual
  <2> QED BY <2>1, <2>2, <2>5, Zenon DEF Before
<1>6. PICK one : one = <<key>>
  OBVIOUS
<1>7. Len(one) = 1 /\ one # <<>> /\ one # line
  BY <1>3, <1>4, <1>6
<1>8. After(line, ":") = value
  <2>1. After(line, ":") = SubSeq(line, 1 + 2, Len(line))
    BY <1>5, <1>6, <1>7 DEF After
  <2>2. PICK m, n, rest : m = 1 + 2 /\ n = Len(line) /\ rest = SubSeq(line, m, n)
    OBVIOUS
  <2>3. \A k \in m..n : line[k] \in B
    <3>1. \A k \in m..n : k \in 1..Len(line)
      BY <1>3, <2>2
    <3> QED BY <1>3, <3>1, ElementOfSeq
  <2>4. /\ rest \in Seq(B) /\ Len(rest) = (IF m <= n THEN n - m + 1 ELSE 0)
        /\ \A k \in 1..n - m + 1 : rest[k] = line[m + k - 1]
    BY <1>3, <2>2, <2>3, SubSeqProperties
  <2>5. m = 3 /\ n = 2 + Len(value)
    BY <1>4, <2>2
  <2>6. Len(rest) = Len(value)
    BY <1>3, <2>4, <2>5
  <2>7. \A k \in 1..Len(value) : rest[k] = value[k]
    <3> TAKE k \in 1..Len(value)
    <3>1. k \in 1..n - m + 1 /\ m + k - 1 = 2 + k
      BY <1>3, <2>5
    <3> QED BY <1>4, <2>4, <3>1
  <2>8. rest = value
    BY <1>2, <2>4, <2>6, <2>7, SeqEqual
  <2> QED BY <2>1, <2>2, <2>8, Zenon
<1>9. EntryLine(key, value) = line /\ line # <<>>
  BY <1>1, <1>3, <1>4 DEF EntryLine
<1>10. /\ line \in Seq(B) /\ line # <<>> /\ line[1] = key /\ Before(line, ":") = one
       /\ Before(line, ":") \notin {<<>>, line} /\ After(line, ":") = value
  BY <1>3, <1>4, <1>5, <1>6, <1>7, <1>8, <1>9, Zenon
<1> QED BY <1>1, <1>6, <1>9, <1>10, Zenon

\* Whether a line gives a value of one of the keys.
Gives(line, keys) == IsEntry(line) /\ Before(line, ":") \in {<<k>> : k \in keys}

(* What a file gives is the value of the last line that gives one.           *)
LEMMA ValueOfIs ==
  ASSUME NEW lines, NEW keys
  PROVE  LET I == {i \in 1..Len(lines) : Gives(lines[i], keys)}
         IN  ValueOf(lines, keys) = IF I = {} THEN <<>> ELSE
               IF Max(I) = 0 THEN <<>> ELSE After(lines[Max(I)], ":")
<1> DEFINE I == {i \in 1..Len(lines) : Gives(lines[i], keys)}
           last == IF I # {} THEN Max(I) ELSE 0
<1>1. ValueOf(lines, keys) = IF last = 0 THEN <<>> ELSE After(lines[last], ":")
  BY DEF ValueOf, SelectLastInSeq, Gives
<1> HIDE DEF I
<1>2. ValueOf(lines, keys) = IF I = {} THEN <<>> ELSE
                               IF Max(I) = 0 THEN <<>> ELSE After(lines[Max(I)], ":")
  BY <1>1
<1> QED BY <1>2 DEF I

(* Without an entry there is no value.                                       *)
LEMMA NoValue ==
  ASSUME NEW lines, NEW keys, \A i \in 1..Len(lines) : ~Gives(lines[i], keys)
  PROVE  ValueOf(lines, keys) = <<>>
<1>1. {i \in 1..Len(lines) : Gives(lines[i], keys)} = {}
  OBVIOUS
<1> QED BY <1>1, ValueOfIs

(* Of entries that are all the same, the value is theirs.                    *)
LEMMA OneValue ==
  ASSUME NEW lines, Len(lines) \in Nat, NEW keys, NEW line,
         \A i \in 1..Len(lines) : Gives(lines[i], keys) => lines[i] = line,
         \E i \in 1..Len(lines) : lines[i] = line,
         Gives(line, keys)
  PROVE  ValueOf(lines, keys) = After(line, ":")
<1>1. PICK n, I : n = Len(lines) /\ I = {i \in 1..Len(lines) : Gives(lines[i], keys)}
  OBVIOUS
<1>2. I \in SUBSET (1..n) /\ I # {} /\ \A i \in I : lines[i] = line
  BY <1>1
<1>3. Max(I) \in I
  BY <1>1, <1>2, GreatestIn
<1>4. Max(I) # 0 /\ lines[Max(I)] = line
  <2>1. PICK m : m = Max(I)
    OBVIOUS
  <2>2. m \in 1..n /\ lines[m] = line
    BY <1>2, <1>3, <2>1
  <2>3. m # 0
    BY <2>2
  <2> QED BY <2>1, <2>2, <2>3
<1>5. ValueOf(lines, keys) = IF I = {} THEN <<>> ELSE
                               IF Max(I) = 0 THEN <<>> ELSE After(lines[Max(I)], ":")
  BY <1>1, ValueOfIs
<1> QED BY <1>2, <1>4, <1>5

\* lines are those of head, and perhaps empty ones behind them.
Begins(lines, head) ==
  /\ Len(lines) \in Nat /\ Len(head) \in Nat /\ Len(head) <= Len(lines)
  /\ \A i \in 1..Len(head) : lines[i] = head[i]
  /\ \A i \in Len(head) + 1..Len(lines) : lines[i] = <<>>

(* Without a section the first one is the whole file.                        *)
LEMMA NoSection ==
  ASSUME NEW G, NEW head \in Seq(G), \A line \in G : ~IsSection(line)
  PROVE  Begins(DefaultSection(head), head)
<1>1. \A i \in 1..Len(head) : ~IsSection(head[i])
  BY ElementOfSeq
<1>2. DOMAIN head = 1..Len(head) /\ Len(head) \in Nat
  OBVIOUS
<1>3. DefaultSection(head) = head
  BY <1>1, <1>2 DEF DefaultSection
<1>4. Begins(head, head)
  BY <1>2 DEF Begins
<1> QED BY <1>3, <1>4

(* With one, it is what is above it.                                         *)
LEMMA SectionCut ==
  ASSUME NEW G, NEW head \in Seq(G), \A line \in G : ~IsSection(line), ~IsSection(<<>>),
         NEW B, NEW rest \in Seq(B), Len(rest) >= 2, rest[1] = <<>>, IsSection(rest[2])
  PROVE  Begins(DefaultSection(head \o rest), head)
<1>1. PICK lines, n, N : lines = head \o rest /\ n = Len(head) /\ N = Len(lines)
  OBVIOUS
<1>2. /\ lines \in Seq(G \cup B) /\ n \in Nat /\ N \in Nat /\ n + 2 <= N
      /\ \A i \in 1..n : lines[i] = head[i]
      /\ lines[n + 1] = <<>> /\ lines[n + 2] = rest[2]
  <2>1. head \in Seq(G \cup B) /\ rest \in Seq(G \cup B)
    BY SeqMonotonic
  <2>2. lines \in Seq(G \cup B) /\ TwoParts(lines, head, rest)
    BY <1>1, <2>1, ConcatParts
  <2>3. /\ N = n + Len(rest) /\ Len(rest) \in Nat /\ n \in Nat
        /\ \A i \in 1..n : lines[i] = head[i]
        /\ \A i \in 1..Len(rest) : lines[n + i] = rest[i]
    BY <1>1, <2>2 DEF TwoParts
  <2>4. 1 \in 1..Len(rest) /\ 2 \in 1..Len(rest) /\ n + 2 <= N
    BY <2>3
  <2>5. lines[n + 1] = rest[1] /\ lines[n + 2] = rest[2] /\ rest[1] = <<>>
    BY <2>3, <2>4
  <2> QED BY <1>1, <2>2, <2>3, <2>4, <2>5
<1>3. PICK I : I = {i \in 1..N : IsSection(lines[i])}
  OBVIOUS
<1>4. n + 2 \in I /\ \A i \in I : n + 2 <= i
  <2>1. n + 2 \in I
    BY <1>2, <1>3
  <2>2. \A i \in 1..n : head[i] \in G
    BY <1>1, ElementOfSeq
  <2>3. \A i \in 1..n + 1 : ~IsSection(lines[i])
    <3>1. \A i \in 1..n + 1 : i \in 1..n \/ i = n + 1
      BY <1>2
    <3> QED BY <1>2, <2>2, <3>1
  <2> QED BY <1>2, <1>3, <2>1, <2>3
<1>5. Min(I) = n + 2
  <2>1. \A x \in I : (\A y \in I : x <= y) => x = n + 2
    <3>1. \A x \in I : x \in Nat
      BY <1>3
    <3> QED BY <1>2, <1>4, <3>1
  <2> QED BY <1>4, <2>1 DEF Min
<1>6. SelectInSeq(lines, IsSection) = n + 2
  <2>1. SelectInSeq(lines, IsSection) = IF I # {} THEN Min(I) ELSE 0
    BY <1>1, <1>3 DEF SelectInSeq
  <2> QED BY <1>4, <1>5, <2>1
<1>7. PICK own : own = SubSeq(lines, 1, n + 1)
  OBVIOUS
<1>8. DefaultSection(lines) = own
  <2>1. n + 2 \in DOMAIN lines /\ IsSection(lines[n + 2]) /\ (n + 2) - 1 = n + 1
    BY <1>1, <1>2, <1>3, <1>4
  <2> QED BY <1>6, <1>7, <2>1 DEF DefaultSection
<1>9. own \in Seq(G \cup B) /\ Len(own) = n + 1 /\ \A i \in 1..n + 1 : own[i] = lines[i]
  <2>1. \A i \in 1..n + 1 : i \in 1..Len(lines)
    BY <1>1, <1>2
  <2>2. \A i \in 1..n + 1 : lines[i] \in G \cup B
    BY <1>2, <2>1, ElementOfSeq
  <2>3. PICK m : m = n + 1
    OBVIOUS
  <2>4. /\ own \in Seq(G \cup B) /\ Len(own) = (IF 1 <= m THEN m - 1 + 1 ELSE 0)
        /\ \A i \in 1..m - 1 + 1 : own[i] = lines[1 + i - 1]
    <3>1. 1 \in Int /\ m \in Int /\ \A i \in 1..m : lines[i] \in G \cup B
      BY <1>2, <2>2, <2>3
    <3> QED BY <1>2, <1>7, <2>3, <3>1, SubSeqProperties
  <2>5. m \in Nat /\ m >= 1 /\ m - 1 + 1 = m /\ \A i \in 1..m : 1 + i - 1 = i
    BY <1>2, <2>3
  <2> QED BY <2>3, <2>4, <2>5
<1>10. Begins(own, head)
  <2>1. \A i \in 1..n : i \in 1..n + 1
    BY <1>2
  <2>2. \A i \in n + 1..n + 1 : i = n + 1 /\ i \in 1..n + 1
    BY <1>2
  <2> QED BY <1>1, <1>2, <1>9, <2>1, <2>2 DEF Begins
<1> QED BY <1>1, <1>8, <1>10

\* The lines of an entry: one, or none if the value is empty.
EntryLines(key, value) == IF value = <<>> THEN {} ELSE {EntryLine(key, value)}

(* That is what an entry is written as.                                      *)
LEMMA ListsEntry ==
  ASSUME NEW key, NEW value PROVE Lists(Entry(key, value), EntryLines(key, value))
<1>1. CASE value = <<>>
  <2>1. Entry(key, value) = <<>> /\ EntryLines(key, value) = {}
    BY <1>1 DEF Entry, EntryLines
  <2> QED BY <2>1, ListsNothing
<1>2. CASE value # <<>>
  <2>1. PICK line : line = EntryLine(key, value)
    OBVIOUS
  <2>2. Entry(key, value) = <<line>> /\ EntryLines(key, value) = {line}
    <3>1. Entry(key, value) = << EntryLine(key, value) >>
      BY <1>2, Zenon DEF Entry, EntryLine
    <3>2. EntryLines(key, value) = {EntryLine(key, value)}
      BY <1>2, Zenon DEF EntryLines
    <3> QED BY <2>1, <3>1, <3>2, Zenon
  <2>3. Lists(<<line>>, {line})
    BY ListsOne
  <2> QED BY <2>2, <2>3
<1> QED BY <1>1, <1>2

\* The line of a network device.
NetLine     == <<"net0", ":", "mac", ":", "m">>

\* A comment that looks like an entry.
CommentLine == <<"#", "name", ":", "x">>

\* The part of a file that a section is.
SectionPart(key, name, hookscript, tags) ==
  Entry("hookscript", hookscript) \o Entry(key, name) \o <<NetLine>> \o Entry("tags", tags)

\* Its lines.
SectionLines(key, name, hookscript, tags) ==
  EntryLines("hookscript", hookscript) \cup EntryLines(key, name) \cup {NetLine}
    \cup EntryLines("tags", tags)

(* A section is written as these.                                            *)
LEMMA ListsSection ==
  ASSUME NEW key, NEW name, NEW hookscript, NEW tags
  PROVE  Lists(SectionPart(key, name, hookscript, tags),
               SectionLines(key, name, hookscript, tags))
<1>1. PICK h, n, w, t : /\ h = Entry("hookscript", hookscript) /\ n = Entry(key, name)
                        /\ w = <<NetLine>> /\ t = Entry("tags", tags)
  OBVIOUS
<1>2. PICK H, N, W, T : /\ H = EntryLines("hookscript", hookscript) /\ N = EntryLines(key, name)
                        /\ W = {NetLine} /\ T = EntryLines("tags", tags)
  OBVIOUS
<1>3. Lists(h, H) /\ Lists(n, N) /\ Lists(w, W) /\ Lists(t, T)
  BY <1>1, <1>2, ListsEntry, ListsOne
<1>4. Lists(h \o n, H \cup N)
  BY <1>3, ListsBoth
<1>5. Lists(h \o n \o w, H \cup N \cup W)
  BY <1>3, <1>4, ListsBoth
<1>6. Lists(h \o n \o w \o t, H \cup N \cup W \cup T)
  BY <1>3, <1>5, ListsBoth
<1> QED BY <1>1, <1>2, <1>6, Zenon DEF SectionPart, SectionLines

(* What an entry gives.                                                      *)
LEMMA EntryGives ==
  ASSUME NEW A, NEW value \in Seq(A), NEW key, key # ":", key # "#", NEW keys
  PROVE  Gives(EntryLine(key, value), keys) <=> key \in keys
<1>1. PICK line : line = EntryLine(key, value)
  OBVIOUS
<1>2. /\ line \in Seq(A \cup {key, ":"}) /\ line # <<>> /\ line[1] = key
      /\ Before(line, ":") = <<key>> /\ Before(line, ":") \notin {<<>>, line}
  BY <1>1, EntryRead
<1>3. ~IsPrefix(<<"#">>, line)
  BY <1>2, OnePiecePrefix
<1>4. IsEntry(line)
  BY <1>2, <1>3 DEF IsEntry
<1>5. \A k : <<k>> = <<key>> <=> k = key
  OBVIOUS
<1>6. <<key>> \in {<<k>> : k \in keys} <=> key \in keys
  BY <1>5
<1> QED BY <1>1, <1>2, <1>4, <1>6, Zenon DEF Gives

(* An empty line gives nothing.                                              *)
LEMMA EmptyGives ==
  ASSUME NEW keys PROVE ~Gives(<<>>, keys)
<1>1. PICK P, t : P = {":", "#"} /\ t = <<>>
  OBVIOUS
<1>2. t \in Seq(P \ {":"}) /\ ":" \in P
  BY <1>1
<1>3. Split(t, ":") = <<t>>
  <2>1. PICK texts : texts = <<t>>
    OBVIOUS
  <2>2. texts \in Seq(Seq(P \ {":"})) /\ texts # <<>>
    <3>1. PICK X : X = Seq(P \ {":"})
      OBVIOUS
    <3>2. t \in X
      BY <1>2, <3>1
    <3> QED BY <2>1, <3>1, <3>2
  <2>3. Split(Join(texts, ":"), ":") = texts
    BY <1>2, <2>2, SplitUndoesJoin
  <2>4. Join(texts, ":") = t
    BY <2>1, JoinOne
  <2> QED BY <2>1, <2>3, <2>4
<1>4. Before(t, ":") = t
  BY <1>3 DEF Before
<1> QED BY <1>1, <1>4 DEF Gives, IsEntry

(* Nor does a comment.                                                       *)
LEMMA CommentGives ==
  ASSUME NEW keys PROVE ~Gives(CommentLine, keys)
<1>1. PICK line : line = CommentLine
  OBVIOUS
<1>2. line \in Seq({"#", "name", ":", "x"}) /\ line # <<>> /\ line[1] = "#"
  BY <1>1 DEF CommentLine
<1>3. IsPrefix(<<"#">>, line)
  BY <1>2, OnePiecePrefix
<1> QED BY <1>1, <1>3 DEF Gives, IsEntry

(* A network device is an entry of its own.                                  *)
LEMMA NetLineIs == EntryLine("net0", <<"mac", ":", "m">>) = NetLine
<1>1. PICK B, v, head, e, n :
        /\ B = {"net0", ":", "mac", "m"} /\ v = <<"mac", ":", "m">> /\ head = <<"net0", ":">>
        /\ e = head \o v /\ n = NetLine
  OBVIOUS
<1>2. v \in Seq(B) /\ Len(v) = 3 /\ v[1] = "mac" /\ v[2] = ":" /\ v[3] = "m"
  BY <1>1
<1>3. head \in Seq(B) /\ Len(head) = 2 /\ head[1] = "net0" /\ head[2] = ":"
  BY <1>1
<1>4. /\ n \in Seq(B) /\ Len(n) = 5 /\ n[1] = "net0" /\ n[2] = ":"
      /\ n[3] = "mac" /\ n[4] = ":" /\ n[5] = "m"
  BY <1>1 DEF NetLine
<1>5. e \in Seq(B) /\ TwoParts(e, head, v)
  BY <1>1, <1>2, <1>3, ConcatParts
<1>6. /\ Len(e) = 5 /\ e[1] = head[1] /\ e[2] = head[2]
      /\ e[3] = v[1] /\ e[4] = v[2] /\ e[5] = v[3]
  <2>1. /\ Len(e) = 2 + 3 /\ \A i \in 1..2 : e[i] = head[i]
        /\ \A i \in 1..3 : e[2 + i] = v[i]
    BY <1>2, <1>3, <1>5 DEF TwoParts
  <2> QED BY <2>1
<1>7. \A i \in 1..5 : e[i] = n[i]
  <2>1. \A i \in 1..5 : i = 1 \/ i = 2 \/ i = 3 \/ i = 4 \/ i = 5
    OBVIOUS
  <2> QED BY <1>2, <1>3, <1>4, <1>6, <2>1
<1>8. e = n
  BY <1>4, <1>5, <1>6, <1>7, SeqEqual
<1> QED BY <1>1, <1>8, Zenon DEF EntryLine

(* Which lines begin a section.                                              *)
LEMMA Sections ==
  /\ ~IsSection(<<>>) /\ ~IsSection(CommentLine) /\ ~IsSection(NetLine)
  /\ IsSection(<<"[", "snap", "]">>)
  /\ \A A, key : \A value \in Seq(A) : key # ":" /\ key # "[" => ~IsSection(EntryLine(key, value))
<1>1. PICK e, c, n, s : /\ e = <<>> /\ c = CommentLine /\ n = NetLine
                        /\ s = <<"[", "snap", "]">>
  OBVIOUS
<1>2. e \in Seq({"m"}) /\ e = <<>>
  BY <1>1
<1>3. c \in Seq({"#", "name", ":", "x"}) /\ c[1] = "#"
  BY <1>1 DEF CommentLine
<1>4. n \in Seq({"net0", ":", "mac", "m"}) /\ n[1] = "net0"
  BY <1>1 DEF NetLine
<1>5. s \in Seq({"[", "snap", "]"}) /\ s[1] = "[" /\ s # <<>>
  BY <1>1
<1>6. ~IsSection(e)
  BY <1>2, OnePiecePrefix DEF IsSection
<1>7. ~IsSection(c)
  BY <1>3, OnePiecePrefix DEF IsSection
<1>8. ~IsSection(n)
  BY <1>4, OnePiecePrefix DEF IsSection
<1>9. IsSection(s)
  BY <1>5, OnePiecePrefix DEF IsSection
<1>10. ASSUME NEW A, NEW key, NEW value \in Seq(A), key # ":", key # "["
       PROVE  ~IsSection(EntryLine(key, value))
  <2>1. PICK line : line = EntryLine(key, value)
    OBVIOUS
  <2>2. line \in Seq(A \cup {key, ":"}) /\ line[1] = key
    BY <1>10, <2>1, EntryRead
  <2>3. ~IsSection(line)
    BY <1>10, <2>2, OnePiecePrefix DEF IsSection
  <2> QED BY <2>1, <2>3
<1> QED BY <1>1, <1>6, <1>7, <1>8, <1>9, <1>10, Zenon

(* The value of a key is the one that the lines above the first section      *)
(* give.                                                                     *)
LEMMA ConfigValue ==
  ASSUME NEW own, NEW head, NEW G, Lists(head, G), Begins(own, head),
         NEW A, NEW value \in Seq(A), NEW key, key # ":", key # "#", NEW keys, key \in keys,
         \A x \in G : Gives(x, keys) => x \in EntryLines(key, value),
         EntryLines(key, value) \subseteq G
  PROVE  ValueOf(own, keys) = value
<1>1. PICK line, n : line = EntryLine(key, value) /\ n = Len(own)
  OBVIOUS
<1>2. Gives(line, keys) /\ After(line, ":") = value
  BY <1>1, EntryGives, EntryRead
<1>3. /\ n \in Nat /\ Len(head) \in Nat /\ Len(head) <= n
      /\ \A i \in 1..Len(head) : own[i] = head[i] /\ i \in 1..n
      /\ \A i \in Len(head) + 1..n : own[i] = <<>>
  BY <1>1 DEF Begins
<1>4. \A i \in 1..n : own[i] \in G \/ own[i] = <<>>
  <2> TAKE i \in 1..n
  <2>1. i \in 1..Len(head) \/ i \in Len(head) + 1..n
    BY <1>3
  <2>2. \A j \in 1..Len(head) : head[j] \in G
    BY ElementOfSeq DEF Lists
  <2> QED BY <1>3, <2>1, <2>2
<1>5. \A i \in 1..n : Gives(own[i], keys) => own[i] \in EntryLines(key, value)
  BY <1>4, EmptyGives
<1>6. CASE value = <<>>
  <2>1. EntryLines(key, value) = {}
    BY <1>6 DEF EntryLines
  <2>2. \A i \in 1..Len(own) : ~Gives(own[i], keys)
    BY <1>1, <1>5, <2>1
  <2> QED BY <1>6, <2>2, NoValue
<1>7. CASE value # <<>>
  <2>1. EntryLines(key, value) = {line}
    BY <1>1, <1>7 DEF EntryLines
  <2>2. \A i \in 1..Len(own) : Gives(own[i], keys) => own[i] = line
    BY <1>1, <1>5, <2>1
  <2>3. \E i \in 1..Len(own) : own[i] = line
    <3>1. PICK i \in 1..Len(head) : head[i] = line
      BY <2>1 DEF Lists
    <3> QED BY <1>1, <1>3, <3>1
  <2>4. Len(own) \in Nat
    BY <1>1, <1>3
  <2>5. ValueOf(own, keys) = After(line, ":")
    BY <1>2, <2>2, <2>3, <2>4, OneValue
  <2> QED BY <1>2, <2>5
<1> QED BY <1>6, <1>7

\* The line above a section: a comment, or none.
CommentLines(there) == IF there THEN {CommentLine} ELSE {}

\* As a part of the file.
CommentPart(there)  == IF there THEN <<CommentLine>> ELSE <<>>

(* The comment is written as that line.                                      *)
LEMMA ListsComment ==
  ASSUME NEW there PROVE Lists(CommentPart(there), CommentLines(there))
BY ListsNothing, ListsOne DEF CommentPart, CommentLines

\* What a config begins with.
OwnPart(c) == CommentPart(c.comment)
                \o SectionPart(c.nameKey, c.name, c.hookscript, Join(c.tags, c.separator))

\* The lines of that part.
OwnLines(c) == CommentLines(c.comment)
                 \cup SectionLines(c.nameKey, c.name, c.hookscript, Join(c.tags, c.separator))

\* The part of a file that a snapshot is.
SnapshotPart(value, key) ==
  << <<>>, <<"[", "snap", "]">> >> \o SectionPart(key, value, value, value)

\* What follows the first part.
SnapshotsPart(c) ==
  FlattenSeq([i \in DOMAIN c.snapshots |-> SnapshotPart(c.snapshots[i], c.nameKey)])

(* A config is these two parts.                                              *)
LEMMA FileIs ==
  ASSUME NEW c PROVE File(c) = OwnPart(c) \o SnapshotsPart(c)
BY Zenon DEF File, OwnPart, SnapshotsPart, SnapshotPart, SectionPart, CommentPart,
             NetLine, CommentLine

\* The lines that a snapshot with one of the values may have.
SnapshotLines(key) ==
  {<<>>, <<"[", "snap", "]">>} \cup
  UNION {SectionLines(key, value, value, value) : value \in Values}

(* A snapshot begins with an empty line and the header of a section.         *)
LEMMA SnapshotPartIs ==
  ASSUME NEW key, NEW value \in Values, NEW part, part = SnapshotPart(value, key)
  PROVE  /\ part \in Seq(SnapshotLines(key)) /\ Len(part) \in Nat /\ Len(part) >= 2
         /\ part[1] = <<>> /\ IsSection(part[2])
<1>1. PICK h, head, more, L, B : /\ h = <<"[", "snap", "]">> /\ head = << <<>>, h>>
                                 /\ more = SectionPart(key, value, value, value)
                                 /\ L = SectionLines(key, value, value, value)
                                 /\ B = SnapshotLines(key)
  OBVIOUS
<1>2. more \in Seq(L)
  BY <1>1, ListsSection DEF Lists
<1>3. L \subseteq B /\ <<>> \in B /\ h \in B
  BY <1>1 DEF SnapshotLines
<1>4. head \in Seq(B) /\ Len(head) = 2 /\ head[1] = <<>> /\ head[2] = h
  BY <1>1, <1>3
<1>5. more \in Seq(B)
  BY <1>2, <1>3, SeqMonotonic
<1>6. part = head \o more
  BY <1>1, Zenon DEF SnapshotPart
<1>7. part \in Seq(B) /\ TwoParts(part, head, more) /\ Len(more) \in Nat
  BY <1>4, <1>5, <1>6, ConcatParts
<1>8. Len(part) = 2 + Len(more) /\ \A i \in 1..2 : part[i] = head[i]
  BY <1>4, <1>7 DEF TwoParts
<1>9. Len(part) \in Nat /\ Len(part) >= 2 /\ part[1] = <<>> /\ part[2] = h
  BY <1>4, <1>7, <1>8
<1>10. IsSection(part[2])
  BY <1>1, <1>9, Sections, Zenon
<1> QED BY <1>1, <1>7, <1>9, <1>10

(* What follows the first part of a config: nothing, or the header of a      *)
(* section, that of the first snapshot.                                      *)
LEMMA SnapshotsAre ==
  ASSUME NEW c, c.snapshots \in Seq(Values)
  PROVE  \/ SnapshotsPart(c) = <<>>
         \/ \E B : /\ SnapshotsPart(c) \in Seq(B) /\ Len(SnapshotsPart(c)) >= 2
                   /\ SnapshotsPart(c)[1] = <<>> /\ IsSection(SnapshotsPart(c)[2])
<1>1. PICK s, key, n, B : /\ s = c.snapshots /\ key = c.nameKey /\ n = Len(s)
                          /\ B = SnapshotLines(key)
  OBVIOUS
<1>2. PICK parts : parts = [i \in DOMAIN s |-> SnapshotPart(s[i], key)]
  OBVIOUS
<1>3. PICK text : text = SnapshotsPart(c)
  OBVIOUS
<1>4. text = FlattenSeq(parts)
  BY <1>1, <1>2, <1>3, Zenon DEF SnapshotsPart
<1>5. n \in Nat /\ DOMAIN s = 1..n /\ \A i \in 1..n : s[i] \in Values
  BY <1>1, ElementOfSeq
<1>6. CASE n = 0
  <2>1. DOMAIN s = {}
    BY <1>5, <1>6
  <2>2. parts = <<>>
    <3>1. parts = [i \in {} |-> SnapshotPart(s[i], key)]
      BY <1>2, <2>1
    <3> QED BY <3>1
  <2>3. FlattenSeq(parts) = <<>>
    BY <2>2 DEF FlattenSeq
  <2> QED BY <1>3, <1>4, <2>3
<1>7. CASE n # 0
  <2>1. PICK X : X = Seq(B)
    OBVIOUS
  <2>2. \A i \in 1..n : /\ parts[i] \in X /\ Len(parts[i]) \in Nat /\ Len(parts[i]) >= 2
                        /\ parts[i][1] = <<>> /\ IsSection(parts[i][2])
    <3> TAKE i \in 1..n
    <3>1. PICK part, value : part = parts[i] /\ value = s[i]
      OBVIOUS
    <3>2. part = SnapshotPart(value, key) /\ value \in Values
      BY <1>2, <1>5, <3>1
    <3>3. /\ part \in Seq(SnapshotLines(key)) /\ Len(part) \in Nat /\ Len(part) >= 2
          /\ part[1] = <<>> /\ IsSection(part[2])
      BY <3>2, SnapshotPartIs
    <3> QED BY <1>1, <2>1, <3>1, <3>3, Zenon
  <2>3. parts \in Seq(X) /\ Len(parts) = n
    <3>1. \A i \in 1..n : parts[i] \in X
      BY <2>2
    <3>2. parts = [i \in 1..n |-> SnapshotPart(s[i], key)]
      BY <1>2, <1>5, Zenon
    <3>3. DOMAIN parts = 1..n /\ parts = [i \in 1..n |-> parts[i]]
      BY <3>2
    <3>4. parts \in [1..n -> X]
      BY <3>1, <3>3, Zenon
    <3> QED BY <1>5, <3>4, SeqOfLength
  <2>4. parts # <<>>
    BY <1>5, <1>7, <2>3
  <2>5. PICK o : text \in Seq(B) /\ IsText(text, parts, n, o)
    BY <1>4, <2>1, <2>3, <2>4, LinesOfText
  <2>6. PICK part : part = parts[1]
    OBVIOUS
  <2>7. 1 \in 1..n /\ 1 - 1 = 0
    BY <1>5, <1>7
  <2>8. LineAt(text, 0, part)
    <3>1. o[0] = 0 /\ LineAt(text, o[1 - 1], parts[1])
      BY <2>5, <2>7 DEF IsText
    <3> QED BY <2>6, <2>7, <3>1
  <2>9. /\ Len(part) \in Nat /\ Len(part) >= 2 /\ part[1] = <<>> /\ IsSection(part[2])
    BY <2>2, <2>6, <2>7
  <2>10. 0 + Len(part) <= Len(text) /\ \A j \in 1..Len(part) : text[0 + j] = part[j]
    BY <2>8 DEF LineAt
  <2>11. Len(text) >= 2 /\ text[1] = part[1] /\ text[2] = part[2]
    <3>1. Len(text) \in Nat
      BY <2>5
    <3>2. 1 \in 1..Len(part) /\ 2 \in 1..Len(part) /\ 0 + 1 = 1 /\ 0 + 2 = 2
      BY <2>9
    <3>3. text[0 + 1] = part[1] /\ text[0 + 2] = part[2]
      BY <2>10, <3>2
    <3>4. Len(text) >= 2
      BY <2>9, <2>10, <3>1
    <3> QED BY <3>2, <3>3, <3>4
  <2>12. text[1] = <<>> /\ IsSection(text[2])
    BY <2>9, <2>11, Zenon
  <2> QED BY <1>3, <2>5, <2>11, <2>12, Zenon
<1> QED BY <1>6, <1>7

(* The first part is written as its lines.                                   *)
LEMMA ListsOwn ==
  ASSUME NEW c PROVE Lists(OwnPart(c), OwnLines(c))
BY ListsComment, ListsSection, ListsBoth DEF OwnPart, OwnLines

(* The default section of a config is its first part.                        *)
LEMMA OwnSection ==
  ASSUME NEW c, c.snapshots \in Seq(Values),
         \A line \in OwnLines(c) : ~IsSection(line)
  PROVE  Begins(DefaultSection(File(c)), OwnPart(c))
<1>1. PICK head, G, rest : head = OwnPart(c) /\ G = OwnLines(c) /\ rest = SnapshotsPart(c)
  OBVIOUS
<1>2. head \in Seq(G) /\ \A line \in G : ~IsSection(line)
  BY <1>1, ListsOwn DEF Lists
<1>3. File(c) = head \o rest
  BY <1>1, FileIs
<1>4. CASE rest = <<>>
  <2>1. head \o rest = head
    BY <1>2, <1>4, ConcatEmptySeq
  <2> QED BY <1>1, <1>2, <1>3, <2>1, NoSection
<1>5. CASE rest # <<>>
  <2>1. PICK B : /\ rest \in Seq(B) /\ Len(rest) >= 2
                 /\ rest[1] = <<>> /\ IsSection(rest[2])
    BY <1>1, <1>5, SnapshotsAre
  <2>2. ~IsSection(<<>>)
    BY Sections
  <2>3. Begins(DefaultSection(head \o rest), head)
    BY <1>2, <2>1, <2>2, SectionCut
  <2> QED BY <1>1, <1>3, <2>3
<1> QED BY <1>4, <1>5
-----------------------------------------------------------------------------
(* Configs: tags                                                             *)

\* A tag is a word of one piece.
Tags == {v \in Values : Len(v) = 1}

\* A value in which all separators are white space.
Alike(value) ==
  [i \in DOMAIN value |-> IF value[i] \in Separators THEN Blank ELSE value[i]]

(* The tags are the fields of that value that are not empty.                 *)
LEMMA TagsOf ==
  ASSUME NEW value, NEW words, Split(Alike(value), Blank) = words, NEW kept,
         kept = [i \in DOMAIN words |-> IF words[i] = <<>> THEN <<>> ELSE <<words[i]>>]
  PROVE  SplitTags(value) = FlattenSeq(kept)
BY Zenon DEF SplitTags, Alike

(* No tags.                                                                  *)
LEMMA TagsNone == SplitTags(<<>>) = <<>>
<1>1. PICK P, t, texts, X : P = {Blank} /\ t = <<>> /\ texts = <<t>> /\ X = Seq(P \ {Blank})
  OBVIOUS
<1>2. t \in X /\ Blank \in P
  BY <1>1
<1>3. texts \in Seq(X) /\ texts # <<>> /\ Join(texts, Blank) = t
  BY <1>1, <1>2, JoinOne
<1>4. Split(t, Blank) = texts
  BY <1>1, <1>2, <1>3, SplitUndoesJoin
<1>5. Alike(t) = t
  <2>1. DOMAIN t = {}
    BY <1>1
  <2> QED BY <1>1, <2>1 DEF Alike
<1>6. [i \in DOMAIN texts |-> IF texts[i] = <<>> THEN <<>> ELSE <<texts[i]>>] = << <<>> >>
  BY <1>1
<1>7. SplitTags(t) = FlattenSeq(<< <<>> >>)
  <2>1. Split(Alike(t), Blank) = texts
    BY <1>4, <1>5, Zenon
  <2>2. PICK kept : kept = << <<>> >>
    OBVIOUS
  <2>3. kept = [i \in DOMAIN texts |-> IF texts[i] = <<>> THEN <<>> ELSE <<texts[i]>>]
    BY <1>6, <2>2, Zenon
  <2>4. SplitTags(t) = FlattenSeq(kept)
    BY <2>1, <2>3, TagsOf, Zenon
  <2> QED BY <2>2, <2>4, Zenon
<1>8. FlattenSeq(<< <<>> >>) = <<>>
  BY FlattenOne
<1> QED BY <1>1, <1>7, <1>8, Zenon

(* A tag holds no separator.                                                 *)
LEMMA TagIs ==
  ASSUME NEW t \in Tags
  PROVE  /\ Len(t) = 1 /\ t[1] \notin Separators /\ t # <<>>
         /\ \A P : t[1] \in P => t \in Seq(P)
<1>1. Len(t) = 1 /\ t \in Seq(Range(t)) /\ t[1] \notin Separators
  BY ParsersAssumption DEF Tags
<1>2. PICK x : x = t[1]
  OBVIOUS
<1>3. DOMAIN t = {1} /\ t # <<>>
  BY <1>1, SMTT(30)
<1>4. ASSUME NEW P, x \in P PROVE t \in Seq(P)
  <2>1. t \in [1..1 -> P]
    <3>1. DOMAIN t = 1..1 /\ t = [i \in DOMAIN t |-> t[i]]
      BY <1>1, <1>3
    <3>2. \A i \in 1..1 : t[i] \in P
      BY <1>2, <1>4
    <3>3. t = [i \in 1..1 |-> t[i]]
      BY <3>1, Zenon
    <3> QED BY <3>2, <3>3
  <2>2. 1 \in Nat
    OBVIOUS
  <2> QED BY <2>1, <2>2, SeqOfLength
<1> QED BY <1>1, <1>2, <1>3, <1>4

(* White space is a separator.                                               *)
LEMMA BlankSeparates == Blank \in Separators
BY Zenon DEF Separators

(* Words without a separator are split again, whatever separates them.       *)
LEMMA WordsRead ==
  ASSUME NEW W, W \cap Separators = {}, NEW sep \in Separators,
         NEW tags \in Seq(Seq(W)), tags # <<>>, \A i \in 1..Len(tags) : tags[i] # <<>>
  PROVE  /\ SplitTags(Join(tags, sep)) = tags
         /\ Join(tags, sep) \in Seq(W \cup {sep})
<1>1. PICK P, R, n, text, alike, X :
        /\ P = W \cup {sep} /\ R = W \cup {sep, Blank} /\ n = Len(tags)
        /\ text = Join(tags, sep) /\ alike = Alike(text) /\ X = Seq(W)
  OBVIOUS
<1>2. n \in Nat /\ DOMAIN tags = 1..n /\ \A i \in 1..n : tags[i] \in X
  BY <1>1, ElementOfSeq
<1>3. P \ {sep} = W /\ sep \in P
  BY <1>1
<1>4. PICK e : MarksFields(tags, sep, P, e)
  BY <1>3, FieldsOfJoin
<1>5. /\ text \in Seq(P) /\ Marks(text, sep, n, e)
      /\ \A k \in 1..n : SubSeq(text, e[k - 1] + 1, e[k] - 1) = tags[k]
  BY <1>1, <1>4, Zenon DEF MarksFields
<1>6. /\ Len(text) \in Nat /\ DOMAIN text = 1..Len(text)
      /\ \A i \in 1..Len(text) : text[i] \in P
  BY <1>5, ElementOfSeq
<1>7. /\ DOMAIN alike = 1..Len(text)
      /\ \A i \in 1..Len(text) : alike[i] = IF text[i] \in Separators THEN Blank ELSE text[i]
  BY <1>1, <1>6 DEF Alike
<1>8. \A i \in 1..Len(text) : IF text[i] = sep THEN alike[i] = Blank
                              ELSE alike[i] = text[i] /\ alike[i] # Blank
  <2> TAKE i \in 1..Len(text)
  <2>1. text[i] # sep => text[i] \in W
    BY <1>1, <1>6
  <2>2. text[i] # sep => text[i] \notin Separators
    BY <2>1
  <2> QED BY <1>7, <2>2, BlankSeparates
<1>9. alike \in Seq(R) /\ Len(alike) = Len(text) /\ text \in Seq(R)
  <2>1. \A i \in 1..Len(text) : alike[i] \in R
    BY <1>1, <1>6, <1>8
  <2>2. alike = [i \in DOMAIN alike |-> alike[i]]
    BY <1>1 DEF Alike
  <2>3. alike \in [1..Len(text) -> R]
    BY <1>7, <2>1, <2>2
  <2>4. P \subseteq R
    BY <1>1
  <2> QED BY <1>5, <1>6, <2>3, <2>4, SeqOfLength, SeqMonotonic
<1>10. /\ n \in Nat \ {0} /\ e \in [0..n -> Nat] /\ e[0] = 0 /\ e[n] = Len(text) + 1
       /\ \A i \in 0..n, j \in 0..n : i < j => e[i] < e[j]
       /\ \A i \in 1..Len(text) : text[i] = sep <=> \E k \in 1..n - 1 : i = e[k]
  BY <1>5, <1>6, Zenon DEF Marks
<1>11. Marks(alike, Blank, n, e)
  <2>1. \A i \in 1..Len(text) : alike[i] = Blank <=> \E k \in 1..n - 1 : i = e[k]
    BY <1>8, <1>10, Zenon
  <2> QED BY <1>7, <1>9, <1>10, <2>1, Zenon DEF Marks
<1>12. ASSUME NEW k \in 1..n PROVE SubSeq(alike, e[k - 1] + 1, e[k] - 1) = tags[k]
  <2>1. PICK a, b : a = e[k - 1] /\ b = e[k]
    OBVIOUS
  <2>2. k - 1 \in 0..n /\ k \in 0..n /\ k - 1 < k /\ n \in 0..n /\ (k = n \/ k < n)
    BY <1>2
  <2>3. a \in Nat /\ b \in Nat /\ a < b /\ b <= Len(text) + 1
    BY <1>6, <1>10, <2>1, <2>2
  <2>4. \A i \in a + 1..b - 1 : i \in 1..Len(text)
    BY <1>6, <2>3
  <2>5. \A i \in a + 1..b - 1 : text[i] # sep
    <3> SUFFICES ASSUME NEW i \in a + 1..b - 1, text[i] = sep PROVE FALSE
      OBVIOUS
    <3>1. PICK j \in 1..n - 1 : i = e[j]
      BY <1>10, <2>4
    <3>2. j \in 0..n /\ (j <= k - 1 \/ k <= j)
      BY <1>2
    <3>3. j = k - 1 \/ j < k - 1 \/ j = k \/ k < j
      BY <1>2, <3>2
    <3>4. a < e[j] /\ e[j] < b /\ e[j] \in Nat
      BY <2>3, <3>1
    <3>5. CASE j = k - 1
      BY <2>1, <2>3, <3>4, <3>5
    <3>6. CASE j < k - 1
      <4>1. e[j] < a
        BY <1>10, <2>1, <2>2, <3>2, <3>6
      <4> QED BY <2>3, <3>4, <4>1
    <3>7. CASE j = k
      BY <2>1, <2>3, <3>4, <3>7
    <3>8. CASE k < j
      <4>1. b < e[j]
        BY <1>10, <2>1, <2>2, <3>2, <3>8
      <4> QED BY <2>3, <3>4, <4>1
    <3> QED BY <3>3, <3>5, <3>6, <3>7, <3>8
  <2>6. PICK x, y : x = a + 1 /\ y = b - 1
    OBVIOUS
  <2>7. /\ x \in Nat /\ y \in Int
        /\ \A i \in x..y : i \in 1..Len(alike) /\ i \in 1..Len(text) /\ alike[i] = text[i]
    BY <1>8, <1>9, <2>3, <2>4, <2>5, <2>6
  <2>8. SubSeq(alike, x, y) = SubSeq(text, x, y)
    BY <1>9, <2>7, SubSeqSame
  <2> QED BY <1>5, <2>1, <2>6, <2>8, Zenon
<1>13. Split(alike, Blank) = tags
  <2>1. Split(alike, Blank) = [k \in 1..n |-> SubSeq(alike, e[k - 1] + 1, e[k] - 1)]
    BY <1>9, <1>11, SplitAtMarks
  <2>2. [k \in 1..n |-> SubSeq(alike, e[k - 1] + 1, e[k] - 1)] = [k \in 1..n |-> tags[k]]
    BY <1>12
  <2>3. tags = [k \in 1..n |-> tags[k]]
    BY <1>1, <1>2
  <2> QED BY <2>1, <2>2, <2>3, Zenon
<1>14. SplitTags(text) = FlattenSeq(Singles(tags))
  <2>1. PICK kept : kept = Singles(tags)
    OBVIOUS
  <2>2. \A i \in DOMAIN tags : tags[i] # <<>>
    BY <1>1, <1>2
  <2>3. kept = [i \in DOMAIN tags |-> IF tags[i] = <<>> THEN <<>> ELSE <<tags[i]>>]
    BY <2>1, <2>2 DEF Singles
  <2>4. Split(Alike(text), Blank) = tags
    BY <1>1, <1>13, Zenon
  <2>5. SplitTags(text) = FlattenSeq(kept)
    BY <2>3, <2>4, TagsOf, Zenon
  <2> QED BY <2>1, <2>5, Zenon
<1>15. FlattenSeq(Singles(tags)) = tags
  BY FlattenSingles
<1> QED BY <1>1, <1>5, <1>14, <1>15, Zenon

(* The value of the tags is split into them, however many there are.         *)
LEMMA TagsRead ==
  ASSUME NEW tags \in Seq(Tags), NEW sep \in Separators
  PROVE  /\ SplitTags(Join(tags, sep)) = tags
         /\ \E A : Join(tags, sep) \in Seq(A)
<1>1. CASE tags = <<>>
  <2>1. [i \in DOMAIN tags |-> IF i = 1 THEN tags[1] ELSE <<sep>> \o tags[i]] = <<>>
    BY <1>1
  <2>2. FlattenSeq(<<>>) = <<>>
    BY DEF FlattenSeq
  <2>3. Join(tags, sep) = <<>>
    BY <2>1, <2>2, Zenon DEF Join
  <2>4. <<>> \in Seq({})
    OBVIOUS
  <2> QED BY <1>1, <2>3, <2>4, TagsNone, Zenon
<1>2. CASE tags # <<>>
  <2>1. PICK W : W = {t[1] : t \in Tags}
    OBVIOUS
  <2>2. W \cap Separators = {}
    BY <2>1, TagIs
  <2>3. Tags \subseteq Seq(W)
    <3> SUFFICES ASSUME NEW t \in Tags PROVE t \in Seq(W)
      OBVIOUS
    <3>1. t[1] \in W
      BY <2>1
    <3> QED BY <3>1, TagIs
  <2>4. tags \in Seq(Seq(W))
    BY <2>3, SeqMonotonic
  <2>5. \A i \in 1..Len(tags) : tags[i] # <<>>
    <3>1. \A i \in 1..Len(tags) : tags[i] \in Tags
      BY ElementOfSeq
    <3> QED BY <3>1, TagIs
  <2>6. /\ SplitTags(Join(tags, sep)) = tags
        /\ Join(tags, sep) \in Seq(W \cup {sep})
    BY <1>2, <2>2, <2>4, <2>5, WordsRead
  <2> QED BY <2>6
<1> QED BY <1>1, <1>2
-----------------------------------------------------------------------------
(* Each line of the first part gives the value of its key, and begins no     *)
(* section.                                                                  *)
LEMMA OwnLinesGive ==
  ASSUME NEW c, NEW A, c.name \in Seq(A), c.hookscript \in Seq(A),
         NEW tags, tags = Join(c.tags, c.separator), tags \in Seq(A),
         c.nameKey \in {"name", "hostname"}, NEW x \in OwnLines(c)
  PROVE  /\ ~IsSection(x)
         /\ Gives(x, {"name", "hostname"}) => x \in EntryLines(c.nameKey, c.name)
         /\ Gives(x, {"hookscript"}) => x \in EntryLines("hookscript", c.hookscript)
         /\ Gives(x, {"tags"}) => x \in EntryLines("tags", tags)
<1>1. PICK key, name, hook : key = c.nameKey /\ name = c.name /\ hook = c.hookscript
  OBVIOUS
<1>2. PICK names, hooks, tag : names = {"name", "hostname"} /\ hooks = {"hookscript"} /\ tag = {"tags"}
  OBVIOUS
<1>3. \/ x = CommentLine \/ x = NetLine \/ x \in EntryLines("hookscript", hook)
      \/ x \in EntryLines(key, name) \/ x \in EntryLines("tags", tags)
  BY <1>1 DEF OwnLines, SectionLines, CommentLines
<1>4. \A k, v : x \in EntryLines(k, v) => x = EntryLine(k, v)
  BY DEF EntryLines
<1>5. /\ key \in names /\ key # "tags" /\ key # "hookscript" /\ key # ":" /\ key # "#"
      /\ key # "["
  BY <1>1, <1>2
<1>6. /\ "tags" \notin names /\ "hookscript" \notin names /\ "net0" \notin names
      /\ "tags" \notin hooks /\ key \notin hooks /\ "net0" \notin hooks
      /\ "hookscript" \notin tag /\ key \notin tag /\ "net0" \notin tag
  BY <1>2, <1>5
<1>7. CASE x = CommentLine
  BY <1>7, CommentGives, Sections
<1>8. CASE x = NetLine
  <2>1. PICK v : v = <<"mac", ":", "m">>
    OBVIOUS
  <2>2. v \in Seq({"mac", ":", "m"}) /\ x = EntryLine("net0", v)
    <3>1. v \in Seq({"mac", ":", "m"})
      BY <2>1
    <3>2. x = EntryLine("net0", v)
      BY <1>8, <2>1, NetLineIs, Zenon
    <3> QED BY <3>1, <3>2
  <2>3. "net0" # ":" /\ "net0" # "#"
    OBVIOUS
  <2>4. \A keys : Gives(x, keys) <=> "net0" \in keys
    BY <2>2, <2>3, EntryGives
  <2>5. ~Gives(x, names) /\ ~Gives(x, hooks) /\ ~Gives(x, tag)
    BY <1>6, <2>4, Zenon
  <2>6. ~IsSection(x)
    BY <1>8, Sections, Zenon
  <2> QED BY <1>2, <2>5, <2>6, Zenon
<1>9. CASE x \in EntryLines("hookscript", hook)
  <2>1. x = EntryLine("hookscript", hook)
    BY <1>4, <1>9
  <2>2. "hookscript" # ":" /\ "hookscript" # "#" /\ "hookscript" # "["
    OBVIOUS
  <2>3. \A keys : Gives(x, keys) <=> "hookscript" \in keys
    BY <1>1, <2>1, <2>2, EntryGives
  <2>4. ~Gives(x, names) /\ ~Gives(x, tag)
    BY <1>6, <2>3, Zenon
  <2>5. ~IsSection(x)
    BY <1>1, <2>1, <2>2, Sections
  <2> QED BY <1>1, <1>2, <1>9, <2>4, <2>5, Zenon
<1>10. CASE x \in EntryLines(key, name)
  <2>1. x = EntryLine(key, name)
    BY <1>4, <1>10
  <2>2. \A keys : Gives(x, keys) <=> key \in keys
    BY <1>1, <1>5, <2>1, EntryGives
  <2>3. ~Gives(x, hooks) /\ ~Gives(x, tag)
    BY <1>6, <2>2, Zenon
  <2>4. ~IsSection(x)
    BY <1>1, <1>5, <2>1, Sections
  <2> QED BY <1>1, <1>2, <1>10, <2>3, <2>4, Zenon
<1>11. CASE x \in EntryLines("tags", tags)
  <2>1. x = EntryLine("tags", tags)
    BY <1>4, <1>11
  <2>2. "tags" # ":" /\ "tags" # "#" /\ "tags" # "["
    OBVIOUS
  <2>3. \A keys : Gives(x, keys) <=> "tags" \in keys
    BY <2>1, <2>2, EntryGives
  <2>4. ~Gives(x, names) /\ ~Gives(x, hooks)
    BY <1>6, <2>3, Zenon
  <2>5. ~IsSection(x)
    BY <2>1, <2>2, Sections
  <2> QED BY <1>2, <1>11, <2>4, <2>5, Zenon
<1> QED BY <1>3, <1>7, <1>8, <1>9, <1>10, <1>11

(* So a config is read as what it says of the VM as it is now.               *)
LEMMA ConfigsRead ==
  ASSUME input \in Configs PROVE ConfigReadBack
<1>1. /\ input.name \in Values /\ input.hookscript \in Values
      /\ input.tags \in Seq(Tags) /\ input.separator \in Separators
      /\ input.nameKey \in {"name", "hostname"} /\ input.snapshots \in Seq(Values)
  <2>1. /\ input.name \in Values /\ input.hookscript \in Values
        /\ input.tags \in BoundedSeq(Tags, MaxTags) /\ input.separator \in Separators
        /\ input.nameKey \in {"name", "hostname"}
        /\ input.snapshots \in BoundedSeq(Values, MaxSnapshots)
    BY DEF Configs, Tags
  <2> QED BY <2>1, BoundedIsSeq
<1>2. PICK tags : tags = Join(input.tags, input.separator)
  OBVIOUS
<1>3. SplitTags(tags) = input.tags
  BY <1>1, <1>2, TagsRead
<1>4. PICK B : tags \in Seq(B)
  BY <1>1, <1>2, TagsRead
<1>5. PICK A : input.name \in Seq(A) /\ input.hookscript \in Seq(A) /\ tags \in Seq(A)
  <2>1. PICK A : A = Range(input.name) \cup Range(input.hookscript) \cup B
    OBVIOUS
  <2>2. input.name \in Seq(Range(input.name)) /\ input.hookscript \in Seq(Range(input.hookscript))
    BY <1>1, ParsersAssumption
  <2>3. Range(input.name) \subseteq A /\ Range(input.hookscript) \subseteq A /\ B \subseteq A
    BY <2>1
  <2>4. input.name \in Seq(A) /\ input.hookscript \in Seq(A) /\ tags \in Seq(A)
    BY <1>4, <2>2, <2>3, SeqMonotonic
  <2> QED BY <2>4
<1>6. \A x \in OwnLines(input) :
        /\ ~IsSection(x)
        /\ Gives(x, {"name", "hostname"}) => x \in EntryLines(input.nameKey, input.name)
        /\ Gives(x, {"hookscript"}) => x \in EntryLines("hookscript", input.hookscript)
        /\ Gives(x, {"tags"}) => x \in EntryLines("tags", tags)
  BY <1>1, <1>2, <1>5, OwnLinesGive
<1>7. /\ EntryLines(input.nameKey, input.name) \subseteq OwnLines(input)
      /\ EntryLines("hookscript", input.hookscript) \subseteq OwnLines(input)
      /\ EntryLines("tags", tags) \subseteq OwnLines(input)
  BY <1>2 DEF OwnLines, SectionLines
<1>8. PICK own, head, G : own = DefaultSection(File(input)) /\ head = OwnPart(input) /\ G = OwnLines(input)
  OBVIOUS
<1>9. Lists(head, G) /\ Begins(own, head)
  BY <1>1, <1>6, <1>8, ListsOwn, OwnSection
<1>10. ValueOf(own, {"name", "hostname"}) = input.name
  <2>1. PICK key, keys, value : key = input.nameKey /\ keys = {"name", "hostname"} /\ value = input.name
    OBVIOUS
  <2>2. key # ":" /\ key # "#" /\ key \in keys
    BY <1>1, <2>1
  <2>3. /\ \A x \in G : Gives(x, keys) => x \in EntryLines(key, value)
        /\ EntryLines(key, value) \subseteq G
    BY <1>6, <1>7, <1>8, <2>1, Zenon
  <2>4. value \in Seq(A)
    BY <1>5, <2>1
  <2>5. ValueOf(own, keys) = value
    BY <1>9, <2>2, <2>3, <2>4, ConfigValue
  <2> QED BY <2>1, <2>5, Zenon
<1>11. ValueOf(own, {"hookscript"}) = input.hookscript
  <2>1. PICK key, keys, value : key = "hookscript" /\ keys = {"hookscript"} /\ value = input.hookscript
    OBVIOUS
  <2>2. key # ":" /\ key # "#" /\ key \in keys
    BY <2>1
  <2>3. /\ \A x \in G : Gives(x, keys) => x \in EntryLines(key, value)
        /\ EntryLines(key, value) \subseteq G
    BY <1>6, <1>7, <1>8, <2>1, Zenon
  <2>4. value \in Seq(A)
    BY <1>5, <2>1
  <2>5. ValueOf(own, keys) = value
    BY <1>9, <2>2, <2>3, <2>4, ConfigValue
  <2> QED BY <2>1, <2>5, Zenon
<1>12. ValueOf(own, {"tags"}) = tags
  <2>1. PICK key, keys : key = "tags" /\ keys = {"tags"}
    OBVIOUS
  <2>2. key # ":" /\ key # "#" /\ key \in keys
    BY <2>1
  <2>3. /\ \A x \in G : Gives(x, keys) => x \in EntryLines(key, tags)
        /\ EntryLines(key, tags) \subseteq G
    BY <1>6, <1>7, <1>8, <2>1, Zenon
  <2>4. ValueOf(own, keys) = tags
    BY <1>5, <1>9, <2>2, <2>3, ConfigValue
  <2> QED BY <2>1, <2>4, Zenon
<1>13. ReadVMConfig(File(input)) =
         [name |-> ValueOf(own, {"name", "hostname"}), tags |-> SplitTags(ValueOf(own, {"tags"})),
          description |-> ValueOf(own, {"description"}), hookscript |-> ValueOf(own, {"hookscript"})]
  BY <1>8, Zenon DEF ReadVMConfig
<1>14. PICK config : config = ReadVMConfig(File(input))
  OBVIOUS
<1>15. /\ config.name = input.name /\ config.hookscript = input.hookscript
       /\ config.tags = input.tags
  BY <1>3, <1>10, <1>11, <1>12, <1>13, <1>14
<1> QED BY <1>14, <1>15, Zenon DEF ConfigReadBack
-----------------------------------------------------------------------------
(* Of every command line that migrates the target is found, or the value of  *)
(* an option between the VMID and it; any other command gives what its own   *)
(* options name as a target, or none (enrich.go:144).                        *)
THEOREM TargetsAreParsed == Spec => []TargetIsParsed
<1>1. Inputs => TargetIsParsed
  <2> SUFFICES ASSUME Inputs PROVE TargetIsParsed
    OBVIOUS
  <2>1. Of("migration") =>
          ParseMigrateTarget(Line(input)) \in
            IF input.as = "positional" /\ ValuesBetween(input) # {}
              THEN ValuesBetween(input) ELSE {input.target}
    BY FormsOfInputs, MigrationsRead, Zenon
  <2>2. Of("command") =>
          ParseMigrateTarget(CommandLine(input)) = IF input.as = "none" THEN None ELSE input.target
    BY FormsOfInputs, CommandsRead, Zenon
  <2> QED BY <2>1, <2>2, Zenon DEF TargetIsParsed
<1> QED BY <1>1, InputsStay, PTL

(* Whatever is written before and after it, the line that names the target   *)
(* gives it, if the log goes so far and is where the code looks              *)
(* (enrich.go:158).                                                          *)
THEOREM LogTargetsAreParsed == Spec => []LogTargetIsParsed
<1>1. Inputs => LogTargetIsParsed
  <2> SUFFICES ASSUME Inputs, Of("log") PROVE LogTargetIsParsed
    BY DEF LogTargetIsParsed
  <2> QED BY FormsOfInputs, LogsRead
<1> QED BY <1>1, InputsStay, PTL

(* A config is read as the values that the VM has now, whatever its values   *)
(* hold and whatever snapshots there are (vmconf.go:37).                     *)
THEOREM ConfigsAreReadBack == Spec => []ConfigReadBack
<1>1. Inputs => ConfigReadBack
  <2> SUFFICES ASSUME Inputs, Of("config") PROVE ConfigReadBack
    BY DEF ConfigReadBack
  <2> QED BY FormsOfInputs, ConfigsRead
<1> QED BY <1>1, InputsStay, PTL
=============================================================================
