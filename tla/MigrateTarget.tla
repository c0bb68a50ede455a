--------------------------- MODULE MigrateTarget ---------------------------
(***************************************************************************)
(* parseMigrateTarget of internal/enrich/enrich.go: the target node of a   *)
(* migration, from the arguments of the process that runs it.              *)
(*                                                                         *)
(* An argument is a word, or a word after "key=" or "--key=".  Words are   *)
(* kept apart as far as the code does: programs (by their paths), numbers, *)
(* names (which is how node names, but also other values, look), flags     *)
(* (--vmid=100 among them), --target and the rest.                         *)
(***************************************************************************)
EXTENDS Naturals, Sequences

CONSTANTS
  Names,        \* values that could be the name of a node
  Flags,        \* words that begin with "-", --target left out
  Other         \* words that are neither: other paths, addresses, titles

None == "none"

Programs    == {"qm", "pct"}
Workers     == {"qmigrate", "vzmigrate"}
Numbers     == {"100"}
Keywords    == Programs \cup Workers \cup {"migrate", "--target"}

\* A name begins with no "-" and is no path; nor is a node, a flag or a path
\* called like a command, so that it is told apart from one.
ASSUME TargetAssumption ==
  /\ Names \cap (Flags \cup Other) = {}
  /\ (Names \cup Flags \cup Other) \cap (Keywords \cup Numbers \cup {None}) = {}

Words       == Keywords \cup Numbers \cup Names \cup Flags \cup Other
Keys        == {"target", "vmid", "storage"}

Word(w)     == [key |-> None, word |-> w]
Pair(k, w)  == [key |-> k, word |-> w]
Arguments   == [key : Keys \cup {None}, word : Words]

IsPair(a)   == a.key # None
IsOption(a) == ~IsPair(a) /\ a.word \in Flags \cup {"--target"}

\* Not a number, no leading dash, only letters, digits, "-", "_" and ".".
LooksLikeNode(w) == w \in {"migrate"} \cup Names

\* What the first index in S selects, or None.
FirstOf(S, value(_)) ==
  IF S = {} THEN None
            ELSE value(CHOOSE i \in S : \A j \in S : i <= j)

From(args, i) == SubSeq(args, i, Len(args))

\* parseTargetOption: target=<node>, --target=<node> or --target <node>.
IsTargetPair(args, i) == args[i].key = "target" /\ LooksLikeNode(args[i].word)
IsTargetFlag(args, i) == /\ args[i] = Word("--target")
                         /\ i < Len(args)
                         /\ ~IsPair(args[i + 1]) /\ LooksLikeNode(args[i + 1].word)

TargetOption(args) ==
  FirstOf({i \in DOMAIN args : IsTargetPair(args, i) \/ IsTargetFlag(args, i)},
          LAMBDA i : IF IsTargetPair(args, i) THEN args[i].word
                                              ELSE args[i + 1].word)

IsVMID(a) == a.key \in {None, "vmid"} /\ a.word \in Numbers

\* Mutant: the VMID need not come first.
TargetAfterMigrateAnywhere(args) ==
  IF TargetOption(args) # None
    THEN TargetOption(args)
    ELSE FirstOf({i \in DOMAIN args : /\ ~IsPair(args[i]) /\ ~IsOption(args[i])
                                      /\ LooksLikeNode(args[i].word)},
                 LAMBDA i : args[i].word)

\* parseTargetAfterMigrate: an option, else the first name after the VMID.
TargetAfterMigrate(args) ==
  IF TargetOption(args) # None
    THEN TargetOption(args)
    ELSE FirstOf({i \in DOMAIN args : /\ ~IsPair(args[i]) /\ ~IsOption(args[i])
                                      /\ LooksLikeNode(args[i].word)
                                      /\ \E j \in 1..(i - 1) : IsVMID(args[j])},
                 LAMBDA i : args[i].word)

\* Where the arguments of a migration may begin: after "qm migrate" or the name
\* of a worker; failing that, after any "migrate".
AfterProgram(args) ==
  {i \in 2..(Len(args) + 1) :
     \/ args[i - 1] \in {Word(w) : w \in Workers}
     \/ /\ i > 2 /\ args[i - 2] \in {Word(w) : w \in Programs}
        /\ args[i - 1] = Word("migrate")}
AfterWord(args) == {i \in 2..(Len(args) + 1) : args[i - 1] = Word("migrate")}

TargetFrom(args, S) ==
  FirstOf({i \in S : TargetAfterMigrate(From(args, i)) # None},
          LAMBDA i : TargetAfterMigrate(From(args, i)))

\* parseMigrateTarget
ParseMigrateTarget(args) ==
  IF TargetOption(args) # None THEN TargetOption(args)
  ELSE IF TargetFrom(args, AfterProgram(args)) # None
    THEN TargetFrom(args, AfterProgram(args))
    ELSE TargetFrom(args, AfterWord(args))
=============================================================================
