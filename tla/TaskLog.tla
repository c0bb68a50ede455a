------------------------------ MODULE TaskLog ------------------------------
(***************************************************************************)
(* The target of a migration from its task log: FindLogFile of             *)
(* internal/tasks/logfile.go, and the regular expression of                *)
(* internal/enrich/enrich.go.  A log is a text, in which Blank is any      *)
(* white space, the end of a line included.                                *)
(***************************************************************************)
EXTENDS Fields

CONSTANTS
  NameLike,     \* pieces that begin with a letter or digit and hold only what
                \* the name of a node may
  NumberLike    \* those of them that are numbers

ASSUME TaskLogAssumption == /\ {"to", "node", "target"} \subseteq NameLike
                            /\ NumberLike \subseteq NameLike
                            /\ {Blank, "'", "=", ":", "end"} \cap NameLike = {}

NoTarget == <<>>

(* Where the log is: a path is a sequence of directories and a name. *)

Dirs(path) == Len(path) - 1

\* The logs that may be found among files for a UPID that ends with ":": at the
\* root, one directory down, or at most three; of several the walk takes one.
FindLogFile(files, upid) ==
  LET Places(name, depths) == {f \in files : Last(f) = name /\ Dirs(f) \in depths}
      trimmed == Front(upid)
      tries == << Places(upid, {0}), Places(trimmed, {0}),
                  Places(upid, {1}), Places(trimmed, {1}),
                  Places(upid, 0..3) \cup Places(trimmed, 0..3) >>
      first == SelectInSeq(tries, LAMBDA places : places # {})
  IN  IF first = 0 THEN {} ELSE tries[first]

(* What it says. *)

\* The first index from i on that is no white space; a log ends with "end".
At(log, i) == IF i > Len(log) THEN "end" ELSE log[i]
SkipSpaces(log, i) ==
  CHOOSE j \in i..Len(log) + 1 : At(log, j) # Blank /\ \A k \in i..j - 1 : log[k] = Blank

\* The name that begins at i, behind a quote or not, or NoTarget.
NameAt(log, i) ==
  LET from == IF At(log, i) = "'" THEN i + 1 ELSE i
      upto == CHOOSE j \in from..Len(log) + 1 : /\ At(log, j) \notin NameLike
                                                /\ \A k \in from..j - 1 : log[k] \in NameLike
  IN  SubSeq(log, from, upto - 1)

\* "target" or "target node", and "=" or ":".
TargetKeyAt(log, i) ==
  LET afterNode == IF At(log, i + 1) \in {"_", Blank} /\ At(log, i + 2) = "node"
                     THEN i + 3 ELSE i + 1
      sign == SkipSpaces(log, afterNode)
  IN  IF log[i] = "target" /\ At(log, sign) \in {"=", ":"}
        THEN NameAt(log, SkipSpaces(log, sign + 1)) ELSE NoTarget

\* "to", and a name.
ToAt(log, i) ==
  IF log[i] = "to" /\ At(log, i + 1) = Blank
    THEN NameAt(log, SkipSpaces(log, i + 1)) ELSE NoTarget

\* "to node", and a name.
ToNodeAt(log, i) ==
  LET node == SkipSpaces(log, i + 1)
  IN  IF /\ log[i] = "to" /\ At(log, i + 1) = Blank
         /\ At(log, node) = "node" /\ At(log, node + 1) = Blank
        THEN NameAt(log, SkipSpaces(log, node + 1)) ELSE NoTarget

IsName(name) == name # NoTarget

\* The first of names that is one, or NoTarget.
FirstName(names) ==
  LET first == SelectInSeq(names, IsName)
  IN  IF first = 0 THEN NoTarget ELSE names[first]

\* Mutant: "to node" has no alternative of its own.
MatchAtPlainTo(log, i) ==
  FirstName(<<TargetKeyAt(log, i), ToAt(log, i)>>)

\* The alternatives of migrateTargetLogRe, in their order.
MatchAt(log, i) ==
  FirstName(<<TargetKeyAt(log, i), ToNodeAt(log, i), ToAt(log, i)>>)

\* parseMigrateTargetFromLog: the leftmost match, if it looks like a node.
ParseMigrateTargetFromLog(log) ==
  LET match == FirstName([i \in DOMAIN log |-> MatchAt(log, i)])
  IN  IF Len(match) = 1 /\ match[1] \in NumberLike THEN NoTarget ELSE match

\* migrateTargetFromTaskLog: what may come of the logs on disk.
MigrateTargetFromTaskLog(logs, upid) ==
  LET found == FindLogFile(DOMAIN logs, upid)
  IN  IF found = {} THEN {NoTarget}
      ELSE {ParseMigrateTargetFromLog(logs[f]) : f \in found}
=============================================================================
