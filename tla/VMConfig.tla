------------------------------ MODULE VMConfig ------------------------------
(***************************************************************************)
(* ReadVMConfig of internal/pmxcfs/vmconf.go: the values of a VM's config  *)
(* that enrich its events.  A line is a text: a comment begins with "#", a *)
(* section with "[", and an entry is a key, ":" and a value.               *)
(***************************************************************************)
EXTENDS Fields

IsSection(line) == IsPrefix(<<"[">>, line)

\* Mutant: the header of a section is skipped, and not what follows it.
DefaultSectionAll(lines) == SelectSeq(lines, LAMBDA line : ~IsSection(line))

\* The lines above the first section.
DefaultSection(lines) ==
  IF \E i \in DOMAIN lines : IsSection(lines[i])
    THEN SubSeq(lines, 1, SelectInSeq(lines, IsSection) - 1)
    ELSE lines

\* A line that has a colon, and a key before it.
IsEntry(line) == ~IsPrefix(<<"#">>, line) /\ Before(line, ":") \notin {<<>>, line}

\* What PVE may write between two tags.
Separators == {";", ",", Blank}

\* splitTags: the words between any of the three separators.
SplitTags(value) ==
  LET alike == [i \in DOMAIN value |-> IF value[i] \in Separators THEN Blank ELSE value[i]]
      words == Split(alike, Blank)
  IN  FlattenSeq([i \in DOMAIN words |-> IF words[i] = <<>> THEN <<>> ELSE <<words[i]>>])

\* The value that the last entry with one of the keys has, <<>> without one.
ValueOf(lines, keys) ==
  LET Gives(line) == IsEntry(line) /\ Before(line, ":") \in {<<k>> : k \in keys}
      i == SelectLastInSeq(lines, Gives)
  IN  IF i = 0 THEN <<>> ELSE After(lines[i], ":")

\* What the events of the VM are given.
ReadVMConfig(lines) ==
  LET own == DefaultSection(lines)
  IN  [name |-> ValueOf(own, {"name", "hostname"}),
       tags |-> SplitTags(ValueOf(own, {"tags"})),
       description |-> ValueOf(own, {"description"}),
       hookscript |-> ValueOf(own, {"hookscript"})]
=============================================================================
