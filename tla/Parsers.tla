------------------------------ MODULE Parsers ------------------------------
(***************************************************************************)
(* The texts that PVE produces and the daemon parses, the subjects that it *)
(* builds, and what each must come to: UPIDs (Tasks), tails of active      *)
(* lines (ActiveLine), command lines (MigrateTarget), task logs (TaskLog), *)
(* configs (VMConfig) and names (Subjects).  A behaviour treats one input. *)
(***************************************************************************)
EXTENDS ActiveLine, MigrateTarget, TaskLog, Tasks, Subjects, VMConfig

CONSTANTS
  Nodes,        \* the nodes a migration can go to
  MaxOptions,   \* bound on the options at the end of a command line
  MaxEarly,     \* bound on those in another place of it
  MaxLines,     \* bound on the lines of a log above the one that names a target
  MaxReports,   \* bound on the lines below it
  MaxDirs,      \* bound on the directories that a log is in
  Users, IDs,   \* the last fields of UPIDs
  Values,       \* the values of a VM's config
  MaxTags,      \* bound on its tags
  MaxSnapshots, \* bound on its snapshots
  Chars,        \* the pieces of a configured name
  MaxName       \* bound on their number

ASSUME ParsersAssumption == /\ Nodes \subseteq Names
                            /\ {MaxOptions, MaxEarly, MaxLines, MaxReports} \subseteq Nat
                            /\ {MaxDirs, MaxTags, MaxSnapshots} \subseteq Nat
                            /\ Plain \subseteq Chars /\ MaxName \in Nat \ {0}
                            /\ {"1", "A"} \subseteq Hex /\ IDs \subseteq Seq(Digits)
                            /\ \A u \in Users : u \in Seq(Range(u) \ {":"})
                            /\ Nodes \subseteq NameLike \ (NumberLike \cup {"node"})
                            /\ \A v \in Values : v \in Seq(Range(v))
                            /\ \A v \in Values : Len(v) = 1 => v[1] \notin Separators

VARIABLE input

\* Sequences of at most n of the pieces in S, joined.
Joined(S, n) == {FlattenSeq(pieces) : pieces \in BoundedSeq(S, n)}
-----------------------------------------------------------------------------
(* UPIDs *)

\* The type of a worker as PVE spells it, and others that are no lifecycle.
Spelled(k, a) == CASE k = "qemu" /\ a = "migrate" -> <<"qm", "igrate">>
                   [] k = "qemu" /\ a # "migrate" -> <<"qm", a>>
                   [] k = "lxc"  -> <<"vz", a>>
OtherTypes == {<<"vz", "reset">>, <<"qm", "snapshot">>, <<"vz", "dump">>, <<"start", "all">>}

LifecycleTasks == {[kind |-> "qemu", action |-> a] : a \in QemuActions \cup {"migrate"}} \cup
                  {[kind |-> "lxc", action |-> a] : a \in LxcActions \cup {"migrate"}}

UPIDs == [form : {"upid"}, task : LifecycleTasks \cup {NotLifecycle}, id : IDs, user : Users]

TypesOf(u) == IF u.task = NotLifecycle THEN OtherTypes
              ELSE {Spelled(u.task.kind, u.task.action)}

UPIDText(u, type) ==
  Join(<< <<"UPID">>, <<"pve", "1">>, <<"1", "A">>, <<"A">>, <<"1">>, type, u.id, u.user,
          <<>> >>, ":")
-----------------------------------------------------------------------------
(* Tails of active lines *)

Tails == UNION {[form : {"tail"}, says : {s}, tail : Written(s)] :
                  s \in {"running", "OK", "ERR"}}
-----------------------------------------------------------------------------
(* Command lines *)

FlagOptions   == {<<Word(f)>> : f \in Flags} \cup {<<Pair("storage", w)>> : w \in Names}
ValuedOptions == {<<Word(f), Word(w)>> : f \in Flags, w \in Names}
Options       == FlagOptions \cup ValuedOptions

\* How the worker of a migration is run: by the command line tools (through an
\* interpreter or not), or as a worker of its own.
Heads == {p \o h : p \in {<<>>} \cup {<<Word(o)>> : o \in Other},
                   h \in {<<Word(q), Word("migrate")>> : q \in Programs} \cup
                         {<<Word(w)>> : w \in Workers}}

\* qm migrate [options] <vmid> [options] <target> [options], or with the target
\* as an option.
Migrations ==
  [form : {"migration"}, head : Heads, before : Joined(Options, MaxEarly),
   between : Joined(Options, MaxEarly), target : Nodes,
   as : {"positional", "flag", "pair"}, after : Joined(Options, MaxOptions)]

\* Processes that migrate nothing: the HA manager, a worker that has set its
\* title, another command, which may have a target of its own (qm clone).
NoMigrations ==
  LET Lines(heads, ways, options) ==
        [form : {"command"}, head : heads, target : Nodes, as : ways, after : options]
  IN  Lines({<<Word(o)>> : o \in Other}, {"none"}, {<<>>}) \cup
      Lines({<<Word(q), Word(n), Word("100")>> : q \in Programs, n \in Names},
            {"none", "flag", "pair"}, Joined(Options, MaxOptions))

TargetArgs(c) == CASE c.as = "none"       -> <<>>
                   [] c.as = "positional" -> <<Word(c.target)>>
                   [] c.as = "flag"       -> <<Word("--target"), Word(c.target)>>
                   [] c.as = "pair"       -> <<Pair("target", c.target)>>

Line(c) == c.head \o c.before \o <<Word("100")>> \o c.between \o TargetArgs(c)
             \o c.after
CommandLine(c) == c.head \o TargetArgs(c) \o c.after

\* The names that stand on their own between the VMID and the target: values of
\* options, which the code cannot tell from a target.
IsBareName(a)    == ~IsPair(a) /\ a.word \in Names
ValuesBetween(c) == {c.between[i].word : i \in {j \in DOMAIN c.between : IsBareName(c.between[j])}}
-----------------------------------------------------------------------------
(* Task logs *)

\* A line that names the target, as PVE words it or as enrich_test.go does.
NamingLine(form, n) ==
  CASE form = "sentence" -> <<"text", Blank, "to", Blank, "node", Blank, "'", n, "'", Blank>>
    [] form = "unquoted" -> <<"text", Blank, "to", Blank, n, Blank>>
    [] form = "option"   -> <<"target", "_", "node", "=", n, Blank>>
    [] form = "title"    -> <<"target", Blank, "node", Blank, ":", Blank, n, Blank>>

\* Lines that name nothing; those that come after it may speak of other things.
Preambles == {<<"text", Blank>>, <<"target", Blank, "text", Blank>>, <<"au", "to", ":", Blank>>}
Reports   == Preambles \cup {<<"text", Blank, "to", Blank, "local", Blank>>,
                             <<"target", ":", Blank, "local", Blank>>}

\* A log, of which some lines are written, somewhere below the root, next to
\* the logs of other tasks.
Logs ==
  [form : {"log"}, target : Nodes, names : {"sentence", "unquoted", "option", "title"},
   before : BoundedSeq(Preambles, MaxLines), after : BoundedSeq(Reports, MaxReports),
   written : 0..MaxLines + MaxReports + 1, dirs : 0..MaxDirs, colon : BOOLEAN]

LogText(l) ==
  LET lines == l.before \o <<NamingLine(l.names, l.target)>> \o l.after
  IN  FlattenSeq([i \in 1..(IF l.written < Len(lines) THEN l.written ELSE Len(lines)) |->
                    lines[i]])

Own == <<"own", ":">>

LogFiles(l) ==
  LET Below(name) == [i \in 1..l.dirs |-> "dir"] \o <<name>>
      foreign == {Below(<<"other", ":">>), << Own \o <<"own">> >>, << <<"own", "er">> >>}
      own == Below(IF l.colon THEN Own ELSE Front(Own))
  IN  [f \in foreign \cup {own} |->
         IF f = own THEN LogText(l) ELSE NamingLine("sentence", "local")]
-----------------------------------------------------------------------------
(* Configs *)

\* The values a VM has now and had when a snapshot was taken, in the order in
\* which PVE writes them, below a comment or not.
Configs ==
  [form : {"config"}, name : Values, hookscript : Values,
   tags : BoundedSeq({v \in Values : Len(v) = 1}, MaxTags), separator : Separators,
   nameKey : {"name", "hostname"}, snapshots : BoundedSeq(Values, MaxSnapshots),
   comment : BOOLEAN]

Entry(key, value) == IF value = <<>> THEN <<>> ELSE << <<key, ":">> \o value >>

File(c) ==
  LET Section(name, hookscript, tags) ==
        Entry("hookscript", hookscript) \o Entry(c.nameKey, name)
          \o << <<"net0", ":", "mac", ":", "m">> >> \o Entry("tags", tags)
      Snapshot(value) == << <<>>, <<"[", "snap", "]">> >> \o Section(value, value, value)
  IN  (IF c.comment THEN << <<"#", "name", ":", "x">> >> ELSE <<>>)
        \o Section(c.name, c.hookscript, Join(c.tags, c.separator))
        \o FlattenSeq([i \in DOMAIN c.snapshots |-> Snapshot(c.snapshots[i])])
-----------------------------------------------------------------------------
(* Names *)

ConfiguredNames == BoundedSeq(Chars, MaxName)

\* What PVE accepts as a name has no piece that must be replaced.
IsPlain(name) == name # <<>> /\ \A i \in DOMAIN name : name[i] \in Plain

NamePairs == [form : {"names"}, cluster : ConfiguredNames, node : ConfiguredNames,
              other : ConfiguredNames]

Published(c, n) ==
  {[type |-> "complete", cluster |-> c, node |-> n]} \cup
  [type : {"lifecycle"}, cluster : {c}, node : {n}, kind : {"qemu", "lxc"},
   vmid : {"100"}, action : {"migrate"}, phase : {"started", "failed"}] \cup
  [type : {"state"}, cluster : {c}, node : {n}, kind : {"qemu", "lxc"},
   vmid : {"100"}, action : {"state"}, phase : {"snapshot"}]
-----------------------------------------------------------------------------
Init == \/ input \in UPIDs \/ input \in Tails \/ input \in Logs
        \/ input \in Configs \/ input \in NamePairs
        \/ input \in Migrations \/ input \in NoMigrations

Next == UNCHANGED input

Spec == Init /\ [][Next]_input

Of(form) == input.form = form
-----------------------------------------------------------------------------
(* upid.go:32 and watcher.go:171: the UPID of a task of a VM announces what  *)
(* its worker does and to which VM.  Cut anywhere, while PVE writes it, it   *)
(* is skipped or announces the same: it may be taken for another task, but   *)
(* never for one of another VM, kind or action.                              *)
UPIDsReadBack ==
  Of("upid") =>
    \A type \in TypesOf(input) :
      LET text == UPIDText(input, type)
      IN  /\ Announced(text) = IF input.task = NotLifecycle THEN NotLifecycle
                               ELSE [kind |-> input.task.kind, action |-> input.task.action,
                                     vm |-> IF input.id = <<>> THEN NoVM ELSE input.id]
          /\ ParseUPID(text).user = input.user
          /\ \A cut \in Beginnings(text) : Announced(cut) \in {NotLifecycle, Announced(text)}

(* A line that was written whole, in any of the forms PVE uses, reads as     *)
(* what it was written for; of a running task, also if it was cut.           *)
LinesReadBack ==
  Of("tail") => /\ Says(input.tail) = input.says
                /\ input.says = "running" =>
                     \A c \in Cuts(input.tail) : Says(c) = "running"

(* enrich.go:144: of a command line that migrates the target is found, also  *)
(* among options.  What the code gives otherwise, against its comment at     *)
(* enrich.go:135: the value of an option between the VMID and a target on    *)
(* its own; and of a command of another kind, which ought to give none, the  *)
(* target that its own options name.                                         *)
TargetIsParsed ==
  /\ Of("migration") =>
       ParseMigrateTarget(Line(input)) \in
         IF input.as = "positional" /\ ValuesBetween(input) # {}
           THEN ValuesBetween(input) ELSE {input.target}
  /\ Of("command") =>
       ParseMigrateTarget(CommandLine(input)) =
         IF input.as = "none" THEN None ELSE input.target

(* enrich.go:158: the target is that of the line of the task's own log which  *)
(* names it, whatever lines are around it and wherever among other logs the  *)
(* log is; a log that does not go so far, or is too deep, gives none.        *)
LogTargetIsParsed ==
  Of("log") =>
    MigrateTargetFromTaskLog(LogFiles(input), Own) =
      {IF input.written > Len(input.before) /\ input.dirs <= 3
         THEN <<input.target>> ELSE NoTarget}

(* vmconf.go:37: events carry the values that a VM has now, whole although a *)
(* value may hold colons, and never those that a snapshot or a comment in    *)
(* the same file gives.                                                      *)
ConfigReadBack ==
  Of("config") =>
    LET config == ReadVMConfig(File(input))
    IN  /\ config.name = input.name
        /\ config.hookscript = input.hookscript
        /\ config.tags = input.tags

(* docs/EVENTS.md:62 and 132: whatever a cluster and a node are named, every *)
(* token of what the node publishes stands in its place, so that patterns    *)
(* get what they name; a request reaches the nodes of the cluster, or the    *)
(* one it names and, of names that PVE accepts, no other; and nothing that   *)
(* is published passes for a request.                                        *)
SubjectsRoute ==
  Of("names") =>
    LET c == input.cluster
        n == input.node
        m == input.other
        Received == {Tokens(s) : s \in Subscriptions(c, m)}
    IN  /\ \A ev \in Published(c, n) :
             LET tokens == Tokens(SubjectFor(ev))
             IN  /\ \A i \in DOMAIN tokens : tokens[i] \notin {<<>>, <<"*">>, <<">">>}
                 /\ tokens[2] = Safe(c) /\ tokens[3] = Safe(n)
                 /\ IF ev.type = "complete" THEN Len(tokens) = 5
                    ELSE Len(tokens) = 7 /\ tokens[4] = <<ev.kind>> /\ tokens[7] = <<ev.phase>>
                 /\ \A pattern \in Received : ~Matches(pattern, tokens)
        /\ Tokens(SubjectSnapshotRequestCluster(c)) \in Received
        /\ IsPlain(n) /\ IsPlain(m) /\ n # m =>
             ~\E pattern \in Received :
                Matches(pattern, Tokens(SubjectSnapshotRequestNode(c, n)))
=============================================================================
