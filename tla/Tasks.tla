------------------------------- MODULE Tasks -------------------------------
(***************************************************************************)
(* UPIDs and worker types: internal/tasks/upid.go and workers.go.  A UPID  *)
(* is the text                                                             *)
(*   UPID:<node>:<pid>:<pstart>:<starttime>:<type>:<id>:<user>:            *)
(* in which a word is one piece or, so that it can be cut, two.            *)
(***************************************************************************)
EXTENDS Fields

CONSTANTS Hex, Digits  \* pieces that are hexadecimal, and decimal, numbers

ASSUME TasksAssumption == Digits \subseteq Hex /\ ":" \notin Hex

Invalid == [valid |-> FALSE]

IsNumber(word, D) == word # <<>> /\ \A i \in DOMAIN word : word[i] \in D

\* The fields of body, less one trailing separator.
Parts(body) ==
  Split(IF body # <<>> /\ Last(body) = ":" THEN Front(body) ELSE body, ":")

\* Mutant: one field too few is asked for.
ParseUPIDSix(text) ==
  LET parts == Parts(SubSeq(text, 3, Len(text)))
  IN  IF ~IsPrefix(<<"UPID", ":">>, text) THEN Invalid
      ELSE IF Len(parts) < 6 \/ \E i \in 2..4 : ~IsNumber(parts[i], Hex) THEN Invalid
      ELSE [valid |-> TRUE, node |-> parts[1], pid |-> parts[2], pstart |-> parts[3],
            starttime |-> parts[4], type |-> parts[5], id |-> parts[6],
            user |-> <<>>, raw |-> text]

\* ParseUPID.
ParseUPID(text) ==
  LET parts == Parts(SubSeq(text, 3, Len(text)))
  IN  IF ~IsPrefix(<<"UPID", ":">>, text) THEN Invalid
      ELSE IF Len(parts) < 7 \/ \E i \in 2..4 : ~IsNumber(parts[i], Hex) THEN Invalid
      ELSE [valid |-> TRUE, node |-> parts[1], pid |-> parts[2], pstart |-> parts[3],
            starttime |-> parts[4], type |-> parts[5], id |-> parts[6],
            user |-> parts[7], raw |-> text]

NoVM == <<"-1">>

\* VMID: the number in the id field, as its pieces, or -1.
VMID(upid) == IF IsNumber(upid.id, Digits) THEN upid.id ELSE NoVM

\* The words after "qm" and "vz" that name an action; "qmigrate" has one m.
QemuActions == {"start", "stop", "shutdown", "reboot", "reset", "suspend", "resume",
                "clone", "create", "destroy", "template"}
LxcActions  == QemuActions \ {"reset", "template"}

NotLifecycle == [kind |-> "none"]

\* WorkerTypeMap: the kind and the action of a worker type.
WorkerTypeMap(type) ==
  CASE type = <<"qm", "igrate">> -> [kind |-> "qemu", action |-> "migrate"]
    [] type = <<"vz", "migrate">> -> [kind |-> "lxc", action |-> "migrate"]
    [] type \in {<<"qm", a>> : a \in QemuActions} ->
         [kind |-> "qemu", action |-> type[2]]
    [] type \in {<<"vz", a>> : a \in LxcActions} ->
         [kind |-> "lxc", action |-> type[2]]
    [] OTHER -> NotLifecycle

\* What parseAll announces for the UPID of a line, a kind, an action and a VM,
\* or NotLifecycle for a line that it skips.
Announced(text) ==
  LET upid == ParseUPID(text)
      worker == IF upid.valid THEN WorkerTypeMap(upid.type) ELSE NotLifecycle
  IN  IF worker = NotLifecycle THEN NotLifecycle
      ELSE [kind |-> worker.kind, action |-> worker.action, vm |-> VMID(upid)]
=============================================================================
