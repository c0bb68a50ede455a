--------------------------- MODULE StateProbeInv ---------------------------
(***************************************************************************)
(* The inductive invariant of StateProbe.                                  *)
(***************************************************************************)
EXTENDS StateProbe

\* The PID file, while it holds a PID, holds that of the last start; the file is
\* there, with the PID, and the process too, while the VM is up.
FileIsOfLastStart ==
  /\ pidFile \in {Absent, Empty, starts}
  /\ kind = "qemu" /\ guest # "down" => pidFile = starts /\ starts \in Starts

ProcessIsOfLastStart ==
  \A k \in Starts : pidOf[k] = "vm" <=> kind = "qemu" /\ guest # "down" /\ k = starts

\* A container is up while one of its cgroups, and only one, has processes; it
\* has no PIDs.
ContainerIsItsCgroup ==
  kind = "lxc" =>
    /\ guest \in {"running", "down"} /\ pidFile = Absent
    /\ guest = "running" <=> \E l \in 1..Layouts : procs[l] = "tasks"
    /\ \A k, l \in 1..Layouts : procs[k] = "tasks" /\ procs[l] = "tasks" => k = l

\* The history of a probe has the present, and a start has come from down.
HistoryIsUpToDate ==
  pc # "idle" => /\ guest \in seen /\ pidFile \in seenFile
                 /\ Reused(pidOf) \subseteq reused
                 /\ Shadowed(procs) => shadowed

\* What a step of a probe relies on.
StepIsJustified ==
  /\ pc \in {"stat", "read", "kill", "qmp"} => kind = "qemu"
  /\ pc = "cgroup" => kind = "lxc"
  /\ pc \in {"read", "kill", "qmp"} => seenFile # {Absent}
  /\ pc = "kill" => readable /\ (pid = starts \/ "down" \in seen)
  /\ pc = "qmp" => (seen = {"down"} => reused # {})
  /\ pc = "cgroup" => \/ "down" \in seen
                      \/ \A l \in 1..Layouts : l < path => procs[l] # "tasks"

ProbeInv == /\ TypeOK /\ FileIsOfLastStart /\ ProcessIsOfLastStart
            /\ ContainerIsItsCgroup /\ HistoryIsUpToDate /\ StepIsJustified
            /\ AnswerWasTrue /\ RunningIsExcused
=============================================================================
