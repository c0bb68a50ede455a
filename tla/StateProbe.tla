----------------------------- MODULE StateProbe -----------------------------
(***************************************************************************)
(* internal/snapshot/state.go and qmp.go: how a batch learns the state of  *)
(* one VM or container, in several looks at files and processes that       *)
(* change meanwhile, and the stamp that snapshotEvent then gives it.       *)
(***************************************************************************)
EXTENDS Integers

CONSTANTS
  MaxStarts,    \* bound on the starts of the VM
  Layouts       \* number of paths at which a container's cgroup may be, 3

ASSUME ProbeAssumption == MaxStarts \in Nat /\ Layouts \in Nat \ {0}

VARIABLES
  \* the deployment
  kind,         \* "qemu" or "lxc"
  readable,     \* may the daemon read pid files (CAP_DAC_READ_SEARCH)?
  useQMP,
  \* the VM
  guest,        \* "down", or the status that QMP gives; of a container, "down"
                \* or "running"
  starts,       \* starts so far: the VM's process is that of the last
  pidFile,      \* Absent, Empty, or the start whose PID it holds
  pidOf,        \* pidOf[k]: what has the PID of start k: "vm", "other", "none"
  procs,        \* procs[l]: the container's cgroup.procs in layout l: "absent",
                \* "empty" or "tasks"
  \* the probe
  pc,           \* "idle", "stat", "read", "kill", "qmp", "cgroup", "answered"
  pid,          \* the start whose PID was read
  path,         \* the next layout to look at
  answer,       \* the state found, or "none"
  \* history
  seen,         \* what guest was since the probe began
  seenFile,     \* what pidFile was since then
  reused,       \* the starts whose PID another process had since then
  shadowed,     \* was an empty cgroup.procs in the way of one with tasks?
  errors        \* "open", "read": failed on a PID file that is there and may be
                \* read

deployment == <<kind, readable, useQMP>>
vm         == <<guest, starts, pidFile, pidOf, procs>>
probe      == <<pc, pid, path, answer>>
history    == <<seen, seenFile, reused, shadowed, errors>>
vars == <<deployment, vm, probe, history>>

Absent == -1
Empty  == 0

Up     == {"running", "paused", "prelaunch", "suspended", "io-error"}
States == {"running", "stopped", "paused", "suspended", "unknown"}
Starts == 1..MaxStarts
Procs  == {"absent", "empty", "tasks"}

Init == /\ kind \in {"qemu", "lxc"} /\ readable \in BOOLEAN /\ useQMP \in BOOLEAN
        /\ guest = "down" /\ starts = 0
        /\ pidFile = Absent /\ procs = [l \in 1..Layouts |-> "absent"]
        /\ pidOf = [k \in Starts |-> "none"]
        /\ pc = "idle" /\ pid = 0 /\ path = 1 /\ answer = "none"
        /\ seen = {} /\ seenFile = {} /\ reused = {}
        /\ shadowed = FALSE /\ errors = {}

(* The VM (external) *)

\* What happens to the VM during a probe is part of the history.
Reused(owner) == {k \in Starts : owner[k] = "other"}

\* An earlier layout is there, without processes, and a later one has them.
Shadowed(p) == \E i, j \in 1..Layouts : i < j /\ p[i] = "empty" /\ p[j] = "tasks"

Happens == /\ IF pc = "idle" THEN UNCHANGED history
              ELSE /\ seen' = seen \cup {guest'}
                   /\ seenFile' = seenFile \cup {pidFile'}
                   /\ reused' = reused \cup Reused(pidOf')
                   /\ shadowed' = (shadowed \/ Shadowed(procs'))
                   /\ UNCHANGED errors
           /\ UNCHANGED <<deployment, probe>>

\* The PID file is there, with the PID, as soon as the process is: state.go:36.
Start == /\ kind = "qemu" /\ guest = "down" /\ starts < MaxStarts
         /\ starts' = starts + 1
         /\ guest' = "prelaunch"
         /\ pidFile' = starts + 1
         /\ pidOf' = [pidOf EXCEPT ![starts + 1] = "vm"]
         /\ UNCHANGED procs
         /\ Happens

\* A startup that is killed leaves an empty file.
StartFails == /\ kind = "qemu" /\ guest = "down"
              /\ pidFile' = Empty
              /\ UNCHANGED <<guest, starts, pidOf, procs>>
              /\ Happens

\* The guest runs, is paused, suspended, or stops at an error.
StatusChange == /\ kind = "qemu" /\ guest # "down"
                /\ guest' \in Up \ {guest, "prelaunch"}
                /\ UNCHANGED <<starts, pidFile, pidOf, procs>>
                /\ Happens

\* The process ends, by a stop or a crash; its file is still there.
Ends == /\ kind = "qemu" /\ guest # "down"
        /\ guest' = "down"
        /\ pidOf' = [pidOf EXCEPT ![starts] = "none"]
        /\ UNCHANGED <<starts, pidFile, procs>>
        /\ Happens

\* The file is removed after a graceful stop; after a crash perhaps never.
FileRemoved == /\ guest = "down" /\ pidFile # Absent
               /\ pidFile' = Absent
               /\ UNCHANGED <<guest, starts, pidOf, procs>>
               /\ Happens

\* Linux gives the PID to another process, which ends some time.
PidReused(k) == /\ k <= starts
                /\ \/ pidOf[k] = "none" /\ pidOf' = [pidOf EXCEPT ![k] = "other"]
                   \/ pidOf[k] = "other" /\ pidOf' = [pidOf EXCEPT ![k] = "none"]
                /\ UNCHANGED <<guest, starts, pidFile, procs>>
                /\ Happens

\* A container has its processes in the cgroup of one layout, which is there
\* before and after they are; that of another layout may be left over.
CgroupChange(l) ==
  /\ kind = "lxc"
  /\ \E p \in Procs :
       /\ <<procs[l], p>> \in {<<"absent", "empty">>, <<"empty", "absent">>,
                               <<"empty", "tasks">>, <<"tasks", "empty">>}
       /\ p = "tasks" => guest = "down"
       /\ procs' = [procs EXCEPT ![l] = p]
       /\ guest' = IF p = "tasks" \/ (guest # "down" /\ procs[l] # "tasks")
                     THEN "running" ELSE "down"
  /\ UNCHANGED <<starts, pidFile, pidOf>>
  /\ Happens

(* The probe *)

Looks == UNCHANGED <<deployment, vm, history>>

\* The probe goes on at step, or ends with an answer.
Goto(step) == /\ pc' = step
              /\ UNCHANGED <<path, answer>>
Answers(s) == /\ pc' = "answered" /\ answer' = s
              /\ UNCHANGED <<pid, path>>

Begin == /\ pc = "idle"
         /\ pc' = IF kind = "qemu" THEN "stat" ELSE "cgroup"
         /\ path' = 1 /\ pid' = 0
         /\ seen' = {guest} /\ seenFile' = {pidFile} /\ reused' = Reused(pidOf)
         /\ shadowed' = Shadowed(procs) /\ errors' = {}
         /\ UNCHANGED <<deployment, vm, answer>>

\* QEMUState: is there a PID file?  Any error but ENOENT is reported.
Stat == /\ pc = "stat"
        /\ \/ pidFile = Absent /\ Answers("stopped")
           \/ pidFile # Absent /\ Goto("read") /\ UNCHANGED pid
           \/ Answers("unknown")
        /\ Looks

\* os.Open fails, with an error of whatever kind: the file is trusted.
OpenFails == /\ IF ~readable \/ pidFile = Absent
                  THEN UNCHANGED errors
                  ELSE errors' = errors \cup {"open"}
             /\ Answers("running")

\* Nothing can be read, so that Scan returns false, of a file that is open: as
\* of an empty one, errStalePID.
ReadFails == /\ readable /\ pidFile # Absent
             /\ errors' = errors \cup {"read"}
             /\ Answers("stopped")

\* Mutant: a file without a PID is trusted like one that cannot be opened.
ReadPIDTrusting ==
  /\ pc = "read"
  /\ \/ OpenFails
     \/ ReadFails
     \/ /\ IF readable /\ pidFile \in Starts
              THEN pid' = pidFile /\ Goto("kill")
              ELSE Answers("running")
        /\ UNCHANGED errors
  /\ UNCHANGED <<deployment, vm, seen, seenFile, reused, shadowed>>

\* Mutant: an error of Sscanf is ignored, and the PID of an empty file is 0.
ReadPIDUnparsed ==
  /\ pc = "read"
  /\ \/ OpenFails
     \/ /\ readable /\ pidFile # Absent
        /\ pid' = pidFile /\ Goto("kill")
        /\ UNCHANGED errors
  /\ UNCHANGED <<deployment, vm, seen, seenFile, reused, shadowed>>

\* A file that cannot be opened, be it that it was removed since, is trusted;
\* one that gives no PID is taken for the remainder of a failed startup.
ReadPID ==
  /\ pc = "read"
  /\ \/ OpenFails
     \/ ReadFails
     \/ /\ readable /\ pidFile = Empty
        /\ Answers("stopped") /\ UNCHANGED errors
     \/ /\ readable /\ pidFile \in Starts
        /\ pid' = pidFile /\ Goto("kill") /\ UNCHANGED errors
  /\ UNCHANGED <<deployment, vm, seen, seenFile, reused, shadowed>>

\* Mutant: EPERM, the answer for a process of root, counts as no process.
ProcessAliveUnlessEPERM(k) == FALSE

\* processAlive: kill(pid, 0) finds any process with that PID.
ProcessAlive(k) == pidOf[k] # "none"

Kill == /\ pc = "kill"
        /\ \/ ~ProcessAlive(pid) /\ Answers("stopped")
           \/ ProcessAlive(pid) /\ ~useQMP /\ Answers("running")
           \/ ProcessAlive(pid) /\ useQMP /\ Goto("qmp") /\ UNCHANGED pid
        /\ Looks

\* mapQMPStatus.
MapQMPStatus(status) == CASE status = "running"               -> "running"
                          [] status \in {"paused", "prelaunch"} -> "paused"
                          [] status = "suspended"             -> "suspended"
                          [] OTHER                            -> "unknown"

\* query-status of whatever process has the socket now; a connection, a
\* permission or a deadline that fails leaves it at running.
QueryQMP == /\ pc = "qmp"
            /\ \/ guest # "down" /\ Answers(MapQMPStatus(guest))
               \/ Answers("running")
            /\ Looks

\* LXCState: the first of the paths that is there decides.
LXCState == /\ pc = "cgroup"
            /\ \/ procs[path] = "absent" /\ path < Layouts
                    /\ path' = path + 1 /\ UNCHANGED <<pc, pid, answer>>
               \/ procs[path] = "absent" /\ path = Layouts /\ Answers("stopped")
               \/ procs[path] = "empty" /\ Answers("stopped")
               \/ procs[path] = "tasks" /\ Answers("running")
               \/ Answers("unknown")
            /\ Looks

\* snapshotEvent takes the time, and the event goes out.
Stamp == /\ pc = "answered"
         /\ pc' = "idle" /\ answer' = "none"
         /\ seen' = {} /\ seenFile' = {} /\ reused' = {} /\ path' = 1 /\ pid' = 0
         /\ shadowed' = FALSE /\ errors' = {}
         /\ UNCHANGED <<deployment, vm>>

Next == \/ Start \/ StartFails \/ StatusChange \/ Ends \/ FileRemoved
        \/ \E l \in 1..Layouts : CgroupChange(l)
        \/ \E k \in Starts : PidReused(k)
        \/ Begin \/ Stat \/ ReadPID \/ Kill \/ QueryQMP \/ LXCState \/ Stamp

Spec == Init /\ [][Next]_vars
-----------------------------------------------------------------------------
TypeOK ==
  /\ kind \in {"qemu", "lxc"} /\ readable \in BOOLEAN /\ useQMP \in BOOLEAN
  /\ guest \in {"down"} \cup Up /\ starts \in 0..MaxStarts
  /\ pidFile \in Absent..MaxStarts
  /\ pidOf \in [Starts -> {"vm", "other", "none"}]
  /\ procs \in [1..Layouts -> Procs]
  /\ pc \in {"idle", "stat", "read", "kill", "qmp", "cgroup", "answered"}
  /\ pid \in 0..MaxStarts /\ path \in 1..Layouts
  /\ answer \in States \cup {"none"} /\ (answer # "none" <=> pc = "answered")
  /\ pc = "kill" => pid \in Starts
  /\ seen \subseteq {"down"} \cup Up
  /\ seenFile \subseteq Absent..MaxStarts /\ reused \subseteq Starts
  /\ shadowed \in BOOLEAN /\ errors \subseteq {"open", "read"}

(* The looks of a probe are apart, and the VM may stop, start and stop again *)
(* between them: still an event says stopped, paused or suspended only of a  *)
(* VM that was so at some moment between the begin of its probe and its      *)
(* observed_at_ns.  Stopped has two exceptions, against the comments at      *)
(* state.go:33 and 96: its PID file was opened and could not be read, or an  *)
(* empty cgroup of an earlier layout was in the way of the container's own.  *)
AnswerWasTrue ==
  /\ answer = "stopped"   => \/ "down" \in seen
                             \/ kind = "qemu" /\ "read" \in errors
                             \/ kind = "lxc" /\ shadowed
  /\ answer = "paused"    => {"paused", "prelaunch"} \cap seen # {}
  /\ answer = "suspended" => "suspended" \in seen

(* state.go:6: a VM that is down all through its probe is said to run only   *)
(* while a PID file of it is left over, and then only if the daemon may not  *)
(* read the file, finds it removed or fails to open it, or another process   *)
(* has the PID; never for the empty file of a failed startup alone, and      *)
(* never a container.                                                        *)
RunningIsExcused ==
  answer = "running" /\ seen = {"down"}
    => /\ kind = "qemu" /\ seenFile # {Absent}
       /\ ~readable \/ Absent \in seenFile \/ "open" \in errors \/ reused # {}
=============================================================================
