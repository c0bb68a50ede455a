-------------------------- MODULE StateProbeProofs --------------------------
(***************************************************************************)
(* What holds of a probe for every number of starts of the VM, and every   *)
(* number of layouts.                                                      *)
(***************************************************************************)
EXTENDS StateProbeInv, TLAPS

(* At first the VM is down, and nothing probes it.                           *)
LEMMA ProbeInit == Init => ProbeInv
<1> SUFFICES ASSUME Init PROVE ProbeInv
  OBVIOUS
<1> USE ProbeAssumption
<1>1. TypeOK
  <2>1. pidOf \in [Starts -> {"vm", "other", "none"}] /\ procs \in [1..Layouts -> Procs]
    BY DEF Init, Procs
  <2>2. starts \in 0..MaxStarts /\ pidFile \in Absent..MaxStarts /\ pid \in 0..MaxStarts
        /\ path \in 1..Layouts
    BY DEF Init, Absent
  <2> QED BY <2>1, <2>2 DEF Init, TypeOK
<1>2. FileIsOfLastStart /\ ProcessIsOfLastStart /\ ContainerIsItsCgroup
  BY DEF Init, FileIsOfLastStart, ProcessIsOfLastStart, ContainerIsItsCgroup
<1>3. HistoryIsUpToDate /\ StepIsJustified /\ AnswerWasTrue /\ RunningIsExcused
  BY DEF Init, HistoryIsUpToDate, StepIsJustified, AnswerWasTrue, RunningIsExcused
<1> QED BY <1>1, <1>2, <1>3 DEF ProbeInv

(* Whatever happens to the VM meanwhile, the history of a probe grows by it, *)
(* and what the probe relies on, or has answered, stays true.                *)
LEMMA HappensKeeps ==
  ASSUME ProbeInv, Happens,
         guest' \in {"down"} \cup Up, pidFile' \in Absent..MaxStarts,
         starts' = starts \/ guest = "down",
         \A l \in 1..Layouts : procs'[l] = "tasks" => procs[l] = "tasks" \/ guest = "down"
  PROVE  /\ HistoryIsUpToDate' /\ StepIsJustified'
         /\ AnswerWasTrue' /\ RunningIsExcused'
         /\ seen' \subseteq {"down"} \cup Up
         /\ seenFile' \subseteq Absent..MaxStarts /\ reused' \subseteq Starts
         /\ shadowed' \in BOOLEAN /\ errors' \subseteq {"open", "read"}
<1>1. UNCHANGED <<kind, readable, useQMP, pc, pid, path, answer>>
  BY DEF Happens, deployment, probe
<1>2. /\ seen' \subseteq {"down"} \cup Up
      /\ seenFile' \subseteq Absent..MaxStarts /\ reused' \subseteq Starts
      /\ shadowed' \in BOOLEAN /\ errors' \subseteq {"open", "read"}
  BY DEF ProbeInv, TypeOK, Happens, history, Reused
<1>3. CASE pc = "idle"
  <2>1. UNCHANGED history
    BY <1>3 DEF Happens
  <2>2. answer' = "none"
    BY <1>1, <1>3 DEF ProbeInv, TypeOK
  <2> QED BY <1>1, <1>2, <1>3, <2>1, <2>2
          DEF history, HistoryIsUpToDate, StepIsJustified, AnswerWasTrue, RunningIsExcused
<1>4. CASE pc # "idle"
  <2>1. /\ seen' = seen \cup {guest'} /\ seenFile' = seenFile \cup {pidFile'}
        /\ reused' = reused \cup Reused(pidOf)' /\ errors' = errors
        /\ shadowed' = (shadowed \/ Shadowed(procs)')
    BY <1>4 DEF Happens, Reused, Shadowed
  <2>2. guest \in seen /\ pidFile \in seenFile
    BY <1>4 DEF ProbeInv, HistoryIsUpToDate
  <2>3. HistoryIsUpToDate'
    BY <2>1 DEF HistoryIsUpToDate
  <2>4. /\ seen' = {"down"} => seen = {"down"}
        /\ seenFile # {Absent} => seenFile' # {Absent}
        /\ reused # {} => reused' # {}
        /\ shadowed => shadowed'
    BY <2>1, <2>2
  <2>5. StepIsJustified'
    BY <1>1, <2>1, <2>2, <2>4 DEF ProbeInv, StepIsJustified
  <2>6. AnswerWasTrue'
    BY <1>1, <2>1 DEF ProbeInv, AnswerWasTrue
  <2>7. RunningIsExcused'
    BY <1>1, <2>1, <2>4 DEF ProbeInv, RunningIsExcused
  <2> QED BY <1>2, <2>3, <2>5, <2>6, <2>7
<1> QED BY <1>3, <1>4

(* The status of a VM that is up, as an answer.                              *)
LEMMA MappedStatus ==
  ASSUME NEW s \in Up
  PROVE  /\ MapQMPStatus(s) \in States \ {"stopped"}
         /\ MapQMPStatus(s) = "paused" => s \in {"paused", "prelaunch"}
         /\ MapQMPStatus(s) = "suspended" => s = "suspended"
<1>1. MapQMPStatus("running") = "running"
  BY Zenon DEF MapQMPStatus
<1>2. MapQMPStatus("paused") = "paused"
  BY Zenon DEF MapQMPStatus
<1>3. MapQMPStatus("prelaunch") = "paused"
  BY Zenon DEF MapQMPStatus
<1>4. MapQMPStatus("suspended") = "suspended"
  BY Zenon DEF MapQMPStatus
<1>5. MapQMPStatus("io-error") = "unknown"
  BY Zenon DEF MapQMPStatus
<1> QED BY <1>1, <1>2, <1>3, <1>4, <1>5 DEF Up, States

(* What happens to the VM keeps the invariant, when it keeps the VM's own    *)
(* part of it.                                                               *)
LEMMA VMStepKeeps ==
  ASSUME ProbeInv, Happens,
         guest' \in {"down"} \cup Up, pidFile' \in Absent..MaxStarts,
         starts' \in 0..MaxStarts, starts' = starts \/ guest = "down",
         pidOf' \in [Starts -> {"vm", "other", "none"}],
         procs' \in [1..Layouts -> Procs],
         \A l \in 1..Layouts : procs'[l] = "tasks" => procs[l] = "tasks" \/ guest = "down",
         FileIsOfLastStart', ProcessIsOfLastStart', ContainerIsItsCgroup'
  PROVE  ProbeInv'
<1>1. UNCHANGED <<kind, readable, useQMP, pc, pid, path, answer>>
  BY DEF Happens, deployment, probe
<1>2. /\ HistoryIsUpToDate' /\ StepIsJustified'
      /\ AnswerWasTrue' /\ RunningIsExcused'
      /\ seen' \subseteq {"down"} \cup Up
      /\ seenFile' \subseteq Absent..MaxStarts /\ reused' \subseteq Starts
      /\ shadowed' \in BOOLEAN /\ errors' \subseteq {"open", "read"}
  BY HappensKeeps
<1>3. TypeOK'
  BY <1>1, <1>2 DEF ProbeInv, TypeOK
<1> QED BY <1>2, <1>3 DEF ProbeInv

(* Each thing that happens to the VM keeps the invariant.                    *)
LEMMA VMKeeps ==
  ASSUME ProbeInv,
         \/ Start \/ StartFails \/ StatusChange \/ Ends \/ FileRemoved
         \/ \E l \in 1..Layouts : CgroupChange(l)
         \/ \E k \in Starts : PidReused(k)
  PROVE  ProbeInv'
<1> USE ProbeAssumption DEF Starts, Absent, Empty
<1>1. TypeOK /\ FileIsOfLastStart /\ ProcessIsOfLastStart /\ ContainerIsItsCgroup
  BY DEF ProbeInv
<1>2. ASSUME Happens PROVE kind' = kind
  BY <1>2 DEF Happens, deployment
<1>3. CASE Start
  <2>1. /\ kind = "qemu" /\ guest = "down" /\ starts \in 0..MaxStarts /\ starts < MaxStarts
        /\ starts' = starts + 1 /\ guest' = "prelaunch" /\ pidFile' = starts + 1
        /\ pidOf' = [pidOf EXCEPT ![starts + 1] = "vm"] /\ procs' = procs
        /\ pidOf \in [Starts -> {"vm", "other", "none"}] /\ kind' = kind
    BY <1>1, <1>2, <1>3 DEF Start, TypeOK
  <2>2. ProcessIsOfLastStart'
    BY <1>1, <2>1 DEF ProcessIsOfLastStart
  <2>3. FileIsOfLastStart' /\ ContainerIsItsCgroup'
    BY <2>1 DEF FileIsOfLastStart, ContainerIsItsCgroup
  <2>4. /\ guest' \in {"down"} \cup Up /\ pidFile' \in -1..MaxStarts
        /\ starts' \in 0..MaxStarts
        /\ pidOf' \in [Starts -> {"vm", "other", "none"}]
        /\ procs' \in [1..Layouts -> Procs]
    BY <1>1, <2>1 DEF TypeOK, Up
  <2> QED BY <1>3, <2>1, <2>2, <2>3, <2>4, VMStepKeeps DEF Start
<1>4. CASE StartFails
  <2>1. /\ kind = "qemu" /\ guest = "down" /\ pidFile' = 0 /\ kind' = kind
        /\ UNCHANGED <<guest, starts, pidOf, procs>>
    BY <1>2, <1>4 DEF StartFails
  <2>2. FileIsOfLastStart' /\ ProcessIsOfLastStart' /\ ContainerIsItsCgroup'
    BY <1>1, <2>1 DEF FileIsOfLastStart, ProcessIsOfLastStart, ContainerIsItsCgroup
  <2> QED BY <1>1, <1>4, <2>1, <2>2, VMStepKeeps DEF StartFails, TypeOK
<1>5. CASE StatusChange
  <2>1. /\ kind = "qemu" /\ guest # "down" /\ guest' \in Up /\ kind' = kind
        /\ UNCHANGED <<starts, pidFile, pidOf, procs>>
    BY <1>2, <1>5 DEF StatusChange
  <2>2. guest' # "down"
    BY <2>1 DEF Up
  <2>3. FileIsOfLastStart' /\ ProcessIsOfLastStart' /\ ContainerIsItsCgroup'
    BY <1>1, <2>1, <2>2 DEF FileIsOfLastStart, ProcessIsOfLastStart, ContainerIsItsCgroup
  <2> QED BY <1>1, <1>5, <2>1, <2>3, VMStepKeeps DEF StatusChange, TypeOK
<1>6. CASE Ends
  <2>1. /\ kind = "qemu" /\ guest # "down" /\ guest' = "down" /\ kind' = kind
        /\ pidOf' = [pidOf EXCEPT ![starts] = "none"]
        /\ UNCHANGED <<starts, pidFile, procs>>
    BY <1>2, <1>6 DEF Ends
  <2>2. starts \in Starts /\ pidOf \in [Starts -> {"vm", "other", "none"}]
    BY <1>1, <2>1 DEF FileIsOfLastStart, TypeOK
  <2>3. ProcessIsOfLastStart'
    BY <1>1, <2>1, <2>2 DEF ProcessIsOfLastStart
  <2>4. FileIsOfLastStart' /\ ContainerIsItsCgroup'
    BY <1>1, <2>1 DEF FileIsOfLastStart, ContainerIsItsCgroup
  <2> QED BY <1>1, <1>6, <2>1, <2>2, <2>3, <2>4, VMStepKeeps DEF Ends, TypeOK
<1>7. CASE FileRemoved
  <2>1. /\ guest = "down" /\ pidFile' = -1 /\ kind' = kind
        /\ UNCHANGED <<guest, starts, pidOf, procs>>
    BY <1>2, <1>7 DEF FileRemoved
  <2>2. FileIsOfLastStart' /\ ProcessIsOfLastStart' /\ ContainerIsItsCgroup'
    BY <1>1, <2>1 DEF FileIsOfLastStart, ProcessIsOfLastStart, ContainerIsItsCgroup
  <2> QED BY <1>1, <1>7, <2>1, <2>2, VMStepKeeps DEF FileRemoved, TypeOK
<1>8. ASSUME NEW l \in 1..Layouts, CgroupChange(l) PROVE ProbeInv'
  <2>1. /\ kind = "lxc" /\ kind' = kind
        /\ UNCHANGED <<starts, pidFile, pidOf>>
    BY <1>2, <1>8 DEF CgroupChange
  <2>2. PICK p \in Procs :
          /\ <<procs[l], p>> \in {<<"absent", "empty">>, <<"empty", "absent">>,
                                  <<"empty", "tasks">>, <<"tasks", "empty">>}
          /\ p = "tasks" => guest = "down"
          /\ procs' = [procs EXCEPT ![l] = p]
          /\ guest' = IF p = "tasks" \/ (guest # "down" /\ procs[l] # "tasks")
                        THEN "running" ELSE "down"
    BY <1>8 DEF CgroupChange
  <2>3. /\ procs \in [1..Layouts -> Procs] /\ procs' \in [1..Layouts -> Procs]
        /\ procs'[l] = p /\ \A k \in 1..Layouts \ {l} : procs'[k] = procs[k]
    BY <1>1, <2>2 DEF TypeOK
  <2>4. /\ guest \in {"running", "down"} /\ pidFile = Absent
        /\ guest = "running" <=> \E k \in 1..Layouts : procs[k] = "tasks"
        /\ \A j, k \in 1..Layouts : procs[j] = "tasks" /\ procs[k] = "tasks" => j = k
    BY <1>1, <2>1 DEF ContainerIsItsCgroup
  <2>5. \A k \in 1..Layouts : procs'[k] = "tasks" => procs[k] = "tasks" \/ guest = "down"
    BY <2>2, <2>3
  <2>6. ContainerIsItsCgroup'
    <3>1. CASE p = "tasks"
      <4>1. guest = "down" /\ guest' = "running" /\ procs'[l] = "tasks"
        BY <2>2, <2>3, <3>1
      <4>2. \A k \in 1..Layouts : procs'[k] = "tasks" => k = l
        BY <2>3, <2>4, <4>1
      <4> QED BY <2>1, <2>4, <4>1, <4>2 DEF ContainerIsItsCgroup
    <3>2. CASE p # "tasks" /\ procs[l] = "tasks"
      <4>1. guest' = "down" /\ \A k \in 1..Layouts : procs'[k] # "tasks"
        BY <2>2, <2>3, <2>4, <3>2
      <4> QED BY <2>1, <2>4, <4>1 DEF ContainerIsItsCgroup
    <3>3. CASE p # "tasks" /\ procs[l] # "tasks"
      <4>1. /\ guest' = guest
            /\ \A k \in 1..Layouts : procs'[k] = "tasks" <=> procs[k] = "tasks"
        BY <2>2, <2>3, <2>4, <3>3
      <4> QED BY <2>1, <2>4, <4>1 DEF ContainerIsItsCgroup
    <3> QED BY <3>1, <3>2, <3>3
  <2>7. FileIsOfLastStart' /\ ProcessIsOfLastStart'
    BY <1>1, <2>1 DEF FileIsOfLastStart, ProcessIsOfLastStart
  <2>8. guest' \in {"down"} \cup Up
    BY <2>2 DEF Up
  <2> QED BY <1>1, <1>8, <2>1, <2>3, <2>5, <2>6, <2>7, <2>8, VMStepKeeps DEF CgroupChange, TypeOK
<1>9. ASSUME NEW k \in Starts, PidReused(k) PROVE ProbeInv'
  <2>1. /\ UNCHANGED <<guest, starts, pidFile, procs>> /\ kind' = kind
        /\ \/ pidOf[k] = "none" /\ pidOf' = [pidOf EXCEPT ![k] = "other"]
           \/ pidOf[k] = "other" /\ pidOf' = [pidOf EXCEPT ![k] = "none"]
        /\ pidOf \in [Starts -> {"vm", "other", "none"}]
    BY <1>1, <1>2, <1>9 DEF PidReused, TypeOK
  <2>2. /\ pidOf' \in [Starts -> {"vm", "other", "none"}]
        /\ \A j \in Starts : pidOf'[j] = "vm" <=> pidOf[j] = "vm"
    BY <2>1
  <2>3. FileIsOfLastStart' /\ ProcessIsOfLastStart' /\ ContainerIsItsCgroup'
    BY <1>1, <2>1, <2>2 DEF FileIsOfLastStart, ProcessIsOfLastStart, ContainerIsItsCgroup
  <2> QED BY <1>1, <1>9, <2>1, <2>2, <2>3, VMStepKeeps DEF PidReused, TypeOK
<1> QED BY <1>3, <1>4, <1>5, <1>6, <1>7, <1>8, <1>9

(* A look changes neither the VM nor what is known of it; the invariant is   *)
(* kept if the place the probe has come to, and its answer, are justified.   *)
LEMMA LookKeeps ==
  ASSUME ProbeInv, UNCHANGED <<deployment, vm, seen, seenFile, reused, shadowed>>,
         errors' \subseteq {"open", "read"},
         pc' \in {"stat", "read", "kill", "qmp", "cgroup", "answered"}, pc # "idle",
         pid' \in 0..MaxStarts, path' \in 1..Layouts,
         answer' \in States \cup {"none"}, answer' # "none" <=> pc' = "answered",
         pc' = "kill" => pid' \in Starts,
         StepIsJustified', AnswerWasTrue', RunningIsExcused'
  PROVE  ProbeInv'
<1>1. UNCHANGED <<kind, readable, useQMP, guest, starts, pidFile, pidOf,
                  procs, seen, seenFile, reused, shadowed>>
  BY DEF deployment, vm
<1>2. TypeOK'
  BY <1>1 DEF ProbeInv, TypeOK
<1>3. FileIsOfLastStart' /\ ProcessIsOfLastStart' /\ ContainerIsItsCgroup'
  BY <1>1 DEF ProbeInv, FileIsOfLastStart, ProcessIsOfLastStart, ContainerIsItsCgroup
<1>4. HistoryIsUpToDate'
  BY <1>1 DEF ProbeInv, HistoryIsUpToDate, Reused, Shadowed
<1> QED BY <1>2, <1>3, <1>4 DEF ProbeInv

(* What a look finds justifies where the probe goes on, and what it answers. *)
LEMMA ProbeKeeps ==
  ASSUME ProbeInv, Stat \/ ReadPID \/ Kill \/ QueryQMP \/ LXCState
  PROVE  ProbeInv'
<1> USE ProbeAssumption DEF Starts, Absent, Empty
<1>1. /\ TypeOK /\ FileIsOfLastStart /\ ProcessIsOfLastStart /\ ContainerIsItsCgroup
      /\ HistoryIsUpToDate /\ StepIsJustified /\ AnswerWasTrue /\ RunningIsExcused
  BY DEF ProbeInv
<1>2. /\ UNCHANGED <<deployment, vm, seen, seenFile, reused, shadowed>> /\ pc # "idle"
      /\ ReadPID \/ UNCHANGED errors
      /\ errors' \subseteq {"open", "read"}
  BY <1>1 DEF Stat, ReadPID, OpenFails, ReadFails, Kill, QueryQMP, LXCState, Looks, history,
              TypeOK
<1>3. UNCHANGED <<kind, readable, useQMP, guest, starts, pidFile, pidOf,
                  procs, seen, seenFile, reused, shadowed>>
  BY <1>2 DEF deployment, vm
<1>4. /\ guest \in seen /\ pidFile \in seenFile /\ Reused(pidOf) \subseteq reused
      /\ Shadowed(procs) => shadowed
  BY <1>1, <1>2 DEF HistoryIsUpToDate
<1>5. pid \in 0..MaxStarts /\ path \in 1..Layouts /\ (pc # "answered" => answer = "none")
  BY <1>1 DEF TypeOK
\* An answer needs no more than its own justification.
<1>6. ASSUME NEW s \in States, Answers(s),
             s = "stopped"   => \/ "down" \in seen
                                \/ kind = "qemu" /\ "read" \in errors'
                                \/ kind = "lxc" /\ shadowed,
             s = "paused"    => {"paused", "prelaunch"} \cap seen # {},
             s = "suspended" => "suspended" \in seen,
             s = "running" /\ seen = {"down"}
               => /\ kind = "qemu" /\ seenFile # {Absent}
                  /\ ~readable \/ Absent \in seenFile \/ "open" \in errors' \/ reused # {}
      PROVE  ProbeInv'
  <2>1. pc' = "answered" /\ answer' = s /\ UNCHANGED <<pid, path>>
    BY <1>6 DEF Answers
  <2>2. StepIsJustified'
    BY <2>1 DEF StepIsJustified
  <2>3. AnswerWasTrue' /\ RunningIsExcused'
    BY <1>3, <1>6, <2>1 DEF AnswerWasTrue, RunningIsExcused
  <2>4. answer' # "none"
    BY <2>1 DEF States
  <2> QED BY <1>2, <1>5, <2>1, <2>2, <2>3, <2>4, LookKeeps
\* A probe that goes on has no answer yet.
<1>7. ASSUME UNCHANGED answer, answer = "none", StepIsJustified',
             pc' \in {"read", "kill", "qmp", "cgroup"},
             pid' \in 0..MaxStarts, path' \in 1..Layouts, pc' = "kill" => pid' \in Starts
      PROVE  ProbeInv'
  <2>1. AnswerWasTrue' /\ RunningIsExcused'
    BY <1>7 DEF AnswerWasTrue, RunningIsExcused
  <2> QED BY <1>2, <1>7, <2>1, LookKeeps
<1>8. CASE Stat
  <2>1. pc = "stat" /\ kind = "qemu" /\ answer = "none"
    BY <1>1, <1>5, <1>8 DEF Stat, StepIsJustified
  <2>2. CASE pidFile = Absent /\ Answers("stopped")
    <3>1. guest = "down"
      BY <1>1, <2>1, <2>2 DEF FileIsOfLastStart
    <3> QED BY <1>4, <1>6, <2>2, <3>1 DEF States
  <2>3. CASE pidFile # Absent /\ Goto("read") /\ UNCHANGED pid
    <3>1. pc' = "read" /\ UNCHANGED <<path, answer, pid>>
      BY <2>3 DEF Goto
    <3>2. StepIsJustified'
      BY <1>3, <1>4, <2>1, <2>3, <3>1 DEF StepIsJustified
    <3> QED BY <1>5, <1>7, <2>1, <3>1, <3>2
  <2>4. CASE Answers("unknown")
    BY <1>6, <2>4 DEF States
  <2> QED BY <1>8, <2>2, <2>3, <2>4 DEF Stat
<1>9. CASE ReadPID
  <2>1. pc = "read" /\ kind = "qemu" /\ seenFile # {Absent} /\ answer = "none"
    BY <1>1, <1>5, <1>9 DEF ReadPID, StepIsJustified
  <2>2. CASE OpenFails
    <3>1. Answers("running") /\ (~readable \/ pidFile = Absent \/ "open" \in errors')
      BY <2>2 DEF OpenFails
    <3> QED BY <1>4, <1>6, <2>1, <3>1 DEF States
  <2>3. CASE ReadFails
    <3>1. Answers("stopped") /\ "read" \in errors'
      BY <2>3 DEF ReadFails
    <3> QED BY <1>6, <2>1, <3>1 DEF States
  <2>5. CASE readable /\ pidFile = Empty /\ Answers("stopped")
    <3>1. guest = "down"
      BY <1>1, <2>1, <2>5 DEF FileIsOfLastStart
    <3> QED BY <1>4, <1>6, <2>5, <3>1 DEF States
  <2>4. CASE readable /\ pidFile \in Starts /\ pid' = pidFile /\ Goto("kill")
    <3>1. pc' = "kill" /\ UNCHANGED <<path, answer>> /\ pid' \in Starts
      BY <2>4 DEF Goto
    <3>2. pid' = starts
      BY <1>1, <2>4 DEF FileIsOfLastStart
    <3>3. StepIsJustified'
      BY <1>3, <2>1, <2>4, <3>1, <3>2 DEF StepIsJustified
    <3> QED BY <1>5, <1>7, <2>1, <3>1, <3>3
  <2> QED BY <1>9, <2>2, <2>3, <2>4, <2>5 DEF ReadPID
<1>10. CASE Kill
  <2>1. /\ pc = "kill" /\ kind = "qemu" /\ seenFile # {Absent} /\ answer = "none"
        /\ pid \in Starts
        /\ pid = starts \/ "down" \in seen
    BY <1>1, <1>5, <1>10 DEF Kill, StepIsJustified, TypeOK
  \* The process of the last start is there while the VM is up.
  <2>2. ~ProcessAlive(pid) => "down" \in seen
    BY <1>1, <1>4, <2>1 DEF ProcessAlive, ProcessIsOfLastStart
  \* A process of a VM that is down is not the VM's.
  <2>3. ProcessAlive(pid) /\ seen = {"down"} => reused # {}
    <3> SUFFICES ASSUME ProcessAlive(pid), seen = {"down"} PROVE reused # {}
      OBVIOUS
    <3>1. guest = "down"
      BY <1>4
    <3>2. pidOf[pid] \in {"vm", "other", "none"} /\ pidOf[pid] # "vm"
      BY <1>1, <2>1, <3>1 DEF TypeOK, ProcessIsOfLastStart
    <3>3. pid \in Reused(pidOf)
      BY <2>1, <3>2 DEF ProcessAlive, Reused
    <3> QED BY <1>4, <3>3
  <2>4. CASE ~ProcessAlive(pid) /\ Answers("stopped")
    BY <1>6, <2>2, <2>4 DEF States
  <2>5. CASE ProcessAlive(pid) /\ ~useQMP /\ Answers("running")
    BY <1>6, <2>1, <2>3, <2>5 DEF States
  <2>6. CASE ProcessAlive(pid) /\ useQMP /\ Goto("qmp") /\ UNCHANGED pid
    <3>1. pc' = "qmp" /\ UNCHANGED <<path, answer, pid>>
      BY <2>6 DEF Goto
    <3>2. StepIsJustified'
      BY <1>3, <2>1, <2>3, <2>6, <3>1 DEF StepIsJustified
    <3> QED BY <1>5, <1>7, <2>1, <3>1, <3>2
  <2> QED BY <1>10, <2>4, <2>5, <2>6 DEF Kill
<1>11. CASE QueryQMP
  <2>1. /\ pc = "qmp" /\ kind = "qemu" /\ seenFile # {Absent}
        /\ seen = {"down"} => reused # {}
    BY <1>1, <1>11 DEF QueryQMP, StepIsJustified
  <2>2. CASE guest # "down" /\ Answers(MapQMPStatus(guest))
    <3>1. guest \in Up
      BY <1>1, <2>2 DEF TypeOK
    <3>2. /\ MapQMPStatus(guest) \in States \ {"stopped"}
          /\ MapQMPStatus(guest) = "paused" => guest \in {"paused", "prelaunch"}
          /\ MapQMPStatus(guest) = "suspended" => guest = "suspended"
      BY <3>1, MappedStatus
    <3>3. seen # {"down"}
      BY <1>4, <2>2
    <3> QED BY <1>4, <1>6, <2>2, <3>2, <3>3
  <2>3. CASE Answers("running")
    BY <1>6, <2>1, <2>3 DEF States
  <2> QED BY <1>11, <2>2, <2>3 DEF QueryQMP
<1>12. CASE LXCState
  <2>1. /\ pc = "cgroup" /\ kind = "lxc" /\ answer = "none"
        /\ "down" \in seen \/ \A l \in 1..Layouts : l < path => procs[l] # "tasks"
        /\ guest \in {"running", "down"}
        /\ guest = "running" <=> \E l \in 1..Layouts : procs[l] = "tasks"
    BY <1>1, <1>5, <1>12 DEF LXCState, StepIsJustified, ContainerIsItsCgroup
  \* A container that was up all along has its processes at no path before.
  <2>2. ASSUME procs[path] # "tasks", "down" \notin seen
        PROVE  \E l \in 1..Layouts : path < l /\ procs[l] = "tasks"
    <3>1. PICK l \in 1..Layouts : procs[l] = "tasks"
      BY <1>4, <2>1, <2>2
    <3>2. ~(l < path) /\ l # path
      BY <2>1, <2>2, <3>1
    <3> QED BY <1>5, <3>1, <3>2
  <2>3. CASE /\ procs[path] = "absent" /\ path < Layouts
             /\ path' = path + 1 /\ UNCHANGED <<pc, pid, answer>>
    <3>1. path' \in 1..Layouts
      BY <1>5, <2>3
    <3>2. "down" \in seen \/ \A l \in 1..Layouts : l < path' => procs[l] # "tasks"
      BY <1>5, <2>1, <2>3
    <3>3. StepIsJustified'
      BY <1>3, <2>1, <2>3, <3>2 DEF StepIsJustified
    <3> QED BY <1>5, <1>7, <2>1, <2>3, <3>1, <3>3
  <2>4. CASE procs[path] = "absent" /\ path = Layouts /\ Answers("stopped")
    <3>1. "down" \in seen
      BY <2>2, <2>4
    <3> QED BY <1>6, <2>4, <3>1 DEF States
  <2>5. CASE procs[path] = "empty" /\ Answers("stopped")
    <3>1. "down" \in seen \/ Shadowed(procs)
      BY <1>5, <2>2, <2>5 DEF Shadowed
    <3> QED BY <1>4, <1>6, <2>1, <2>5, <3>1 DEF States
  <2>6. CASE procs[path] = "tasks" /\ Answers("running")
    <3>1. guest # "down"
      BY <1>5, <2>1, <2>6
    <3> QED BY <1>4, <1>6, <2>6, <3>1 DEF States
  <2>7. CASE Answers("unknown")
    BY <1>6, <2>7 DEF States
  <2> QED BY <1>12, <2>3, <2>4, <2>5, <2>6, <2>7 DEF LXCState
<1> QED BY <1>8, <1>9, <1>10, <1>11, <1>12

(* Every step keeps the invariant.                                           *)
LEMMA ProbeStep == ProbeInv /\ [Next]_vars => ProbeInv'
<1> SUFFICES ASSUME ProbeInv, [Next]_vars PROVE ProbeInv'
  OBVIOUS
<1> USE ProbeAssumption
<1>1. CASE UNCHANGED vars
  BY <1>1 DEF vars, deployment, vm, probe, history, ProbeInv, TypeOK, FileIsOfLastStart,
     ProcessIsOfLastStart, ContainerIsItsCgroup, HistoryIsUpToDate, Reused, Shadowed,
     StepIsJustified, AnswerWasTrue, RunningIsExcused
<1>2. CASE Begin \/ Stamp
  <2>1. UNCHANGED <<kind, readable, useQMP, guest, starts, pidFile, pidOf, procs>>
    BY <1>2 DEF Begin, Stamp, deployment, vm
  <2>2. /\ answer' = "none" /\ path' = 1 /\ pid' = 0
        /\ pc' \in {"idle", "stat", "cgroup"}
        /\ pc' = "stat" => kind = "qemu"
        /\ pc' = "cgroup" => kind = "lxc"
        /\ errors' = {}
        /\ \/ pc' = "idle" /\ seen' = {} /\ seenFile' = {} /\ reused' = {} /\ shadowed' = FALSE
           \/ /\ seen' = {guest} /\ seenFile' = {pidFile} /\ reused' = Reused(pidOf)
              /\ shadowed' = Shadowed(procs)
    BY <1>2 DEF Begin, Stamp, ProbeInv, TypeOK
  <2>3. TypeOK'
    <3>1. Reused(pidOf) \subseteq Starts /\ Shadowed(procs) \in BOOLEAN
      BY DEF Reused, Shadowed
    <3>2. pid' \in 0..MaxStarts /\ path' \in 1..Layouts
      BY <2>2
    <3>3. seen' \subseteq {"down"} \cup Up /\ seenFile' \subseteq Absent..MaxStarts
          /\ reused' \subseteq Starts /\ shadowed' \in BOOLEAN
      BY <2>2, <3>1 DEF ProbeInv, TypeOK
    <3>4. /\ answer' \in States \cup {"none"} /\ (answer' # "none" <=> pc' = "answered")
          /\ pc' # "kill"
          /\ pc' \in {"idle", "stat", "read", "kill", "qmp", "cgroup", "answered"}
      BY <2>2
    <3> QED BY <2>1, <2>2, <3>2, <3>3, <3>4 DEF ProbeInv, TypeOK
  <2>4. FileIsOfLastStart' /\ ProcessIsOfLastStart' /\ ContainerIsItsCgroup'
    BY <2>1 DEF ProbeInv, FileIsOfLastStart, ProcessIsOfLastStart, ContainerIsItsCgroup
  <2>5. HistoryIsUpToDate' /\ AnswerWasTrue' /\ RunningIsExcused'
    BY <2>1, <2>2 DEF HistoryIsUpToDate, Reused, Shadowed, AnswerWasTrue, RunningIsExcused
  <2>6. StepIsJustified'
    BY <2>1, <2>2 DEF StepIsJustified
  <2> QED BY <2>3, <2>4, <2>5, <2>6 DEF ProbeInv
<1> QED BY <1>1, <1>2, VMKeeps, ProbeKeeps DEF Next

(* The invariant holds of every probe.                                       *)
LEMMA ProbeInvariant == Spec => []ProbeInv
  BY ProbeInit, ProbeStep, PTL DEF Spec

(* Type correctness of a probe, whatever happens to its VM meanwhile.        *)
THEOREM ProbeTypes == Spec => []TypeOK
<1>1. ProbeInv => TypeOK
  BY DEF ProbeInv
<1> QED BY <1>1, ProbeInvariant, PTL

(* However often the VM starts and stops between the looks of QEMUState and  *)
(* LXCState, an answer of paused or suspended was true at some moment of the *)
(* probe, and so was stopped, unless the PID file was opened and could not   *)
(* be read, or an empty cgroup was in the way of the container's own.        *)
THEOREM AnswersWereTrue == Spec => []AnswerWasTrue
<1>1. ProbeInv => AnswerWasTrue
  BY DEF ProbeInv
<1> QED BY <1>1, ProbeInvariant, PTL

(* A VM that is down all through a probe is said to run only for a PID file  *)
(* left over that may not be read, goes away or cannot be opened, or for a   *)
(* PID used again.                                                           *)
THEOREM RunningHasItsExcuse == Spec => []RunningIsExcused
<1>1. ProbeInv => RunningIsExcused
  BY DEF ProbeInv
<1> QED BY <1>1, ProbeInvariant, PTL
=============================================================================
