------------------------- MODULE TaskWatcherProofs -------------------------
(***************************************************************************)
(* What holds of TaskWatcher for every set of tasks, every capacity of the *)
(* channel, every number of pollers and every number of restarts.          *)
(***************************************************************************)
EXTENDS TaskWatcherInv, TLAPS

(* A line only moves forward: what was shown stays shown (ActiveFile).       *)
LEMMA LinesMoveForward ==
  ASSUME NEW s \in LineStates, NEW r \in After(s)
  PROVE  /\ r \in LineStates
         /\ s \notin Gone
         /\ s \in HasResult => r \in HasResult
         /\ \A p \in Phases : s \in Shows(p) => r \in Shows(p)
         /\ \A x \in LineStates : s \in Later(x) => r \in Later(x)
  BY DEF LineStates, Listed, Ended, Gone, After, HasResult, Shows, Later, Phases,
         TerminalPhases

(* The phases of a trace that is extended.                                   *)
LEMMA AppendPhase ==
  ASSUME NEW s \in Seq(Phases), NEW x \in Phases
  PROVE  /\ Append(s, x) \in Seq(Phases)
         /\ {Append(s, x)[i] : i \in DOMAIN Append(s, x)} =
              {s[i] : i \in DOMAIN s} \cup {x}
<1>1. /\ Append(s, x) \in Seq(Phases)
      /\ DOMAIN Append(s, x) = 1..(Len(s) + 1)
      /\ DOMAIN s = 1..Len(s)
      /\ Len(s) \in Nat
      /\ \A i \in 1..Len(s) : Append(s, x)[i] = s[i]
      /\ Append(s, x)[Len(s) + 1] = x
  OBVIOUS
<1>2. 1..(Len(s) + 1) = 1..Len(s) \cup {Len(s) + 1}
  BY <1>1
<1> QED BY <1>1, <1>2

(* Reading the file gives every task a state a line can have.                *)
LEMMA ViewsType ==
  ASSUME file \in [Tasks -> LineStates]
  PROVE  Views \subseteq [Tasks -> LineStates]
BY DEF Views

(* What a send does to the types.                                            *)
LEMMA SendType ==
  ASSUME TypeOK, NEW e \in Events, Send(e)
  PROVE  /\ out' \in Seq(Events) /\ Len(out') <= OutCap
         /\ trace' \in [Tasks -> Seq(Phases)]
         /\ delivered' \in [Tasks -> SUBSET Phases]
<1>1. e.task \in Tasks /\ e.phase \in Phases
  BY DEF Events
<1>2. out' \in Seq(Events) /\ Len(out') <= OutCap
  BY WatcherAssumption DEF TypeOK, Send
<1>3. Append(trace[e.task], e.phase) \in Seq(Phases)
  BY <1>1, AppendPhase DEF TypeOK
<1> QED BY <1>1, <1>2, <1>3 DEF TypeOK, Send

(* The first state has the types.                                            *)
LEMMA TypeInit == Init => TypeOK
<1> SUFFICES ASSUME Init PROVE TypeOK
  OBVIOUS
<1>1. trace \in [Tasks -> Seq(Phases)] /\ out \in Seq(Events)
  BY DEF Init
<1>2. Len(out) <= OutCap /\ restarts \in 0..MaxRestarts
  BY WatcherAssumption DEF Init
<1> QED BY <1>1, <1>2 DEF Init, TypeOK

(* Every step keeps them.                                                    *)
LEMMA TypeStep == TypeOK /\ [Next]_vars => TypeOK'
<1> SUFFICES ASSUME TypeOK, [Next]_vars PROVE TypeOK'
  OBVIOUS
<1> USE WatcherAssumption
<1>1. ASSUME NEW t \in Tasks, ActiveChange(t) PROVE TypeOK'
  <2>1. file' \in [Tasks -> LineStates]
    BY <1>1, LinesMoveForward DEF ActiveChange, TypeOK
  <2>2. notified' \in Nat /\ unread' \in BOOLEAN
    BY <1>1 DEF ActiveChange, TypeOK, Changed
  <2> QED BY <1>1, <2>1, <2>2
          DEF ActiveChange, TypeOK, scanning, known, polling, channel
<1>2. CASE EndWrite
  <2>1. notified' \in Nat /\ unread' \in BOOLEAN
    BY <1>2 DEF EndWrite, TypeOK, Changed
  <2> QED BY <1>2, <2>1 DEF EndWrite, TypeOK, scanning, known, polling, channel
<1>3. ASSUME NEW t \in Migrations, LogMarker(t) PROVE TypeOK'
  BY <1>3 DEF LogMarker, TypeOK, scanning, known, polling, channel
<1>4. CASE AddWatches
  BY <1>4 DEF AddWatches, TypeOK, pve, scanning, known, polling, channel
<1>5. CASE HandleNotify
  BY <1>5 DEF HandleNotify, TypeOK, pve, scanning, known, polling, channel
<1>6. CASE InitialScan \/ FireDebounce
  <2>1. view' \in [Tasks -> LineStates] /\ batch' \subseteq Tasks
    BY <1>6, ViewsType DEF InitialScan, FireDebounce, ReadActive, TypeOK
  <2>2. pending' \in BOOLEAN
    BY <1>6 DEF InitialScan, FireDebounce, TypeOK
  <2> QED BY <1>6, <2>1, <2>2 DEF InitialScan, FireDebounce, ReadActive, TypeOK,
                                  pve, known, polling, channel
<1>7. ASSUME NEW t \in Tasks, ParseLine(t) PROVE TypeOK'
  <2>1. todo' \subseteq Events
    BY <1>7 DEF ParseLine, Events, Event, Phases, TerminalPhases, Outcome
  <2>2. started' \subseteq Tasks /\ finished' \subseteq Tasks
    BY <1>7 DEF ParseLine, TypeOK
  <2> QED BY <1>7, <2>1, <2>2 DEF ParseLine, TypeOK, pve, polling, channel
<1>8. ASSUME NEW t \in Tasks, SendStarted(t) PROVE TypeOK'
  <2>1. Event(t, "started") \in Events
    BY DEF Event, Events, Phases
  <2>2. /\ out' \in Seq(Events) /\ Len(out') <= OutCap
        /\ trace' \in [Tasks -> Seq(Phases)]
        /\ delivered' \in [Tasks -> SUBSET Phases]
    BY <1>8, <2>1, SendType DEF SendStarted
  <2>3. /\ pollPc' \in [Pollers -> {"idle", "ticking", "reading", "found", "sending"}]
        /\ pollTask' \in [Pollers -> Migrations \cup {NoTask}]
        /\ \A q \in Pollers : pollPc'[q] = "idle" <=> pollTask'[q] = NoTask
    <3>1. \/ UNCHANGED polling
          \/ /\ t \in Migrations
             /\ \E q \in Pollers : /\ pollPc' = [pollPc EXCEPT ![q] = "ticking"]
                                    /\ pollTask' = [pollTask EXCEPT ![q] = t]
      BY <1>8 DEF SendStarted, TypeOK
    <3>2. CASE UNCHANGED polling
      BY <3>2 DEF TypeOK, polling
    <3>3. CASE /\ t \in Migrations
               /\ \E q \in Pollers : /\ pollPc' = [pollPc EXCEPT ![q] = "ticking"]
                                      /\ pollTask' = [pollTask EXCEPT ![q] = t]
      BY <3>3 DEF TypeOK
    <3> QED BY <3>1, <3>2, <3>3
  <2> QED BY <1>8, <2>2, <2>3 DEF SendStarted, TypeOK, pve, known
<1>9. ASSUME NEW t \in Tasks, NEW p \in TerminalPhases, SendTerminal(t, p)
      PROVE  TypeOK'
  <2>1. Event(t, p) \in Events
    BY DEF Event, Events, Phases
  <2>2. /\ out' \in Seq(Events) /\ Len(out') <= OutCap
        /\ trace' \in [Tasks -> Seq(Phases)]
        /\ delivered' \in [Tasks -> SUBSET Phases]
    BY <1>9, <2>1, SendType DEF SendTerminal
  <2> QED BY <1>9, <2>2 DEF SendTerminal, TypeOK, pve, known, polling
<1>10. CASE CollectGarbage
  BY <1>10 DEF CollectGarbage, TypeOK, pve, scanning, polling, channel
<1>11. CASE WatcherFails
  BY <1>11 DEF WatcherFails, TypeOK, pve, scanning, known, polling, channel
<1>12. ASSUME NEW p \in Pollers, WatchMigrationSynced(p) PROVE TypeOK'
  <2>1. ASSUME NEW a \in {"ticking", "reading", "found", "sending"},
               NEW b \in {"idle", "ticking", "reading", "found", "sending"},
               Poll(p, a, b)
        PROVE  /\ pollTask[p] \in Migrations
               /\ pollPc' \in [Pollers -> {"idle", "ticking", "reading", "found",
                                           "sending"}]
               /\ pollTask' \in [Pollers -> Migrations \cup {NoTask}]
               /\ \A q \in Pollers : pollPc'[q] = "idle" <=> pollTask'[q] = NoTask
               /\ UNCHANGED <<file, writing, marked, wpc, notified, pending, view,
                              batch, todo, misread, restarts, unread>>
    BY <2>1 DEF Poll, TypeOK, pve, scanning
  <2>2. CASE PollCheck(p)
    BY <2>1, <2>2 DEF PollCheck, TypeOK, known, channel
  <2>3. CASE PollMiss(p)
    BY <2>1, <2>3 DEF PollMiss, TypeOK, known, channel
  <2>4. CASE PollFind(p)
    BY <2>1, <2>4 DEF PollFind, TypeOK, known, channel
  <2>5. CASE PollMark(p)
    BY <2>1, <2>5 DEF PollMark, TypeOK, channel
  <2>6. CASE PollSend(p)
    <3>1. Poll(p, "sending", "idle") /\ UNCHANGED known
      BY <2>6 DEF PollSend
    <3>2. Event(pollTask[p], "synced") \in Events
      BY <2>1, <3>1 DEF Event, Events, Phases
    <3>3. /\ out' \in Seq(Events) /\ Len(out') <= OutCap
          /\ trace' \in [Tasks -> Seq(Phases)]
          /\ delivered' \in [Tasks -> SUBSET Phases]
      BY <2>6, <3>2, SendType DEF PollSend
    <3> QED BY <2>1, <3>1, <3>3 DEF TypeOK, known
  <2> QED BY <1>12, <2>2, <2>3, <2>4, <2>5, <2>6 DEF WatchMigrationSynced
<1>13. CASE Receive
  <2>1. out' \in Seq(Events) /\ Len(out') <= OutCap /\ Head(out) \in Events
    BY <1>13 DEF Receive, TypeOK
  <2>2. delivered' \in [Tasks -> SUBSET Phases]
    BY <1>13, <2>1 DEF Receive, TypeOK, Events
  <2> QED BY <1>13, <2>1, <2>2
          DEF Receive, TypeOK, pve, scanning, known, polling
<1>14. CASE Restart
  <2>1. trace' \in [Tasks -> Seq(Phases)] /\ out' \in Seq(Events)
    BY <1>14 DEF Restart
  <2>2. Len(out') <= OutCap /\ restarts' \in 0..MaxRestarts
    BY <1>14 DEF Restart, TypeOK
  <2> QED BY <1>14, <2>1, <2>2 DEF Restart, TypeOK, pve
<1>15. CASE UNCHANGED vars
  BY <1>15 DEF vars, TypeOK, pve, scanning, known, polling, channel
<1> QED
  BY <1>1, <1>2, <1>3, <1>4, <1>5, <1>6, <1>7, <1>8, <1>9, <1>10, <1>11, <1>12,
     <1>13, <1>14, <1>15 DEF Next, Run, PVE

(* Every variable keeps its type, and the channel its capacity: TypeOK.      *)
THEOREM TypeCorrect == Spec => []TypeOK
BY TypeInit, TypeStep, PTL DEF Spec
-----------------------------------------------------------------------------
(* A change of the active file that is not read yet has a scan ahead of it:  *)
(* NoLostWakeup, whatever way the file is rewritten and whatever fails.      *)
THEOREM NoWakeupIsLost == Spec => []NoLostWakeup
<1>1. Init => NoLostWakeup
  BY DEF Init, NoLostWakeup
<1>2. TypeOK /\ NoLostWakeup /\ [Next]_vars => NoLostWakeup'
  <2> SUFFICES ASSUME TypeOK, NoLostWakeup, [Next]_vars
               PROVE  NoLostWakeup'
    OBVIOUS
  <2> USE DEF NoLostWakeup
  <2>1. CASE Changed /\ UNCHANGED <<wpc, pending>>
    <3>1. Watching => notified' > 0
      BY <2>1 DEF Changed, TypeOK
    <3> QED BY <2>1, <3>1 DEF Watching
  <2>2. CASE UNCHANGED <<wpc, notified, pending, unread>>
    BY <2>2
  <2>3. CASE wpc' \notin {"select", "scan"}
    BY <2>3
  <2>4. CASE HandleNotify
    BY <2>4 DEF HandleNotify
  <2>5. CASE InitialScan \/ FireDebounce
    BY <2>5 DEF InitialScan, FireDebounce, ReadActive
  <2>6. CASE CollectGarbage
    BY <2>6 DEF CollectGarbage
  <2> QED
    BY <2>1, <2>2, <2>3, <2>4, <2>5, <2>6
    DEF Next, Run, PVE, WatchMigrationSynced, ActiveChange, EndWrite, LogMarker,
        AddWatches, ParseLine, SendStarted, SendTerminal, WatcherFails, PollCheck,
        PollMiss, PollFind, PollMark, PollSend, Poll, Receive, Restart, vars
<1> QED BY <1>1, <1>2, TypeCorrect, PTL DEF Spec
-----------------------------------------------------------------------------
(* A phase that is sent in its turn, and of a task that was never misread    *)
(* for the first time, keeps a trace well formed.                            *)
LEMMA SendTrace ==
  ASSUME TypeOK, StartedFirst, OncePerLife, UNCHANGED misread,
         NEW e \in Events, Send(e),
         e.phase = "started" \/ "started" \in Announced(e.task),
         e.task \notin misread =>
           /\ e.phase \notin Announced(e.task)
           /\ e.phase \in TerminalPhases => Announced(e.task) \cap TerminalPhases = {}
  PROVE  /\ StartedFirst' /\ OncePerLife'
         /\ Announced(e.task)' = Announced(e.task) \cup {e.phase}
         /\ \A t \in Tasks \ {e.task} : Announced(t)' = Announced(t)
<1> DEFINE s == trace[e.task]
           r == Append(s, e.phase)
<1>1. /\ e.task \in Tasks /\ e.phase \in Phases /\ s \in Seq(Phases)
      /\ trace'[e.task] = r
      /\ \A t \in Tasks \ {e.task} : trace'[t] = trace[t]
  BY DEF Events, TypeOK, Send
<1>2. /\ Len(s) \in Nat /\ DOMAIN s = 1..Len(s) /\ DOMAIN r = 1..(Len(s) + 1)
      /\ \A i \in 1..Len(s) : r[i] = s[i]
      /\ r[Len(s) + 1] = e.phase
  BY <1>1
<1>3. /\ Announced(e.task)' = Announced(e.task) \cup {e.phase}
      /\ \A t \in Tasks \ {e.task} : Announced(t)' = Announced(t)
  <2>1. Announced(e.task)' = {r[i] : i \in DOMAIN r}
    BY <1>1 DEF Announced
  <2>2. Announced(e.task) = {s[i] : i \in DOMAIN s}
    BY DEF Announced
  <2>3. {r[i] : i \in DOMAIN r} = {s[i] : i \in DOMAIN s} \cup {e.phase}
    BY <1>1, AppendPhase
  <2>4. \A t \in Tasks \ {e.task} : Announced(t)' = Announced(t)
    BY <1>1 DEF Announced
  <2> QED BY <2>1, <2>2, <2>3, <2>4
<1>4. \A i \in DOMAIN s : s[i] \in Announced(e.task)
  BY DEF Announced
<1>5. r[1] = "started"
  <2>1. CASE s = <<>>
    BY <2>1, <1>1, <1>2 DEF Announced
  <2>2. CASE s # <<>>
    BY <2>2, <1>1, <1>2 DEF StartedFirst
  <2> QED BY <2>1, <2>2
<1>6. ASSUME e.task \notin misread, NEW i \in DOMAIN r, NEW j \in DOMAIN r, i # j
      PROVE  r[i] # r[j] /\ ~({r[i], r[j]} \subseteq TerminalPhases)
  <2>1. CASE i \in DOMAIN s /\ j \in DOMAIN s
    BY <1>1, <1>2, <1>6, <2>1 DEF OncePerLife, Faithful
  <2>2. CASE i \in DOMAIN s /\ j = Len(s) + 1
    BY <1>2, <1>4, <1>6, <2>2
  <2>3. CASE j \in DOMAIN s /\ i = Len(s) + 1
    BY <1>2, <1>4, <1>6, <2>3
  <2> QED BY <1>2, <1>6, <2>1, <2>2, <2>3
<1>7. StartedFirst'
  BY <1>1, <1>5 DEF StartedFirst
<1>8. OncePerLife'
  <2> SUFFICES ASSUME NEW t \in Tasks, t \notin misread, NEW i \in DOMAIN trace'[t],
                      NEW j \in DOMAIN trace'[t], i # j
               PROVE  /\ trace'[t][i] # trace'[t][j]
                      /\ ~({trace'[t][i], trace'[t][j]} \subseteq TerminalPhases)
    BY DEF OncePerLife, Faithful
  <2>1. CASE t = e.task
    BY <2>1, <1>1, <1>6
  <2>2. CASE t # e.task
    <3>1. trace'[t] = trace[t]
      BY <2>2, <1>1
    <3> QED BY <3>1 DEF OncePerLife, Faithful
  <2> QED BY <2>1, <2>2
<1> QED BY <1>3, <1>7, <1>8

(* Nothing was sent, read or flagged yet.                                    *)
LEMMA InvInit == Init => IInv
<1> SUFFICES ASSUME Init PROVE IInv
  OBVIOUS
<1>1. TypeOK
  BY TypeInit
<1>2. \A t \in Tasks : trace[t] = <<>> /\ Announced(t) = {}
  BY DEF Init, Announced
<1>3. StartedFirst /\ OncePerLife /\ TruthfulOutcome
  BY <1>2 DEF StartedFirst, OncePerLife, TruthfulOutcome, Faithful
<1>4. ReplacedIsWhole /\ ViewIsPast /\ FlagsAreTrue /\ TodoIsDue /\ TodoIsNew
  BY DEF Init, ReplacedIsWhole, ViewIsPast, FlagsAreTrue, TodoIsDue, TodoIsNew
<1>5. StartedIsTold /\ FlagsMatchTrace /\ PollersAreExclusive
  BY <1>2 DEF Init, StartedIsTold, FlagsMatchTrace, Faithful, PollersAreExclusive
<1> QED BY <1>1, <1>3, <1>4, <1>5 DEF IInv

(* A step that sends nothing and leaves the entries and the pollers alone.   *)
LEMMA QuietStep ==
  ASSUME IInv, TypeOK',
         UNCHANGED <<file, view, batch, todo, misread, started, finished, pollTask,
                     trace>>,
         ~InPlace => ~writing',
         \A p \in Pollers : pollPc[p] = "idle" <=> pollPc'[p] = "idle",
         wpc' = "scan" => wpc = "scan",
         todo = {} \/ wpc' = wpc
  PROVE  IInv'
<1>1. \A t : Announced(t)' = Announced(t)
  BY DEF Announced
<1>2. StartedFirst' /\ OncePerLife' /\ TruthfulOutcome'
  BY <1>1 DEF IInv, StartedFirst, OncePerLife, TruthfulOutcome, Faithful
<1>3. ReplacedIsWhole' /\ ViewIsPast' /\ FlagsAreTrue'
  BY DEF IInv, ReplacedIsWhole, ViewIsPast, FlagsAreTrue, Faithful
<1>4. TodoIsDue' /\ TodoIsNew'
  BY <1>1 DEF IInv, TodoIsDue, TodoIsNew
<1>5. StartedIsTold' /\ FlagsMatchTrace'
  BY <1>1 DEF IInv, StartedIsTold, FlagsMatchTrace, Faithful
<1>6. PollersAreExclusive'
  BY <1>1 DEF IInv, PollersAreExclusive
<1> QED BY <1>2, <1>3, <1>4, <1>5, <1>6 DEF IInv

(* PVE starts or ends a task, or drops its line.                             *)
LEMMA ChangeStep ==
  ASSUME IInv, TypeOK', NEW t \in Tasks, ActiveChange(t)
  PROVE  IInv'
<1>0. TypeOK
  BY DEF IInv
<1>1. /\ UNCHANGED <<wpc, view, batch, todo, misread, started, finished, pollPc,
                     pollTask, trace>>
      /\ writing' = InPlace
  BY DEF ActiveChange, scanning, known, polling, channel
<1>2. \A u : Announced(u)' = Announced(u)
  BY <1>1 DEF Announced
<1>3. \A u \in Tasks : file'[u] = file[u] \/ file'[u] \in After(file[u])
  BY <1>0 DEF ActiveChange, TypeOK
<1>4. \A u \in Tasks : file[u] \in LineStates /\ view[u] \in LineStates
  BY <1>0 DEF TypeOK
<1>5. \A u \in Tasks :
        /\ file[u] \in Gone => file'[u] = file[u]
        /\ file[u] \in HasResult => file'[u] \in HasResult
        /\ \A x \in Phases : file[u] \in Shows(x) => file'[u] \in Shows(x)
        /\ \A x \in LineStates : file[u] \in Later(x) => file'[u] \in Later(x)
  BY <1>3, <1>4, LinesMoveForward
<1>6. \A u \in Tasks : Announced(u) \subseteq Phases
  BY <1>0 DEF TypeOK, Announced
<1>7. StartedFirst' /\ OncePerLife'
  BY <1>1 DEF IInv, StartedFirst, OncePerLife, Faithful
<1>8. TruthfulOutcome'
  BY <1>1, <1>2, <1>5, <1>6 DEF IInv, TruthfulOutcome, Faithful
<1>9. ReplacedIsWhole' /\ ViewIsPast' /\ FlagsAreTrue'
  BY <1>0, <1>1, <1>4, <1>5
     DEF IInv, ReplacedIsWhole, ViewIsPast, FlagsAreTrue, Faithful, TypeOK
<1>10. TodoIsDue' /\ TodoIsNew'
  BY <1>1, <1>2 DEF IInv, TodoIsDue, TodoIsNew
<1>11. StartedIsTold' /\ FlagsMatchTrace'
  BY <1>1, <1>2, <1>5 DEF IInv, StartedIsTold, FlagsMatchTrace, Faithful
<1>12. PollersAreExclusive'
  BY <1>1, <1>2 DEF IInv, PollersAreExclusive
<1> QED BY <1>7, <1>8, <1>9, <1>10, <1>11, <1>12 DEF IInv

(* A scan reads the file.                                                    *)
LEMMA ReadStep ==
  ASSUME IInv, TypeOK', InitialScan \/ FireDebounce
  PROVE  IInv'
<1>0. TypeOK
  BY DEF IInv
<1>1. /\ UNCHANGED <<file, writing, todo, started, finished, pollPc, pollTask, trace>>
      /\ wpc # "scan" /\ view' \in Views
      /\ batch' = {t \in Tasks : view'[t] \in Listed}
      /\ misread' = misread \cup {t \in Tasks : view'[t] # file[t]}
  BY DEF InitialScan, FireDebounce, ReadActive, pve, known, polling, channel
<1>2. /\ \A t \in Tasks : t \notin misread' => t \notin misread /\ view'[t] = file[t]
      /\ ~writing => misread' = misread
  BY <1>1 DEF Views
<1>3. \A t : Announced(t)' = Announced(t)
  BY <1>1 DEF Announced
<1>4. StartedFirst' /\ OncePerLife' /\ TruthfulOutcome'
  BY <1>1, <1>2, <1>3 DEF IInv, StartedFirst, OncePerLife, TruthfulOutcome, Faithful
<1>5. \A s \in LineStates : s \in Later(s)
  BY DEF Later, LineStates, Listed, Ended, Gone
<1>6. ReplacedIsWhole' /\ ViewIsPast'
  BY <1>0, <1>1, <1>2, <1>5 DEF IInv, ReplacedIsWhole, ViewIsPast, Faithful, TypeOK
<1>7. FlagsAreTrue'
  BY <1>0, <1>1, <1>2 DEF IInv, FlagsAreTrue, TypeOK
<1>8. TodoIsDue' /\ TodoIsNew'
  BY <1>1 DEF IInv, TodoIsDue, TodoIsNew
<1>9. StartedIsTold' /\ FlagsMatchTrace'
  BY <1>1, <1>2, <1>3 DEF IInv, StartedIsTold, FlagsMatchTrace, Faithful
<1>10. PollersAreExclusive'
  <2>1. \A p \in Pollers : pollPc[p] # "idle" => pollTask[p] \in Tasks
    BY <1>0, WatcherAssumption DEF TypeOK
  <2>2. \A p \in Pollers : pollPc'[p] = pollPc[p] /\ pollTask'[p] = pollTask[p]
    BY <1>1
  <2> QED BY <1>2, <1>3, <2>1, <2>2 DEF IInv, PollersAreExclusive
<1> QED BY <1>4, <1>6, <1>7, <1>8, <1>9, <1>10 DEF IInv

(* One line is looked at under the mutex: flags are set, sends become due.   *)
LEMMA ParseStep ==
  ASSUME IInv, TypeOK', NEW t \in Tasks, ParseLine(t)
  PROVE  IInv'
<1>0. TypeOK
  BY DEF IInv
<1>1. /\ UNCHANGED <<file, writing, wpc, view, misread, pollPc, pollTask, trace>>
      /\ wpc = "scan" /\ todo = {} /\ t \in batch /\ view[t] \in Listed
      /\ batch' = batch \ {t}
      /\ started' = started \cup {t}
      /\ finished' = IF view[t] \in Ended /\ t \notin finished
                       THEN finished \cup {t} ELSE finished
  BY DEF ParseLine, pve, polling, channel, IInv, ViewIsPast
<1>2. \A u : Announced(u)' = Announced(u)
  BY <1>1 DEF Announced
<1>3. t \notin misread /\ t \notin started => Announced(t) = {}
  BY <1>1 DEF IInv, FlagsMatchTrace, Faithful, Listed, Ended, Gone
<1>4. t \notin misread /\ t \notin finished => Announced(t) \cap TerminalPhases = {}
  BY <1>3 DEF IInv, FlagsMatchTrace, Faithful
<1>5. \A e \in todo' :
        /\ e.task = t
        /\ \/ e.phase = "started" /\ t \notin started
           \/ /\ e.phase = Outcome(view[t])
              /\ view[t] \in Ended /\ t \notin finished
  BY DEF ParseLine, Event
<1>6. t \notin started => Event(t, "started") \in todo'
  BY DEF ParseLine
<1>7. StartedFirst' /\ OncePerLife' /\ TruthfulOutcome'
  BY <1>1, <1>2 DEF IInv, StartedFirst, OncePerLife, TruthfulOutcome, Faithful
<1>8. ReplacedIsWhole' /\ ViewIsPast'
  BY <1>1 DEF IInv, ReplacedIsWhole, ViewIsPast, Faithful
<1>9. t \notin misread /\ view[t] \in Ended => file[t] \in HasResult /\ view[t] \in HasResult
  BY <1>1 DEF IInv, ViewIsPast, Faithful, Later, HasResult, Ended
<1>10. FlagsAreTrue'
  BY <1>1, <1>9 DEF IInv, FlagsAreTrue
<1>11. TodoIsDue' /\ TodoIsNew'
  BY <1>1, <1>2, <1>3, <1>4, <1>5 DEF TodoIsDue, TodoIsNew, Outcome, TerminalPhases
<1>14. StartedIsTold'
  BY <1>1, <1>2, <1>6 DEF IInv, StartedIsTold
<1>12. FlagsMatchTrace'
  <2> SUFFICES ASSUME NEW u \in Tasks, u \notin misread
               PROVE  /\ u \in started' /\ Announced(u) \cap TerminalPhases # {}
                           => u \in finished'
                      /\ u \notin started' /\ Announced(u) # {}
                           => file[u] \in Gone /\ view[u] \in Gone
    BY <1>1, <1>2 DEF FlagsMatchTrace, Faithful
  <2>1. CASE u = t
    BY <2>1, <1>1, <1>4 DEF IInv, FlagsMatchTrace, Faithful
  <2>2. CASE u # t
    BY <2>2, <1>1 DEF IInv, FlagsMatchTrace, Faithful
  <2> QED BY <2>1, <2>2
<1>13. PollersAreExclusive'
  BY <1>1, <1>2 DEF IInv, PollersAreExclusive
<1> QED BY <1>7, <1>8, <1>10, <1>11, <1>12, <1>13, <1>14 DEF IInv

(* The scan sends a started event.                                           *)
LEMMA SendStartedStep ==
  ASSUME IInv, TypeOK', NEW t \in Tasks, SendStarted(t)
  PROVE  IInv'
<1> DEFINE e == Event(t, "started")
<1>0. TypeOK
  BY DEF IInv
<1>1. /\ UNCHANGED <<file, writing, wpc, view, batch, misread, started, finished>>
      /\ e \in todo /\ todo' = todo \ {e} /\ Send(e)
      /\ e \in Events /\ e.task = t /\ e.phase = "started"
  BY DEF SendStarted, pve, known, Event, Events, Phases
<1>2. /\ t \in started /\ view[t] \in Listed /\ wpc = "scan"
      /\ t \notin misread => Announced(t) = {}
  <2>1. Announced(t) \subseteq Phases
    BY <1>0 DEF TypeOK, Announced
  <2> QED BY <1>1, <2>1 DEF IInv, TodoIsDue, TodoIsNew, TerminalPhases
<1>3. /\ StartedFirst' /\ OncePerLife'
      /\ Announced(t)' = Announced(t) \cup {"started"}
      /\ \A u \in Tasks \ {t} : Announced(u)' = Announced(u)
  BY <1>0, <1>1, <1>2, SendTrace DEF IInv, TerminalPhases
<1>4. t \notin misread => file[t] \in Shows("started")
  BY <1>0, <1>2 DEF IInv, ViewIsPast, Faithful, TypeOK, Later, Shows, LineStates, Listed, Ended, Gone
<1>5. TruthfulOutcome'
  BY <1>1, <1>2, <1>3, <1>4 DEF IInv, TruthfulOutcome, Faithful
<1>6. ReplacedIsWhole' /\ ViewIsPast' /\ FlagsAreTrue'
  BY <1>1 DEF IInv, ReplacedIsWhole, ViewIsPast, FlagsAreTrue, Faithful
<1>7. TodoIsDue'
  BY <1>1, <1>2 DEF IInv, TodoIsDue
<1>11. StartedIsTold'
  <2> SUFFICES ASSUME NEW u \in started
               PROVE  "started" \in Announced(u)' \/ Event(u, "started") \in todo'
    BY <1>1 DEF StartedIsTold, Event
  <2>1. u \in Tasks /\ (u # t => Event(u, "started") # e)
    BY <1>0 DEF TypeOK, Event
  <2>2. "started" \in Announced(u) \/ Event(u, "started") \in todo
    BY DEF IInv, StartedIsTold
  <2> QED BY <2>1, <2>2, <1>1, <1>3
<1>10. TodoIsNew'
  <2> SUFFICES ASSUME NEW d \in todo, d # e, d.task \notin misread
               PROVE  Announced(d.task)' \cap
                        (IF d.phase = "started" THEN Phases ELSE TerminalPhases) = {}
    BY <1>1 DEF TodoIsNew
  <2>1. d.task \in Tasks /\ d = Event(d.task, d.phase)
    BY <1>0 DEF TypeOK, Events, Event
  <2>2. CASE d.task = t
    BY <2>1, <2>2, <1>2, <1>3 DEF IInv, TodoIsDue, TerminalPhases
  <2>3. CASE d.task # t
    BY <2>1, <2>3, <1>3 DEF IInv, TodoIsNew
  <2> QED BY <2>2, <2>3
<1>8. FlagsMatchTrace'
  <2> SUFFICES ASSUME NEW u \in Tasks, u \notin misread
               PROVE  /\ u \in started /\ Announced(u)' \cap TerminalPhases # {}
                           => u \in finished
                      /\ u \notin started /\ Announced(u)' # {}
                           => file[u] \in Gone /\ (wpc = "scan" => view[u] \in Gone)
    BY <1>1 DEF FlagsMatchTrace, Faithful
  <2>1. CASE u = t
    BY <2>1, <1>2, <1>3 DEF TerminalPhases
  <2>2. CASE u # t
    BY <2>2, <1>1, <1>3 DEF IInv, FlagsMatchTrace, Faithful
  <2> QED BY <2>1, <2>2
<1>9. PollersAreExclusive'
  <2>1. \A p \in Pollers : pollPc[p] # "idle" => /\ pollTask[p] \in Tasks
                                                 /\ t \notin misread => pollTask[p] # t
    BY <1>0, <1>2, WatcherAssumption DEF IInv, TypeOK, PollersAreExclusive
  <2>2. CASE t \notin Migrations
    BY <2>1, <2>2, <1>1, <1>3 DEF SendStarted, polling, IInv, PollersAreExclusive
  <2>3. CASE t \in Migrations
    <3>1. PICK p \in Pollers : /\ pollPc[p] = "idle"
                               /\ pollPc' = [pollPc EXCEPT ![p] = "ticking"]
                               /\ pollTask' = [pollTask EXCEPT ![p] = t]
      BY <2>3 DEF SendStarted
    <3>2. \A q \in Pollers : pollPc[q] = "idle" => pollTask[q] # t
      BY <1>0, WatcherAssumption DEF TypeOK
    <3>3. /\ pollPc'[p] = "ticking" /\ pollTask'[p] = t
          /\ \A q \in Pollers \ {p} : /\ pollPc'[q] = pollPc[q]
                                      /\ pollTask'[q] = pollTask[q]
                                      /\ t \notin misread => pollTask[q] # t
      BY <3>1, <3>2, <1>0, <2>1 DEF TypeOK
    <3> QED BY <3>3, <2>1, <1>1, <1>2, <1>3 DEF IInv, PollersAreExclusive
  <2> QED BY <2>2, <2>3
<1> QED BY <1>3, <1>5, <1>6, <1>7, <1>8, <1>9, <1>10, <1>11 DEF IInv

(* The scan sends an outcome.                                                *)
LEMMA SendTerminalStep ==
  ASSUME IInv, TypeOK', NEW t \in Tasks, NEW x \in TerminalPhases,
         SendTerminal(t, x)
  PROVE  IInv'
<1> DEFINE e == Event(t, x)
<1>0. TypeOK
  BY DEF IInv
<1>1. /\ UNCHANGED <<file, writing, wpc, view, batch, misread, started, finished,
                     pollPc, pollTask>>
      /\ e \in todo /\ todo' = todo \ {e} /\ Send(e)
      /\ Event(t, "started") \notin todo
      /\ e \in Events /\ e.task = t /\ e.phase = x /\ x # "started" /\ x # "synced"
  BY DEF SendTerminal, pve, known, polling, Event, Events, Phases, TerminalPhases
<1>2. /\ t \in started /\ t \in finished /\ wpc = "scan"
      /\ view[t] \in Ended /\ x = Outcome(view[t])
      /\ t \notin misread => Announced(t) \cap TerminalPhases = {}
  BY <1>1 DEF IInv, TodoIsDue, TodoIsNew
<1>3. "started" \in Announced(t)
  BY <1>1, <1>2 DEF IInv, StartedIsTold
<1>4. /\ StartedFirst' /\ OncePerLife'
      /\ Announced(t)' = Announced(t) \cup {x}
      /\ \A u \in Tasks \ {t} : Announced(u)' = Announced(u)
  BY <1>0, <1>1, <1>2, <1>3, SendTrace DEF IInv
<1>5. t \notin misread => file[t] \in Shows(x)
  BY <1>0, <1>2 DEF IInv, ViewIsPast, Faithful, Later, Shows, Ended, Outcome
<1>6. TruthfulOutcome'
  BY <1>1, <1>4, <1>5 DEF IInv, TruthfulOutcome, Faithful
<1>7. ReplacedIsWhole' /\ ViewIsPast' /\ FlagsAreTrue'
  BY <1>1 DEF IInv, ReplacedIsWhole, ViewIsPast, FlagsAreTrue, Faithful
<1>8. TodoIsDue'
  BY <1>1, <1>2 DEF IInv, TodoIsDue
<1>12. StartedIsTold'
  <2> SUFFICES ASSUME NEW u \in started
               PROVE  "started" \in Announced(u)' \/ Event(u, "started") \in todo'
    BY <1>1 DEF StartedIsTold, Event
  <2>1. u \in Tasks /\ Event(u, "started").phase = "started"
    BY <1>0 DEF TypeOK, Event
  <2>2. "started" \in Announced(u) \/ Event(u, "started") \in todo
    BY DEF IInv, StartedIsTold
  <2> QED BY <2>1, <2>2, <1>1, <1>4
<1>11. TodoIsNew'
  <2> SUFFICES ASSUME NEW d \in todo, d # e, d.task \notin misread
               PROVE  Announced(d.task)' \cap
                        (IF d.phase = "started" THEN Phases ELSE TerminalPhases) = {}
    BY <1>1 DEF TodoIsNew
  <2>1. d.task \in Tasks /\ d = Event(d.task, d.phase)
    BY <1>0 DEF TypeOK, Events, Event
  <2>2. d.task # t
    BY <2>1, <1>1, <1>2 DEF IInv, TodoIsDue
  <2> QED BY <2>1, <2>2, <1>4 DEF IInv, TodoIsNew
<1>9. FlagsMatchTrace'
  <2> SUFFICES ASSUME NEW u \in Tasks, u \notin misread
               PROVE  /\ u \in started /\ Announced(u)' \cap TerminalPhases # {}
                           => u \in finished
                      /\ u \notin started /\ Announced(u)' # {}
                           => file[u] \in Gone /\ (wpc = "scan" => view[u] \in Gone)
    BY <1>1 DEF FlagsMatchTrace, Faithful
  <2>1. CASE u = t
    BY <2>1, <1>2, <1>4
  <2>2. CASE u # t
    BY <2>2, <1>1, <1>4 DEF IInv, FlagsMatchTrace, Faithful
  <2> QED BY <2>1, <2>2
<1>10. PollersAreExclusive'
  <2>1. \A p \in Pollers : pollPc[p] # "idle" => pollTask[p] \in Tasks
    BY <1>0, WatcherAssumption DEF TypeOK
  <2> QED BY <2>1, <1>1, <1>4 DEF IInv, PollersAreExclusive
<1> QED BY <1>4, <1>6, <1>7, <1>8, <1>9, <1>10, <1>11, <1>12 DEF IInv

(* What is deleted is gone from the file for good.                           *)
LEMMA GarbageStep ==
  ASSUME IInv, TypeOK', CollectGarbage
  PROVE  IInv'
<1>0. TypeOK
  BY DEF IInv
<1> DEFINE dead == {t \in finished : view[t] \notin Listed}
<1>1. /\ UNCHANGED <<file, writing, view, batch, todo, misread, pollPc, pollTask, trace>>
      /\ wpc = "scan" /\ wpc' = "select" /\ todo = {} /\ batch = {}
      /\ started' = started \ dead /\ finished' = finished \ dead
  BY DEF CollectGarbage, pve, scanning, polling, channel
<1>2. \A t : Announced(t)' = Announced(t)
  BY <1>1 DEF Announced
<1>3. \A t \in dead \ misread : file[t] \in Gone
  BY <1>0, <1>1 DEF TypeOK, IInv, FlagsAreTrue, ViewIsPast, Faithful, HasResult, Later, Gone,
                    Listed, Ended, LineStates
<1>4. StartedFirst' /\ OncePerLife' /\ TruthfulOutcome'
  BY <1>1, <1>2 DEF IInv, StartedFirst, OncePerLife, TruthfulOutcome, Faithful
<1>5. ReplacedIsWhole' /\ ViewIsPast' /\ FlagsAreTrue' /\ TodoIsDue' /\ TodoIsNew'
  BY <1>1 DEF IInv, ReplacedIsWhole, ViewIsPast, FlagsAreTrue, TodoIsDue, TodoIsNew
<1>6. StartedIsTold' /\ FlagsMatchTrace'
  BY <1>1, <1>2, <1>3 DEF IInv, StartedIsTold, FlagsMatchTrace, Faithful
<1>7. PollersAreExclusive'
  BY <1>1, <1>2 DEF IInv, PollersAreExclusive
<1> QED BY <1>4, <1>5, <1>6, <1>7 DEF IInv

(* A poller that moves on, ends, or writes its flag back sends nothing.      *)
LEMMA PollStep ==
  ASSUME IInv, TypeOK', NEW p \in Pollers,
         PollCheck(p) \/ PollMiss(p) \/ PollFind(p) \/ PollMark(p)
  PROVE  IInv'
<1>0. TypeOK
  BY DEF IInv
<1>1. /\ UNCHANGED <<file, writing, wpc, view, batch, todo, misread, started, finished,
                     trace>>
      /\ pollPc[p] # "idle"
      /\ \A q \in Pollers \ {p} : pollPc'[q] = pollPc[q] /\ pollTask'[q] = pollTask[q]
      /\ \/ pollPc'[p] = "idle" /\ pollTask'[p] = NoTask
         \/ pollTask'[p] = pollTask[p]
  BY <1>0 DEF PollCheck, PollMiss, PollFind, PollMark, Poll, TypeOK, pve, scanning,
              known, channel
<1>2. \A t : Announced(t)' = Announced(t)
  BY <1>1 DEF Announced
<1>3. StartedFirst' /\ OncePerLife' /\ TruthfulOutcome'
  BY <1>1, <1>2 DEF IInv, StartedFirst, OncePerLife, TruthfulOutcome, Faithful
<1>4. ReplacedIsWhole' /\ ViewIsPast' /\ FlagsAreTrue'
  BY <1>1 DEF IInv, ReplacedIsWhole, ViewIsPast, FlagsAreTrue, Faithful
<1>5. TodoIsDue' /\ TodoIsNew' /\ StartedIsTold' /\ FlagsMatchTrace'
  BY <1>1, <1>2 DEF IInv, TodoIsDue, TodoIsNew, StartedIsTold, FlagsMatchTrace, Faithful
<1>6. \A q \in Pollers : pollPc[q] # "idle" => pollTask[q] # NoTask
  BY <1>0 DEF TypeOK
<1>7. PollersAreExclusive'
  BY <1>1, <1>2, <1>6 DEF IInv, PollersAreExclusive
<1> QED BY <1>3, <1>4, <1>5, <1>7 DEF IInv

(* A poller sends a synced event.                                            *)
LEMMA PollSendStep ==
  ASSUME IInv, TypeOK', NEW p \in Pollers, PollSend(p)
  PROVE  IInv'
<1> PICK t : t = pollTask[p]
  OBVIOUS
<1> DEFINE e == Event(t, "synced")
<1>0. TypeOK
  BY DEF IInv
<1>1. /\ UNCHANGED <<file, writing, wpc, view, batch, todo, misread, started, finished>>
      /\ pollPc[p] # "idle" /\ pollPc'[p] = "idle"
      /\ \A q \in Pollers \ {p} : pollPc'[q] = pollPc[q] /\ pollTask'[q] = pollTask[q]
      /\ pollTask'[p] = NoTask
      /\ Send(e)
  BY <1>0 DEF PollSend, Poll, TypeOK, pve, scanning, known
<1>2. /\ t \in Migrations /\ t \in Tasks
      /\ e \in Events /\ e.task = t /\ e.phase = "synced"
  BY <1>0, <1>1, WatcherAssumption DEF TypeOK, Event, Events, Phases
<1>3. "started" \in Announced(t) /\ (t \notin misread => "synced" \notin Announced(t))
  BY <1>1 DEF IInv, PollersAreExclusive
<1>4. /\ StartedFirst' /\ OncePerLife'
      /\ Announced(t)' = Announced(t) \cup {"synced"}
      /\ \A u \in Tasks \ {t} : Announced(u)' = Announced(u)
  BY <1>0, <1>1, <1>2, <1>3, SendTrace DEF IInv, TerminalPhases
<1>5. t \notin misread => file[t] \in Shows("synced")
  BY <1>2, <1>3 DEF IInv, TruthfulOutcome, Faithful, Shows
<1>6. TruthfulOutcome'
  BY <1>1, <1>4, <1>5 DEF IInv, TruthfulOutcome, Faithful
<1>7. ReplacedIsWhole' /\ ViewIsPast' /\ FlagsAreTrue'
  BY <1>1 DEF IInv, ReplacedIsWhole, ViewIsPast, FlagsAreTrue, Faithful
<1>8. TodoIsDue' /\ TodoIsNew'
  <2>1. \A d \in todo : d.task \in Tasks
    BY <1>0 DEF TypeOK, Events
  <2>2. "started" \in Phases
    BY DEF Phases
  <2> QED BY <2>1, <2>2, <1>1, <1>3, <1>4 DEF IInv, TodoIsDue, TodoIsNew, TerminalPhases
<1>9. FlagsMatchTrace'
  BY <1>1, <1>3, <1>4 DEF IInv, FlagsMatchTrace, Faithful, TerminalPhases
<1>11. StartedIsTold'
  <2> SUFFICES ASSUME NEW u \in started
               PROVE  "started" \in Announced(u)' \/ Event(u, "started") \in todo
    BY <1>1 DEF StartedIsTold, Event
  <2>1. u \in Tasks
    BY <1>0 DEF TypeOK
  <2>2. "started" \in Announced(u) \/ Event(u, "started") \in todo
    BY DEF IInv, StartedIsTold
  <2> QED BY <2>1, <2>2, <1>4
<1>10. PollersAreExclusive'
  <2>1. \A q \in Pollers : pollPc[q] # "idle" => pollTask[q] \in Tasks /\ pollTask[q] # NoTask
    BY <1>0, WatcherAssumption DEF TypeOK
  <2> QED BY <2>1, <1>1, <1>4 DEF IInv, PollersAreExclusive
<1> QED BY <1>4, <1>6, <1>7, <1>8, <1>9, <1>10, <1>11 DEF IInv

(* The daemon stops and starts again: it forgets all, and so does the trace. *)
LEMMA RestartStep ==
  ASSUME IInv, TypeOK', Restart
  PROVE  IInv'
<1>1. \A t \in Tasks : trace'[t] = <<>> /\ Announced(t)' = {}
  BY DEF Restart, Announced
<1>2. StartedFirst' /\ OncePerLife' /\ TruthfulOutcome'
  BY <1>1 DEF StartedFirst, OncePerLife, TruthfulOutcome, Faithful
<1>3. ReplacedIsWhole' /\ ViewIsPast' /\ FlagsAreTrue' /\ TodoIsDue' /\ TodoIsNew'
  BY DEF Restart, pve, IInv, ReplacedIsWhole, ViewIsPast, FlagsAreTrue, TodoIsDue, TodoIsNew
<1>4. StartedIsTold' /\ FlagsMatchTrace' /\ PollersAreExclusive'
  BY <1>1 DEF Restart, StartedIsTold, FlagsMatchTrace, Faithful, PollersAreExclusive
<1> QED BY <1>2, <1>3, <1>4 DEF IInv

(* Every step keeps the invariant.                                           *)
LEMMA InvStep == IInv /\ [Next]_vars => IInv'
<1> SUFFICES ASSUME IInv, [Next]_vars PROVE IInv'
  OBVIOUS
<1>1. TypeOK'
  BY TypeStep DEF IInv
<1>2. ASSUME NEW t \in Tasks, ActiveChange(t) PROVE IInv'
  BY <1>1, <1>2, ChangeStep
<1>3. CASE EndWrite
  BY <1>1, <1>3, QuietStep DEF EndWrite, scanning, known, polling, channel
<1>4. CASE AddWatches
  BY <1>1, <1>4, QuietStep
  DEF AddWatches, pve, scanning, known, polling, channel, IInv, TodoIsDue, ReplacedIsWhole
<1>5. CASE InitialScan \/ FireDebounce
  BY <1>1, <1>5, ReadStep
<1>6. CASE HandleNotify
  BY <1>1, <1>6, QuietStep
  DEF HandleNotify, pve, scanning, known, polling, channel, IInv, ReplacedIsWhole
<1>7. CASE CollectGarbage
  BY <1>1, <1>7, GarbageStep
<1>8. CASE WatcherFails
  BY <1>1, <1>8, QuietStep
  DEF WatcherFails, pve, scanning, known, polling, channel, IInv, ReplacedIsWhole
<1>9. ASSUME NEW t \in Tasks, ParseLine(t) PROVE IInv'
  BY <1>1, <1>9, ParseStep
<1>10. ASSUME NEW t \in Tasks, SendStarted(t) PROVE IInv'
  BY <1>1, <1>10, SendStartedStep
<1>11. ASSUME NEW t \in Tasks, NEW x \in TerminalPhases, SendTerminal(t, x)
       PROVE  IInv'
  BY <1>1, <1>11, SendTerminalStep
<1>12. ASSUME NEW p \in Pollers, WatchMigrationSynced(p) PROVE IInv'
  BY <1>1, <1>12, PollStep, PollSendStep DEF WatchMigrationSynced
<1>13. ASSUME NEW t \in Migrations, LogMarker(t) PROVE IInv'
  BY <1>1, <1>13, QuietStep
  DEF LogMarker, scanning, known, polling, channel, IInv, ReplacedIsWhole
<1>14. CASE Receive
  BY <1>1, <1>14, QuietStep
  DEF Receive, pve, scanning, known, polling, IInv, ReplacedIsWhole
<1>15. CASE Restart
  BY <1>1, <1>15, RestartStep
<1>16. CASE UNCHANGED vars
  BY <1>1, <1>16, QuietStep
  DEF vars, pve, scanning, known, polling, channel, IInv, ReplacedIsWhole
<1> QED
  BY <1>2, <1>3, <1>4, <1>5, <1>6, <1>7, <1>8, <1>9, <1>10, <1>11, <1>12, <1>13,
     <1>14, <1>15, <1>16 DEF Next, Run, PVE

(* The inductive invariant holds, whatever way the active file is rewritten. *)
THEOREM Inductive == Spec => []IInv
  BY InvInit, InvStep, PTL DEF Spec

(* For any tasks, pollers, capacity, faults and restarts, and whether the    *)
(* active file is replaced or rewritten in place: the events of a task begin *)
(* with started (StartedFirst).                                              *)
THEOREM StartedComesFirst == Spec => []StartedFirst
<1>1. IInv => StartedFirst
  BY DEF IInv
<1> QED BY <1>1, Inductive, PTL

(* Likewise, no phase of a task is reported twice and no second outcome,     *)
(* unless the line of that task was misread (OncePerLife).                   *)
THEOREM EachPhaseOnce == Spec => []OncePerLife
<1>1. IInv => OncePerLife
  BY DEF IInv
<1> QED BY <1>1, Inductive, PTL

(* Likewise, every outcome is the one that the file shows or showed, and no  *)
(* task is reported that was not listed, unless its line was misread         *)
(* (TruthfulOutcome).                                                        *)
THEOREM OutcomesAreTrue == Spec => []TruthfulOutcome
<1>1. IInv => TruthfulOutcome
  BY DEF IInv
<1> QED BY <1>1, Inductive, PTL
-----------------------------------------------------------------------------
(* A step of the watcher is a step of TaskLifecycle, or an event of a task   *)
(* that was misread, or changes neither the file nor what was announced.     *)
LEMMA LifecycleStep ==
  ASSUME IInv, [Next]_vars
  PROVE  [Lifecycle!Next \/ \E t \in misread : Misreport(t)]_<<file, trace>>
<1> USE DEF Lifecycle!Next
<1>0. TypeOK
  BY DEF IInv
<1>1. ASSUME NEW t \in Tasks, ActiveChange(t) PROVE Lifecycle!Progress(t)
  BY <1>1 DEF ActiveChange, Lifecycle!Progress, Lifecycle!After, After, Lifecycle!Ended,
              Ended, channel
<1>2. ASSUME NEW t \in Tasks, SendStarted(t) PROVE Lifecycle!Start(t) \/ (t \in misread /\ Misreport(t))
  <2>1. Event(t, "started") \in todo /\ UNCHANGED file
        /\ trace' = [trace EXCEPT ![t] = Append(@, "started")]
    BY <1>2 DEF SendStarted, Send, Event, pve
  <2>2. CASE t \in misread
    BY <2>1, <2>2 DEF Misreport, Phases
  <2>3. CASE t \notin misread
    <3>1. Announced(t) \cap Phases = {} /\ view[t] \in Listed /\ wpc = "scan"
      BY <2>1, <2>3 DEF IInv, TodoIsDue, TodoIsNew, Event
    <3>2. Announced(t) \subseteq Phases
      BY <1>0 DEF TypeOK, Announced
    <3>3. file[t] \in Shows("started")
      BY <1>0, <2>3, <3>1 DEF IInv, ViewIsPast, Faithful, TypeOK, Later, Shows, LineStates,
                              Listed, Ended, Gone
    <3> QED BY <2>1, <3>1, <3>2, <3>3
            DEF Lifecycle!Start, Lifecycle!Announce, Lifecycle!Announced, Announced,
                Lifecycle!Shows, Shows, Lifecycle!LineStates, LineStates,
                Lifecycle!Listed, Listed, Lifecycle!Ended, Ended, Lifecycle!Gone, Gone
  <2> QED BY <2>2, <2>3
<1>3. ASSUME NEW t \in Tasks, NEW x \in TerminalPhases, SendTerminal(t, x)
      PROVE  Lifecycle!End(t) \/ (t \in misread /\ Misreport(t))
  <2>1. /\ Event(t, x) \in todo /\ Event(t, "started") \notin todo /\ UNCHANGED file
        /\ trace' = [trace EXCEPT ![t] = Append(@, x)]
    BY <1>3 DEF SendTerminal, Send, Event, pve
  <2>2. /\ wpc = "scan" /\ view[t] \in Ended /\ x = Outcome(view[t]) /\ t \in started
        /\ t \notin misread => Announced(t) \cap TerminalPhases = {}
    BY <2>1 DEF IInv, TodoIsDue, TodoIsNew, Event, TerminalPhases
  <2>3. "started" \in Announced(t)
    BY <2>1, <2>2 DEF IInv, StartedIsTold
  <2>4. CASE t \in misread
    BY <2>1, <2>3, <2>4 DEF Misreport, Phases
  <2>5. CASE t \notin misread
    <3>1. file[t] \in Shows(x)
      BY <1>0, <2>2, <2>5 DEF IInv, ViewIsPast, Faithful, Later, Shows, Ended, Outcome
    <3> QED BY <2>1, <2>2, <2>3, <2>5, <3>1
            DEF Lifecycle!End, Lifecycle!Announce, Lifecycle!Announced, Announced,
                Lifecycle!TerminalPhases, TerminalPhases, Lifecycle!Shows, Shows
  <2> QED BY <2>4, <2>5
<1>4. ASSUME NEW p \in Pollers, PollSend(p)
      PROVE  \E t \in Tasks : Lifecycle!Sync(t) \/ (t \in misread /\ Misreport(t))
  <2> PICK t : t = pollTask[p]
    OBVIOUS
  <2>1. /\ t \in Migrations /\ t \in Tasks /\ UNCHANGED file
        /\ trace' = [trace EXCEPT ![t] = Append(@, "synced")]
        /\ pollPc[p] # "idle"
    BY <1>0, <1>4, WatcherAssumption DEF PollSend, Poll, Send, Event, TypeOK, pve
  <2>2. "started" \in Announced(t) /\ (t \notin misread => "synced" \notin Announced(t))
    BY <2>1 DEF IInv, PollersAreExclusive
  <2>3. CASE t \in misread
    BY <2>1, <2>2, <2>3 DEF Misreport, Phases
  <2>4. CASE t \notin misread
    <3>1. file[t] \in Shows("synced")
      BY <2>1, <2>2, <2>4 DEF IInv, TruthfulOutcome, Faithful, Shows
    <3>2. Lifecycle!Sync(t)
      BY <2>1, <2>2, <2>4, <3>1
         DEF Lifecycle!Sync, Lifecycle!Announce, Lifecycle!Announced, Announced,
             Lifecycle!Shows, Shows, Lifecycle!LineStates, LineStates,
             Lifecycle!Listed, Listed, Lifecycle!Ended, Ended, Lifecycle!Gone, Gone
    <3> QED BY <2>1, <3>2
  <2> QED BY <2>1, <2>3, <2>4
<1>5. CASE Restart
  BY <1>5 DEF Restart, pve, Lifecycle!Forget
<1>6. CASE UNCHANGED <<file, trace>>
  BY <1>6
<1> QED
  BY <1>1, <1>2, <1>3, <1>4, <1>5, <1>6
  DEF Next, Run, PVE, WatchMigrationSynced, EndWrite, LogMarker, AddWatches,
      InitialScan, HandleNotify, FireDebounce, ReadActive, ParseLine, CollectGarbage,
      WatcherFails, PollCheck, PollMiss, PollFind, PollMark, Poll, Receive, vars,
      pve, channel

(* For any tasks, pollers, capacity, faults and restarts, and whatever way   *)
(* the active file is rewritten: the watcher implements TaskLifecycle, but   *)
(* for the events of tasks whose line was misread (RefinesLifecycle).        *)
THEOREM Implements == Spec => RefinesLifecycle
<1>1. Init => Lifecycle!Init
  BY DEF Init, Lifecycle!Init, LineStates, Listed, Ended, Gone, Lifecycle!LineStates,
         Lifecycle!Listed, Lifecycle!Ended, Lifecycle!Gone
<1>2. IInv /\ [Next]_vars
        => [Lifecycle!Next \/ \E t \in misread : Misreport(t)]_<<file, trace>>
  BY LifecycleStep
<1> QED BY <1>1, <1>2, Inductive, PTL DEF Spec, RefinesLifecycle

(* With a file that is replaced, no line is misread, and the watcher         *)
(* implements TaskLifecycle as it stands.                                    *)
THEOREM ImplementsReplaced ==
  ASSUME InPlace = FALSE
  PROVE  Spec => Lifecycle!Spec
<1>1. IInv => misread = {}
  BY DEF IInv, ReplacedIsWhole
<1>2. misread = {} /\ [Lifecycle!Next \/ \E t \in misread : Misreport(t)]_<<file, trace>>
        => [Lifecycle!Next]_<<file, trace>>
  OBVIOUS
<1> QED BY <1>1, <1>2, Inductive, Implements, PTL DEF RefinesLifecycle, Lifecycle!Spec

-----------------------------------------------------------------------------
(* Successes in place: a success that the watcher reports is true also when  *)
(* lines are read while PVE rewrites the active file.  Nothing is known here *)
(* of the order of scans and rewrites; all rests on what a cut line can read *)
(* as.                                                                       *)

\* What was read as OK is OK, or was; and whoever has it from there.
OKIsSeen == \A t \in Tasks : view[t] = "OK" => file[t] \in Shows("finished")

SuccessOnTheWay ==
  /\ \A e \in todo : e.phase = "finished" => file[e.task] \in Shows("finished")
  /\ \A i \in DOMAIN out : out[i].phase = "finished"
                             => file[out[i].task] \in Shows("finished")

SuccessInv == TypeOK /\ OKIsSeen /\ SuccessOnTheWay /\ SuccessIsTrue
-----------------------------------------------------------------------------
TailFields == {"0", "1", "hex", "OK", "word"}

(* The fields of a cut tail are those of the tail, but for one that is cut.  *)
LEMMA CutFields ==
  ASSUME NEW tail \in Seq(TailFields), NEW c \in Cuts(tail)
  PROVE  /\ c \in Seq(TailFields) /\ Len(c) <= Len(tail)
         /\ \A i \in 1..Len(c) : c[i] = tail[i] \/ c[i] = "word"
<1>1. CASE c \in {SubSeq(tail, 1, n) : n \in 0..Len(tail)}
  <2>1. PICK n \in 0..Len(tail) : c = SubSeq(tail, 1, n)
    BY <1>1
  <2> QED BY <2>1
<1>2. CASE c \in {SubSeq(tail, 1, n - 1) \o <<"word">> :
                    n \in {i \in DOMAIN tail : tail[i] = "OK"}}
  <2>1. PICK n \in DOMAIN tail : c = SubSeq(tail, 1, n - 1) \o <<"word">>
    BY <1>2
  <2>2. n \in 1..Len(tail) /\ Len(tail) \in Nat
    BY DEF TailFields
  <2>3. /\ SubSeq(tail, 1, n - 1) \in Seq(TailFields) /\ Len(SubSeq(tail, 1, n - 1)) = n - 1
        /\ \A i \in 1..n - 1 : SubSeq(tail, 1, n - 1)[i] = tail[i]
    BY <2>2
  <2>4. <<"word">> \in Seq(TailFields) /\ Len(<<"word">>) = 1 /\ <<"word">>[1] = "word"
    BY DEF TailFields
  <2> QED BY <2>1, <2>2, <2>3, <2>4
<1> QED BY <1>1, <1>2 DEF Cuts

(* parseStatusTail and isOK: the field that a success is read from.          *)
LEMMA SuccessField ==
  ASSUME NEW c \in Seq(TailFields), Says(c) = "OK"
  PROVE  /\ Len(c) >= 1
         /\ \/ c[1] = "OK"
            \/ Len(c) >= 2 /\ ~IsActiveForm(c) /\ IsHex(c[1]) /\ c[2] = "OK"
            \/ IsActiveForm(c) /\ c[3] = "OK"
<1>1. StatusTail(c) # <<>> /\ StatusTail(c)[1] = "OK"
  BY DEF Says
<1>2. c # <<>> /\ c # <<"0">>
  BY <1>1 DEF StatusTail
<1>3. Len(c) \in Nat /\ Len(c) >= 1
  BY <1>2
<1>4. CASE IsActiveForm(c)
  <2>1. StatusTail(c) = SubSeq(c, 3, Len(c)) /\ Len(c) >= 3
    BY <1>2, <1>4 DEF StatusTail, Rest, IsActiveForm
  <2>2. SubSeq(c, 3, Len(c))[1] = c[3]
    BY <1>3, <2>1
  <2> QED BY <1>1, <1>3, <1>4, <2>1, <2>2
<1>5. CASE ~IsActiveForm(c) /\ IsIndexForm(c)
  <2>1. StatusTail(c) = SubSeq(c, 2, Len(c)) /\ Len(c) >= 2 /\ IsHex(c[1])
    BY <1>2, <1>5 DEF StatusTail, Rest, IsIndexForm
  <2>2. SubSeq(c, 2, Len(c))[1] = c[2]
    BY <1>3, <2>1
  <2> QED BY <1>1, <1>3, <1>5, <2>1, <2>2
<1>6. CASE ~IsActiveForm(c) /\ ~IsIndexForm(c)
  <2>1. StatusTail(c) = c
    BY <1>2, <1>6 DEF StatusTail
  <2> QED BY <1>1, <1>3, <2>1
<1> QED BY <1>4, <1>5, <1>6

(* Cut or whole, only the line of a success reads as one: the first field of *)
(* a status that PVE writes for a failure never begins with OK.              *)
LEMMA CutSuccess ==
  ASSUME NEW s \in LineStates, "OK" \in CutLine(s)
  PROVE  s = "OK"
<1>0. PICK tail \in Written(s) : \E c \in Cuts(tail) : Says(c) = "OK" /\ s \in Listed
  BY DEF CutLine
<1>1. PICK c \in Cuts(tail) : Says(c) = "OK" /\ s \in Listed
  BY <1>0
<1>2. Written("running") = {<<>>, <<"0">>}
  BY Zenon DEF Written
<1>3. Written("ERR") = {<<"1", "hex", "word">>, <<"1", "hex", "word", "1">>,
                        <<"hex", "word">>, <<"hex", "word", "OK">>}
  BY Zenon DEF Written
<1>4. ASSUME s # "OK" PROVE FALSE
  <2>1. s \in {"running", "ERR"}
    BY <1>1, <1>4 DEF Listed, Ended
  <2>2. tail \in {<<>>, <<"0">>, <<"1", "hex", "word">>, <<"1", "hex", "word", "1">>,
                  <<"hex", "word">>, <<"hex", "word", "OK">>}
    BY <1>2, <1>3, <2>1
  <2>3. tail \in Seq(TailFields)
    <3>1. <<>> \in Seq(TailFields) /\ <<"0">> \in Seq(TailFields) /\ <<"hex", "word">> \in Seq(TailFields)
      BY DEF TailFields
    <3>2. <<"1", "hex", "word">> \in Seq(TailFields) /\ <<"hex", "word", "OK">> \in Seq(TailFields)
      BY DEF TailFields
    <3>3. <<"1", "hex", "word", "1">> \in Seq(TailFields)
      BY DEF TailFields
    <3> QED BY <2>2, <3>1, <3>2, <3>3
  <2>4. /\ c \in Seq(TailFields) /\ Len(c) <= Len(tail)
        /\ \A i \in 1..Len(c) : c[i] = tail[i] \/ c[i] = "word"
    BY <2>3, CutFields
  <2>5. /\ Len(c) >= 1
        /\ \/ c[1] = "OK"
           \/ Len(c) >= 2 /\ ~IsActiveForm(c) /\ IsHex(c[1]) /\ c[2] = "OK"
           \/ Len(c) >= 3 /\ c[1] = "1" /\ c[3] = "OK"
    BY <1>1, <2>4, SuccessField DEF IsActiveForm
  <2>6. /\ Len(tail) >= 1 => tail[1] # "OK"
        /\ Len(tail) >= 2 => tail[2] # "OK"
        /\ Len(tail) >= 3 /\ tail[3] = "OK" => tail[1] = "hex"
    BY <2>2
  <2> QED BY <2>3, <2>4, <2>5, <2>6
<1> QED BY <1>4
-----------------------------------------------------------------------------
(* Nothing was read or sent yet.                                             *)
LEMMA SuccessInit == Init => SuccessInv
<1> SUFFICES ASSUME Init PROVE SuccessInv
  OBVIOUS
<1>1. TypeOK
  BY TypeInit
<1>2. view = file /\ todo = {} /\ out = <<>>
  BY DEF Init
<1>3. \A t \in Tasks : Announced(t) = {} /\ delivered[t] = {}
  BY DEF Init, Announced
<1>4. "OK" \in Shows("finished")
  BY Zenon DEF Shows
<1>5. OKIsSeen /\ SuccessOnTheWay /\ SuccessIsTrue
  BY <1>2, <1>3, <1>4 DEF OKIsSeen, SuccessOnTheWay, SuccessIsTrue
<1> QED BY <1>1, <1>5 DEF SuccessInv

(* A step that sends nothing and reads nothing.                              *)
LEMMA SuccessQuiet ==
  ASSUME SuccessInv, TypeOK', UNCHANGED <<view, trace, delivered>>,
         \A t \in Tasks : file[t] \in Shows("finished") => file'[t] \in Shows("finished"),
         todo' \subseteq todo, out' = out \/ out' = <<>>
  PROVE  SuccessInv'
<1>1. \A t : Announced(t)' = Announced(t)
  BY DEF Announced
<1>2. TypeOK /\ OKIsSeen /\ SuccessOnTheWay /\ SuccessIsTrue
  BY DEF SuccessInv
<1>3. OKIsSeen' /\ SuccessIsTrue'
  BY <1>1, <1>2 DEF OKIsSeen, SuccessIsTrue
<1>4. \A e \in todo : e.task \in Tasks
  BY <1>2 DEF TypeOK, Events
<1>5. \A i \in DOMAIN out : out[i].task \in Tasks
  <2>1. out \in Seq(Events)
    BY <1>2 DEF TypeOK
  <2>2. \A i \in DOMAIN out : out[i] \in Events
    BY <2>1
  <2> QED BY <2>2 DEF Events
<1>6. SuccessOnTheWay'
  BY <1>2, <1>4, <1>5 DEF SuccessOnTheWay
<1> QED BY <1>3, <1>6 DEF SuccessInv

(* Whoever sends an event, sends one that is true, or no success.            *)
LEMMA SuccessSend ==
  ASSUME SuccessInv, TypeOK', UNCHANGED <<file, view>>, todo' \subseteq todo,
         NEW e \in Events, Send(e),
         e.phase = "finished" => file[e.task] \in Shows("finished")
  PROVE  SuccessInv'
<1>1. TypeOK /\ OKIsSeen /\ SuccessOnTheWay /\ SuccessIsTrue
  BY DEF SuccessInv
<1>2. /\ e.task \in Tasks /\ e.phase \in Phases
      /\ trace[e.task] \in Seq(Phases) /\ out \in Seq(Events)
  BY <1>1 DEF Events, TypeOK
<1>3. /\ out' = Append(out, e) /\ delivered' = delivered
      /\ trace'[e.task] = Append(trace[e.task], e.phase)
      /\ \A t \in Tasks \ {e.task} : trace'[t] = trace[t]
  BY <1>1, <1>2 DEF Send, TypeOK
<1>4. Announced(e.task)' = Announced(e.task) \cup {e.phase}
  <2> DEFINE s == trace[e.task]
             r == Append(s, e.phase)
  <2>1. {r[i] : i \in DOMAIN r} = {s[i] : i \in DOMAIN s} \cup {e.phase}
    BY <1>2, AppendPhase
  <2> QED BY <1>3, <2>1 DEF Announced
<1>5. \A t \in Tasks \ {e.task} : Announced(t)' = Announced(t)
  BY <1>3 DEF Announced
<1>6. SuccessIsTrue'
  BY <1>1, <1>3, <1>4, <1>5 DEF SuccessIsTrue
<1>7. \A i \in DOMAIN out' : out'[i] = e \/ (i \in DOMAIN out /\ out'[i] = out[i])
  BY <1>2, <1>3
<1>8. SuccessOnTheWay' /\ OKIsSeen'
  BY <1>1, <1>7 DEF SuccessOnTheWay, OKIsSeen
<1> QED BY <1>6, <1>8 DEF SuccessInv

(* A scan that reads a line as OK, whole or cut, reads the line of a success.*)
LEMMA SuccessRead ==
  ASSUME SuccessInv, TypeOK', ReadActive
  PROVE  SuccessInv'
<1>1. TypeOK /\ OKIsSeen /\ SuccessOnTheWay /\ SuccessIsTrue
  BY DEF SuccessInv
<1>2. /\ UNCHANGED <<file, todo, out, trace, delivered>> /\ view' \in Views
  BY DEF ReadActive, pve, channel
<1>3. "OK" \in Shows("finished")
  BY Zenon DEF Shows
<1>4. ASSUME NEW t \in Tasks, view'[t] = "OK" PROVE file[t] = "OK"
  <2>1. file[t] \in LineStates
    BY <1>1 DEF TypeOK
  <2>2. view'[t] \in {file[t], "lost"} \cup CutLine(file[t])
    BY <1>2 DEF Views, TornReads
  <2> QED BY <1>4, <2>1, <2>2, CutSuccess
<1>5. OKIsSeen'
  BY <1>2, <1>3, <1>4 DEF OKIsSeen
<1>6. \A t : Announced(t)' = Announced(t)
  BY <1>2 DEF Announced
<1>7. SuccessOnTheWay' /\ SuccessIsTrue'
  BY <1>1, <1>2, <1>6 DEF SuccessOnTheWay, SuccessIsTrue
<1> QED BY <1>5, <1>7 DEF SuccessInv

(* Every step keeps it, a read of torn lines included.                       *)
LEMMA SuccessStep == SuccessInv /\ [Next]_vars => SuccessInv'
<1> SUFFICES ASSUME SuccessInv, [Next]_vars PROVE SuccessInv'
  OBVIOUS
<1>1. TypeOK /\ OKIsSeen /\ SuccessOnTheWay /\ SuccessIsTrue
  BY DEF SuccessInv
<1>2. TypeOK'
  BY <1>1, TypeStep
<1>3. ASSUME NEW t \in Tasks, ActiveChange(t) PROVE SuccessInv'
  <2>1. \A u \in Tasks : file[u] \in Shows("finished") => file'[u] \in Shows("finished")
    <3>1. "finished" \in Phases
      BY DEF Phases, TerminalPhases
    <3>2. PICK r \in After(file[t]) : file' = [file EXCEPT ![t] = r]
      BY <1>3 DEF ActiveChange
    <3>3. file \in [Tasks -> LineStates]
      BY <1>1 DEF TypeOK
    <3>4. file[t] \in Shows("finished") => r \in Shows("finished")
      BY <3>1, <3>2, <3>3, LinesMoveForward
    <3> QED BY <3>2, <3>3, <3>4
  <2> QED BY <1>2, <1>3, <2>1, SuccessQuiet DEF ActiveChange, scanning, channel
<1>4. CASE InitialScan \/ FireDebounce
  BY <1>2, <1>4, SuccessRead DEF InitialScan, FireDebounce
<1>5. ASSUME NEW t \in Tasks, ParseLine(t) PROVE SuccessInv'
  <2>1. UNCHANGED <<file, view, out, trace, delivered>>
    BY <1>5 DEF ParseLine, pve, channel
  <2>2. ASSUME NEW e \in todo', e.phase = "finished"
        PROVE  e.task = t /\ view[t] = "OK"
    BY <1>5, <2>2 DEF ParseLine, Event, Outcome
  <2>3. \A u : Announced(u)' = Announced(u)
    BY <2>1 DEF Announced
  <2>4. OKIsSeen' /\ SuccessIsTrue'
    BY <1>1, <2>1, <2>3 DEF OKIsSeen, SuccessIsTrue
  <2>5. ASSUME NEW e \in todo', e.phase = "finished"
        PROVE  file[e.task] \in Shows("finished")
    <3>1. e.task = t /\ view[t] = "OK"
      BY <2>2, <2>5
    <3> QED BY <1>1, <3>1 DEF OKIsSeen
  <2>6. SuccessOnTheWay'
    BY <1>1, <2>1, <2>5 DEF SuccessOnTheWay
  <2> QED BY <1>2, <2>4, <2>6 DEF SuccessInv
<1>6. ASSUME NEW t \in Tasks, SendStarted(t) PROVE SuccessInv'
  <2>1. /\ Event(t, "started") \in Events /\ Event(t, "started").phase = "started"
    BY DEF Event, Events, Phases
  <2> QED BY <1>2, <1>6, <2>1, SuccessSend DEF SendStarted, pve
<1>7. ASSUME NEW t \in Tasks, NEW p \in TerminalPhases, SendTerminal(t, p)
      PROVE  SuccessInv'
  <2>1. Event(t, p) \in Events /\ Event(t, p) \in todo
    BY <1>7 DEF SendTerminal, Event, Events, Phases
  <2>2. Event(t, p).phase = "finished" => file[Event(t, p).task] \in Shows("finished")
    BY <1>1, <2>1 DEF SuccessOnTheWay
  <2> QED BY <1>2, <1>7, <2>1, <2>2, SuccessSend DEF SendTerminal, pve
<1>8. ASSUME NEW p \in Pollers, PollSend(p) PROVE SuccessInv'
  <2>1. Send(Event(pollTask[p], "synced")) /\ UNCHANGED <<file, view, todo>>
    BY <1>8 DEF PollSend, Poll, pve, scanning
  <2>2. pollTask[p] \in Tasks
    BY <1>1, <1>8, WatcherAssumption DEF PollSend, Poll, TypeOK
  <2>3. /\ Event(pollTask[p], "synced") \in Events
        /\ Event(pollTask[p], "synced").phase = "synced"
    BY <2>2 DEF Event, Events, Phases
  <2> QED BY <1>2, <2>1, <2>3, SuccessSend
<1>9. CASE Receive
  <2>1. /\ UNCHANGED <<file, view, todo, trace>> /\ out # <<>> /\ out' = Tail(out)
        /\ delivered' = [delivered EXCEPT ![Head(out).task] = @ \cup {Head(out).phase}]
    BY <1>9 DEF Receive, pve, scanning
  <2>2. /\ out \in Seq(Events) /\ Head(out) = out[1] /\ 1 \in DOMAIN out
        /\ \A i \in DOMAIN out' : i + 1 \in DOMAIN out /\ out'[i] = out[i + 1]
    BY <1>1, <2>1 DEF TypeOK
  <2>3. Head(out).phase = "finished" => file[Head(out).task] \in Shows("finished")
    BY <1>1, <2>2 DEF SuccessOnTheWay
  <2>4. OKIsSeen' /\ SuccessOnTheWay'
    BY <1>1, <2>1, <2>2 DEF OKIsSeen, SuccessOnTheWay
  <2>5. \A u : Announced(u)' = Announced(u)
    BY <2>1 DEF Announced
  <2>6. \A u \in Tasks : "finished" \in delivered'[u] =>
          "finished" \in delivered[u] \/ (u = Head(out).task /\ Head(out).phase = "finished")
    BY <1>1, <2>1 DEF TypeOK
  <2>7. SuccessIsTrue'
    BY <1>1, <2>1, <2>3, <2>5, <2>6 DEF SuccessIsTrue
  <2> QED BY <1>2, <2>4, <2>7 DEF SuccessInv
<1>10. CASE Restart
  <2>1. UNCHANGED <<file, view, delivered>> /\ todo' = {} /\ out' = <<>>
        /\ trace' = [t \in Tasks |-> <<>>]
    BY <1>10 DEF Restart, pve
  <2>2. \A t \in Tasks : Announced(t)' = {}
    BY <2>1 DEF Announced
  <2>3. OKIsSeen' /\ SuccessOnTheWay' /\ SuccessIsTrue'
    BY <1>1, <2>1, <2>2 DEF OKIsSeen, SuccessOnTheWay, SuccessIsTrue
  <2> QED BY <1>2, <2>3 DEF SuccessInv
<1>11. CASE UNCHANGED <<file, view, todo, out, trace, delivered>>
  BY <1>2, <1>11, SuccessQuiet
<1> QED
  BY <1>3, <1>4, <1>5, <1>6, <1>7, <1>8, <1>9, <1>10, <1>11
  DEF Next, Run, PVE, WatchMigrationSynced, EndWrite, LogMarker, AddWatches,
      HandleNotify, CollectGarbage, WatcherFails, PollCheck, PollMiss, PollFind,
      PollMark, Poll, vars, pve, scanning, channel

(* Whether the active file is replaced or rewritten in place: a success that *)
(* was sent, in any life of the daemon, is true (SuccessIsTrue).             *)
THEOREM SuccessesAreTrue == Spec => []SuccessIsTrue
<1>1. SuccessInv => SuccessIsTrue
  BY DEF SuccessInv
<1> QED BY <1>1, SuccessInit, SuccessStep, PTL DEF Spec
=============================================================================
