------------------------- MODULE LifecyclePipeline -------------------------
(***************************************************************************)
(* From the watcher's channel to NATS: the goroutine of runWatcher         *)
(* (cmd/proxmox-eventbus/main.go) with the Enricher it calls               *)
(* (internal/enrich/enrich.go), and the publisher loop of runDaemon.  The  *)
(* watcher is replaced by what it promises, TaskLifecycle: a module that   *)
(* TaskWatcher implements.                                                 *)
(***************************************************************************)
EXTENDS ActiveFile, Naturals, Sequences

CONSTANTS
  Tasks,        \* the tasks whose worker type and kind are published
  Migrations,   \* QEMU migrations: they can be announced as synced
  Migrates,     \* tasks with action migrate: QEMU and LXC migrations
  InCap,        \* capacity of the watcher's channel, 256 in NewWatcher
  OutCap,       \* capacity of the channel out of runDaemon, 1024
  PidReuse      \* may the PID of a finished worker become another migration's?

ASSUME PipelineAssumption == /\ Migrations \subseteq Migrates
                             /\ Migrates \subseteq Tasks
                             /\ InCap \in Nat \ {0} /\ OutCap \in Nat \ {0}
                             /\ PidReuse \in BOOLEAN

VARIABLES
  file, trace,  \* the watcher, as in TaskLifecycle
  in,           \* w.Events(): events [task, phase]
  \* the outside of a migration: the target node read from /proc/PID/cmdline
  \* ("own", "other" or "none"), and the migrations whose log names the target
  argv, logged,
  \* runWatcher and its Enricher
  rpc,          \* "select", "waiting" for the log, "sending" or "returned"
  ev,           \* the event being enriched
  ce,           \* its CloudEvent
  starts,       \* tasks whose start time is kept
  targets,      \* migrateTargets: the target kept for a task, or "none"
  out,          \* the channel of CloudEvents
  daemon,       \* "up", "signalled" (its context is cancelled) or "exited"
  published     \* published[t]: CloudEvents of t given to PublishJSON

watcher  == <<file, trace, in>>
outside  == <<argv, logged>>
handler  == <<rpc, ev, ce, starts, targets>>
vars == <<watcher, outside, handler, out, daemon, published>>

Watcher == INSTANCE TaskLifecycle

Event(t, p) == [task |-> t, phase |-> p]
Events == [task : Tasks, phase : Phases]
Targets == {"own", "other", "none"}
CloudEvents == [task : Tasks, phase : Phases, target : Targets, timed : BOOLEAN]

NoEvent == [task |-> "none", phase |-> "none"]

\* An HA migration has no target on its command line.
Init == /\ Watcher!Init
        /\ in = <<>>
        /\ argv \in [Tasks -> {"own", "none"}]
        /\ logged \in SUBSET Migrates
        /\ rpc = "select" /\ ev = NoEvent /\ ce = NoEvent
        /\ starts = {} /\ targets = [t \in Tasks |-> "none"]
        /\ out = <<>>
        /\ daemon = "up"
        /\ published = [t \in Tasks |-> <<>>]

(* The watcher, the migration's process and its log *)

Progress(t) == /\ Watcher!Progress(t)
               /\ UNCHANGED <<in, outside, handler, out, daemon, published>>

Announce(t) ==
  /\ daemon # "exited" /\ Len(in) < InCap
  /\ Watcher!Start(t) \/ Watcher!Sync(t) \/ Watcher!End(t)
  /\ in' = Append(in, Event(t, trace'[t][Len(trace'[t])]))
  /\ UNCHANGED <<outside, handler, out, daemon, published>>

ProcessExits(t) == /\ argv[t] = "own"
                   /\ argv' = [argv EXCEPT ![t] = "none"]
                   /\ UNCHANGED <<watcher, logged, handler, out, daemon, published>>

PidReused(t) == /\ PidReuse
                /\ file[t] \notin {"future", "running"} /\ argv[t] = "none"
                /\ argv' = [argv EXCEPT ![t] = "other"]
                /\ UNCHANGED <<watcher, logged, handler, out, daemon, published>>

LogNamesTarget(t) == /\ t \notin logged
                     /\ logged' = logged \cup {t}
                     /\ UNCHANGED <<watcher, argv, handler, out, daemon, published>>

(* runWatcher *)

\* resolveMigrateTarget without its wait: the command line, else the log.
Resolve(t) == IF argv[t] # "none" THEN argv[t]
              ELSE IF t \in logged THEN "own" ELSE "none"

\* Mutant: whatever is found is remembered, in any phase.
LifecycleRemembersAll(e, found) ==
  LET target == IF found # "none" THEN found ELSE targets[e.task]
  IN  /\ targets' = [targets EXCEPT ![e.task] = target]
      /\ ce' = [task |-> e.task, phase |-> e.phase, target |-> target,
                timed |-> e.phase \in TerminalPhases /\ e.task \in starts']
      /\ rpc' = "sending"

\* Mutant: the target is forgotten with any phase but started.
LifecycleForgetsEarly(e, found) ==
  LET target == IF found # "none" THEN found ELSE targets[e.task]
  IN  /\ targets' = [targets EXCEPT ![e.task] =
                       IF e.phase # "started" THEN "none" ELSE target]
      /\ ce' = [task |-> e.task, phase |-> e.phase, target |-> target,
                timed |-> e.phase \in TerminalPhases /\ e.task \in starts']
      /\ rpc' = "sending"

\* Lifecycle, once it knows what was found for a migration: a target that was
\* not found is recalled, the target of a started event is remembered, that of
\* an ended task forgotten.
Lifecycle(e, found) ==
  LET target == IF found # "none" THEN found ELSE targets[e.task]
  IN  /\ targets' = [targets EXCEPT ![e.task] =
                       CASE e.phase = "started" /\ target # "none" -> target
                         [] e.phase \in TerminalPhases -> "none"
                         [] OTHER -> @]
      /\ ce' = [task |-> e.task, phase |-> e.phase, target |-> target,
                timed |-> e.phase \in TerminalPhases /\ e.task \in starts']
      /\ rpc' = "sending"

\* An event is received, which the select may prefer to a cancelled context.
\* The started event of a migration whose target is not found waits for the log.
Receive ==
  /\ daemon # "exited" /\ rpc = "select" /\ in # <<>>
  /\ LET e == Head(in)
         found == IF e.task \in Migrates THEN Resolve(e.task) ELSE "none"
     IN  /\ ev' = e
         /\ in' = Tail(in)
         /\ starts' = IF e.phase = "started" THEN starts \cup {e.task} ELSE starts
         /\ IF e.task \in Migrates /\ e.phase = "started" /\ found = "none"
              THEN rpc' = "waiting" /\ UNCHANGED <<ce, targets>>
              ELSE Lifecycle(e, found)
  /\ UNCHANGED <<file, trace, outside, out, daemon, published>>

LogFound == /\ daemon # "exited" /\ rpc = "waiting" /\ ev.task \in logged
            /\ UNCHANGED <<watcher, outside, ev, starts, out, daemon, published>>
            /\ Lifecycle(ev, "own")

\* Mutant: the wait only ends when the log has the target.
WaitExpiresNever == /\ daemon # "exited" /\ rpc = "waiting" /\ ev.task \in logged
                    /\ UNCHANGED <<watcher, outside, ev, starts, out, daemon,
                                   published>>
                    /\ Lifecycle(ev, "none")

\* After migrateTargetWait without a target.
WaitExpires == /\ daemon # "exited" /\ rpc = "waiting"
               /\ UNCHANGED <<watcher, outside, ev, starts, out, daemon, published>>
               /\ Lifecycle(ev, "none")

\* Mutant: a full channel drops the event, as the snapshot emitter does.
ForwardOrDrop ==
  /\ daemon # "exited" /\ rpc = "sending"
  /\ out' = IF Len(out) < OutCap THEN Append(out, ce) ELSE out
  /\ starts' = IF ev.phase \in TerminalPhases THEN starts \ {ev.task} ELSE starts
  /\ rpc' = "select"
  /\ UNCHANGED <<watcher, outside, ev, ce, targets, daemon, published>>

\* Mutant: the channel grows instead of blocking.
ForwardUnbounded ==
  /\ daemon # "exited" /\ rpc = "sending"
  /\ out' = Append(out, ce)
  /\ starts' = IF ev.phase \in TerminalPhases THEN starts \ {ev.task} ELSE starts
  /\ rpc' = "select"
  /\ UNCHANGED <<watcher, outside, ev, ce, targets, daemon, published>>

\* Mutant: the start time is deleted with any phase but started.
ForwardDeletesEarly ==
  /\ daemon # "exited" /\ rpc = "sending" /\ Len(out) < OutCap
  /\ out' = Append(out, ce)
  /\ starts' = IF ev.phase # "started" THEN starts \ {ev.task} ELSE starts
  /\ rpc' = "select"
  /\ UNCHANGED <<watcher, outside, ev, ce, targets, daemon, published>>

\* The send blocks while the channel is full, also when the daemon stops.
Forward == /\ daemon # "exited" /\ rpc = "sending" /\ Len(out) < OutCap
           /\ out' = Append(out, ce)
           /\ starts' = IF ev.phase \in TerminalPhases THEN starts \ {ev.task} ELSE starts
           /\ rpc' = "select"
           /\ UNCHANGED <<watcher, outside, ev, ce, targets, daemon, published>>

WatcherReturns == /\ daemon = "signalled" /\ rpc = "select"
                  /\ rpc' = "returned"
                  /\ UNCHANGED <<watcher, outside, ev, ce, starts, targets, out,
                                 daemon, published>>

(* The publisher loop.  NATS delivers what PublishJSON is given at most once *)
(* (an error is logged and the event lost), which changes nothing here.      *)

Publish == /\ daemon # "exited" /\ out # <<>>
           /\ out' = Tail(out)
           /\ published' = [published EXCEPT ![Head(out).task] = Append(@, Head(out))]
           /\ UNCHANGED <<watcher, outside, handler, daemon>>

Signal == /\ daemon = "up" /\ daemon' = "signalled"
          /\ UNCHANGED <<watcher, outside, handler, out, published>>

\* The publisher takes the cancelled context, and runDaemon returns with
\* whatever is still queued.
Exit == /\ daemon = "signalled" /\ daemon' = "exited"
        /\ UNCHANGED <<watcher, outside, handler, out, published>>

Next == \/ \E t \in Tasks : Progress(t) \/ Announce(t)
        \/ \E t \in Migrates : ProcessExits(t) \/ PidReused(t) \/ LogNamesTarget(t)
        \/ Receive \/ LogFound \/ WaitExpires \/ Forward
        \/ WatcherReturns
        \/ Publish
        \/ Signal \/ Exit

Spec == Init /\ [][Next]_vars

(* Both goroutines are scheduled and the deadline of the wait arrives.       *)
FairSpec == /\ Spec
            /\ WF_vars(Receive) /\ WF_vars(WaitExpires) /\ WF_vars(Forward)
            /\ WF_vars(Publish)
-----------------------------------------------------------------------------
TypeOK ==
  /\ file \in [Tasks -> LineStates] /\ trace \in [Tasks -> Seq(Phases)]
  /\ in \in Seq(Events) /\ Len(in) <= InCap
  /\ argv \in [Tasks -> Targets] /\ logged \subseteq Migrates
  /\ rpc \in {"select", "waiting", "sending", "returned"}
  /\ ev \in Events \cup {NoEvent} /\ ce \in CloudEvents \cup {NoEvent}
  /\ starts \subseteq Tasks /\ targets \in [Tasks -> Targets]
  /\ out \in Seq(CloudEvents) /\ Len(out) <= OutCap
  /\ daemon \in {"up", "signalled", "exited"}
  /\ published \in [Tasks -> Seq(CloudEvents)]

PublishedPhases == [t \in Tasks |-> [i \in DOMAIN published[t] |-> published[t][i].phase]]

(* What consumers see of a task is again a TaskLifecycle: two channels and   *)
(* the enricher neither lose, repeat nor reorder the events of a task.       *)
EndToEnd == INSTANCE TaskLifecycle WITH trace <- PublishedPhases
RefinesLifecycle == EndToEnd!Spec

(* docs/EVENTS.md:98: a finished event always has a duration_ms, although    *)
(* synced events pass between start and end, or after the end.               *)
DurationAlways ==
  \A t \in Tasks : \A i \in DOMAIN published[t] :
    published[t][i].phase \in TerminalPhases => published[t][i].timed

(* A consumer that was told where a VM migrates is told so again when the    *)
(* migration ends, also when process and log are out of reach by then.       *)
TargetKept ==
  \A t \in Tasks : \A i, j \in DOMAIN published[t] :
    /\ published[t][i].phase = "started" /\ published[t][i].target # "none"
    /\ published[t][j].phase \in TerminalPhases
    => published[t][j].target # "none"

\* The outcome of t and every other event of t announced so far are enriched.
Settled(t) == /\ \E i \in DOMAIN trace[t] : trace[t][i] \in TerminalPhases
              /\ \A i \in DOMAIN in : in[i].task # t
              /\ rpc \in {"waiting", "sending"} => ev.task # t

(* Start times and targets are not kept for tasks that have ended, even when *)
(* a synced event comes after the end.                                       *)
NothingKeptAfterEnd ==
  \A t \in Tasks : Settled(t) => t \notin starts /\ targets[t] = "none"

(* What the watcher announces is published in the end, unless the daemon is  *)
(* told to stop: no full channel and no wait for a log holds it up for ever. *)
EventuallyPublished == <>[](daemon = "up" => PublishedPhases = trace)

(* docs/EVENTS.md:95 says that target_node comes from the command line of    *)
(* the spawning migration process.                                           *)
TargetIsOwn ==
  \A t \in Tasks : \A i \in DOMAIN published[t] : published[t][i].target # "other"
=============================================================================
