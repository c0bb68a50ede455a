------------------------ MODULE LifecyclePipelineInv ------------------------
(***************************************************************************)
(* The inductive invariant of LifecyclePipeline.  It sees the two channels *)
(* and the event in the enricher's hands as one queue, of which the steps  *)
(* of the enricher change nothing.                                         *)
(***************************************************************************)
EXTENDS LifecyclePipeline

Busy == rpc \in {"waiting", "sending"}

Strip(s) == [i \in DOMAIN s |-> Event(s[i].task, s[i].phase)]
Now      == IF Busy THEN <<ev>> ELSE <<>>
Queue    == (Strip(out) \o Now) \o in

\* CloudEvents of t so far: sent by runWatcher, and built by its Enricher.
Outbound(t) == {published[t][i] : i \in DOMAIN published[t]}
                 \cup {out[i] : i \in {k \in DOMAIN out : out[k].task = t}}
Enriched(t) == Outbound(t) \cup (IF rpc = "sending" /\ ev.task = t THEN {ce} ELSE {})

\* Phases of t so far: announced by the watcher, given to NATS, sent by
\* runWatcher, and received by it.
Announced(t) == {trace[t][i] : i \in DOMAIN trace[t]}
Published(t) == {published[t][i].phase : i \in DOMAIN published[t]}
Sent(t)      == {c.phase : c \in Outbound(t)}
Received(t)  == Sent(t) \cup (IF Busy /\ ev.task = t THEN {ev.phase} ELSE {})

\* What runWatcher has in hand: only a started event of a migration waits.
HandIsFull == /\ Busy => ev \in Events
              /\ rpc = "waiting" => ev.phase = "started"
              /\ rpc = "sending" => /\ ce \in CloudEvents
                                    /\ ce.task = ev.task /\ ce.phase = ev.phase

\* Phases of t among the first n of a queue q.
Queued(q, t, n) == {q[i].phase : i \in {k \in 1..n : q[k].task = t}}

\* What was announced was published or is queued.
NothingIsLost ==
  \A t \in Tasks : Announced(t) = Published(t) \cup Queued(Queue, t, Len(Queue))

\* p can be the next phase of a task that had those before it.
InTurn(p, before) ==
  /\ p \notin before
  /\ p = "started" <=> before = {}
  /\ p # "started" => "started" \in before
  /\ p \in TerminalPhases => before \cap TerminalPhases = {}

\* Each event of q comes in turn, when given[t] are the phases of t before q.
AllInTurn(q, given) ==
  \A k \in DOMAIN q : InTurn(q[k].phase, given[q[k].task] \cup Queued(q, q[k].task, k - 1))

QueueIsInTurn == AllInTurn(Queue, [t \in Tasks |-> Published(t)])

\* The file still shows what a queued event says.
QueueIsShown ==
  \A i \in DOMAIN Queue : /\ Queue[i].phase = "synced" => Queue[i].task \in Migrations
                          /\ file[Queue[i].task] \in Shows(Queue[i].phase)

\* A start time is kept from the start until the outcome is sent.
StartsAreKept ==
  \A t \in Tasks : t \in starts <=> /\ "started" \in Received(t)
                                    /\ Sent(t) \cap TerminalPhases = {}

\* A target that a consumer was or will be told is kept until the outcome comes.
TargetsAreKept ==
  \A t \in Tasks :
    /\ targets[t] # "none" => Received(t) \cap TerminalPhases = {}
    /\ \A c \in Enriched(t) :
         c.phase = "started" /\ c.target # "none" =>
           IF Received(t) \cap TerminalPhases = {}
             THEN targets[t] # "none"
             ELSE \A d \in Enriched(t) : d.phase \in TerminalPhases => d.target # "none"

EnrichedAreTimed ==
  \A t \in Tasks : \A c \in Enriched(t) : c.phase \in TerminalPhases => c.timed

PipelineInv == /\ TypeOK /\ HandIsFull
               /\ NothingIsLost /\ QueueIsInTurn /\ QueueIsShown
               /\ StartsAreKept /\ TargetsAreKept /\ EnrichedAreTimed
=============================================================================
