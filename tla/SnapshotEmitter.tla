-------------------------- MODULE SnapshotEmitter --------------------------
(***************************************************************************)
(* internal/snapshot/snapshot.go and its callers in runDaemon: batches of  *)
(* state events, emitted by the periodic loop and by one callback per      *)
(* request subject, all at the same time and into the channel out that the *)
(* lifecycle events also use.  A full channel drops snapshot events.       *)
(***************************************************************************)
EXTENDS Naturals, Sequences, FiniteSets

CONSTANTS
  VMs,          \* VMs and containers that can have a config on this node
  Loop,         \* the goroutine of Emitter.Run
  Callbacks,    \* the goroutines of the two subscriptions
  OutCap,       \* capacity of out, 1024 in runDaemon
  MaxBatches,   \* bound on the batches
  MaxChanges,   \* bound on the state changes of a VM
  MaxForeign    \* bound on the lifecycle events that go through out

ASSUME SnapshotAssumption == /\ IsFiniteSet(VMs) /\ Loop \notin Callbacks
                             /\ OutCap \in Nat \ {0} /\ MaxBatches \in Nat
                             /\ MaxChanges \in Nat /\ MaxForeign \in Nat

VARIABLES
  \* the node
  listed,       \* VMs with a config in pmxcfs
  version,      \* version[vm]: how often the state of vm has changed; the state
                \* itself alternates, so it is the version's parity
  \* the emitters
  tick,         \* does the ticker of Run hold a tick?
  requests,     \* requests[e]: snapshot requests not yet taken by callback e
  pc,           \* "idle", "next" or "probed"
  batch,        \* batch[e]: snapshot_id of e's batch
  left,         \* VMs of the batch not yet probed
  obs,          \* the observation being sent
  count,
  out,          \* the channel
  \* history
  vmList,       \* vmList[b]: what VMList returned for batch b
  since,        \* since[b]: version when batch b began
  foreign,      \* lifecycle events so far
  received      \* what consumers received, in order

Emitters == {Loop} \cup Callbacks
Batches  == 1..MaxBatches

node     == <<listed, version>>
batches  == <<vmList, since>>
emitter  == <<pc, batch, left, obs, count>>
vars == <<node, emitter, tick, requests, out, batches, foreign, received>>

NoObs == [vm |-> "none", version |-> 0]
Foreign == [type |-> "lifecycle"]
State(o, b)    == [type |-> "state", id |-> b, vm |-> o.vm, version |-> o.version]
Complete(b, n) == [type |-> "complete", id |-> b, count |-> n]

Begun == DOMAIN vmList

\* Triggers and the list of VMs stand still once nothing can read them.
MoreBatches == Len(vmList) < MaxBatches

Init == /\ listed \in SUBSET VMs
        /\ version = [vm \in VMs |-> 0]
        /\ tick = TRUE
        /\ requests = [e \in Callbacks |-> 0]
        /\ pc = [e \in Emitters |-> "idle"]
        /\ batch = [e \in Emitters |-> 0]
        /\ left = [e \in Emitters |-> {}]
        /\ obs = [e \in Emitters |-> NoObs]
        /\ count = [e \in Emitters |-> 0]
        /\ out = <<>>
        /\ vmList = <<>> /\ since = <<>>
        /\ foreign = 0
        /\ received = <<>>

(* The node and its clients *)

StateChange(vm) ==
  /\ version[vm] < MaxChanges
  /\ version' = [version EXCEPT ![vm] = @ + 1]
  /\ UNCHANGED <<listed, emitter, tick, requests, out, batches, foreign, received>>

\* A VM is created, destroyed, or leaves with a migration.
ListChange(vm) ==
  /\ MoreBatches
  /\ listed' = IF vm \in listed THEN listed \ {vm} ELSE listed \cup {vm}
  /\ UNCHANGED <<version, emitter, tick, requests, out, batches, foreign, received>>

Request(e) == /\ MoreBatches /\ requests[e] = 0
              /\ requests' = [requests EXCEPT ![e] = 1]
              /\ UNCHANGED <<node, emitter, tick, out, batches, foreign, received>>

\* The ticker holds one tick and drops those that come meanwhile.
Tick == /\ MoreBatches /\ tick' = TRUE
        /\ UNCHANGED <<node, emitter, requests, out, batches, foreign, received>>

\* runWatcher's send blocks while the channel is full.
LifecycleEvent ==
  /\ foreign < MaxForeign /\ Len(out) < OutCap
  /\ foreign' = foreign + 1
  /\ out' = Append(out, Foreign)
  /\ UNCHANGED <<node, emitter, tick, requests, batches, received>>

\* An error of PublishJSON is logged and the event lost.
Publish == /\ out # <<>>
           /\ received' \in {received, Append(received, Head(out))}
           /\ out' = Tail(out)
           /\ UNCHANGED <<node, emitter, tick, requests, batches, foreign>>

(* emitBatch *)

\* Run takes its tick, a callback its message.
Triggered(e) == IF e = Loop
                  THEN tick /\ tick' = FALSE /\ UNCHANGED requests
                  ELSE /\ requests[e] > 0
                       /\ requests' = [requests EXCEPT ![e] = @ - 1]
                       /\ UNCHANGED tick

\* Mutant: the batches of a callback share one id.
BeginSharedId(e) ==
  /\ pc[e] = "idle" /\ MoreBatches
  /\ Triggered(e)
  /\ vmList' = IF e # Loop /\ batch[e] # 0 THEN vmList ELSE Append(vmList, listed)
  /\ since' = IF vmList' = vmList THEN since ELSE Append(since, version)
  /\ batch' = [batch EXCEPT ![e] = Len(vmList')]
  /\ left' = [left EXCEPT ![e] = listed]
  /\ count' = [count EXCEPT ![e] = 0]
  /\ pc' = [pc EXCEPT ![e] = "next"]
  /\ UNCHANGED <<node, obs, out, foreign, received>>

\* A fresh id, and the VMs of the node.
Begin(e) == /\ pc[e] = "idle" /\ MoreBatches
            /\ Triggered(e)
            /\ vmList' = Append(vmList, listed)
            /\ since' = Append(since, version)
            /\ batch' = [batch EXCEPT ![e] = Len(vmList')]
            /\ left' = [left EXCEPT ![e] = listed]
            /\ count' = [count EXCEPT ![e] = 0]
            /\ pc' = [pc EXCEPT ![e] = "next"]
            /\ UNCHANGED <<node, obs, out, foreign, received>>

\* VMList fails: the batch ends without a word.
BeginFails(e) == /\ pc[e] = "idle" /\ MoreBatches
                 /\ Triggered(e)
                 /\ UNCHANGED <<node, emitter, out, batches, foreign, received>>

\* Mutant: a VM that the channel holds a state of is not probed again.
ProbeOnce(e) ==
  /\ pc[e] = "next"
  /\ \E vm \in left[e] :
       LET sent == {i \in DOMAIN out : out[i].type = "state" /\ out[i].vm = vm}
       IN  /\ left' = [left EXCEPT ![e] = @ \ {vm}]
           /\ \E v \in IF sent = {} THEN {version[vm]} ELSE {out[i].version : i \in sent} :
                obs' = [obs EXCEPT ![e] = [vm |-> vm, version |-> v]]
  /\ pc' = [pc EXCEPT ![e] = "probed"]
  /\ UNCHANGED <<node, batch, count, tick, requests, out, batches, foreign,
                 received>>

\* The state the VM has now.
Probe(e) == /\ pc[e] = "next"
            /\ \E vm \in left[e] :
                 /\ left' = [left EXCEPT ![e] = @ \ {vm}]
                 /\ obs' = [obs EXCEPT ![e] = [vm |-> vm, version |-> version[vm]]]
            /\ pc' = [pc EXCEPT ![e] = "probed"]
            /\ UNCHANGED <<node, batch, count, tick, requests, out, batches,
                           foreign, received>>

\* Mutant: a full channel blocks the batch.
SendBlocks(x) == Len(out) < OutCap /\ out' = Append(out, x)

\* Mutant: the channel grows without bound.
SendUnbounded(x) == out' = Append(out, x)

\* send never blocks: it drops.
Send(x) == out' = IF Len(out) < OutCap THEN Append(out, x) ELSE out

\* Mutant: only what the channel took is counted.
SendStateCountsSent(e) ==
  /\ pc[e] = "probed"
  /\ Send(State(obs[e], batch[e]))
  /\ count' = IF out' # out THEN [count EXCEPT ![e] = @ + 1] ELSE count
  /\ obs' = [obs EXCEPT ![e] = NoObs]
  /\ pc' = [pc EXCEPT ![e] = "next"]
  /\ UNCHANGED <<node, batch, left, tick, requests, batches, foreign,
                 received>>

\* The event is counted, sent or dropped.
SendState(e) == /\ pc[e] = "probed"
                /\ Send(State(obs[e], batch[e]))
                /\ count' = [count EXCEPT ![e] = @ + 1]
                /\ obs' = [obs EXCEPT ![e] = NoObs]
                /\ pc' = [pc EXCEPT ![e] = "next"]
                /\ UNCHANGED <<node, batch, left, tick, requests,
                               batches, foreign, received>>

SendComplete(e) == /\ pc[e] = "next" /\ left[e] = {}
                   /\ Send(Complete(batch[e], count[e]))
                   /\ pc' = [pc EXCEPT ![e] = "idle"]
                   /\ UNCHANGED <<node, batch, left, obs, count, tick,
                                  requests, batches, foreign, received>>

EmitBatch(e) == \/ Begin(e) \/ BeginFails(e) \/ Probe(e)
                \/ SendState(e) \/ SendComplete(e)

Next == \/ \E vm \in VMs : StateChange(vm) \/ ListChange(vm)
        \/ \E e \in Callbacks : Request(e)
        \/ Tick \/ LifecycleEvent \/ Publish
        \/ \E e \in Emitters : EmitBatch(e)

Spec == Init /\ [][Next]_vars
-----------------------------------------------------------------------------
StatesOf(b)    == {i \in DOMAIN received : /\ received[i].type = "state"
                                           /\ received[i].id = b}
CompletesOf(b) == {i \in DOMAIN received : /\ received[i].type = "complete"
                                           /\ received[i].id = b}

TypeOK ==
  /\ listed \subseteq VMs /\ version \in [VMs -> 0..MaxChanges]
  /\ tick \in BOOLEAN
  /\ requests \in [Callbacks -> 0..1]
  /\ pc \in [Emitters -> {"idle", "next", "probed"}]
  /\ batch \in [Emitters -> 0..MaxBatches]
  /\ left \in [Emitters -> SUBSET VMs]
  /\ \A e \in Emitters : obs[e] = NoObs \/ obs[e].vm \in VMs
  /\ count \in [Emitters -> 0..Cardinality(VMs)]
  /\ Len(out) <= OutCap
  /\ vmList \in Seq(SUBSET VMs) /\ Len(vmList) <= MaxBatches
  /\ since \in Seq([VMs -> 0..MaxChanges]) /\ Len(since) = Len(vmList)
  /\ foreign \in 0..MaxForeign

(* docs/EVENTS.md:122: count lets a consumer confirm the entire batch: when  *)
(* as many states as count says have arrived, they are those of every VM     *)
(* that VMList returned, once each, whatever other batches and drops do.     *)
CountConfirms ==
  \A b \in Begun : \A i \in CompletesOf(b) :
    received[i].count = Cardinality(StatesOf(b))
      => {received[j].vm : j \in StatesOf(b)} = vmList[b]

(* The completion of a batch is the last event of its snapshot_id, so it     *)
(* can be acted on when it arrives.                                          *)
CompleteIsLast ==
  \A b \in Begun : \A i \in CompletesOf(b) :
    /\ \A j \in StatesOf(b) : j < i
    /\ \A k \in DOMAIN out : out[k].type = "lifecycle" \/ out[k].id # b

(* snapshot.go:127: a batch is never held up by the channel, which lifecycle *)
(* events and other batches may have filled: it can always take a step.      *)
NeverBlocked == \A e \in Emitters : pc[e] # "idle" => ENABLED EmitBatch(e)

(* A batch answers its trigger: a state in it is one that the VM had after   *)
(* the batch began, however long the channel, or another batch, held it up.  *)
AnswersAreFresh ==
  \A b \in Begun : \A i \in StatesOf(b) : received[i].version >= since[b][received[i].vm]
=============================================================================
