---------------------------- MODULE SnapshotInv ----------------------------
(***************************************************************************)
(* The inductive invariant of SnapshotEmitter.  It says of a batch that is *)
(* being emitted what it still owes, and of two events on their way which  *)
(* may come first.                                                         *)
(***************************************************************************)
EXTENDS SnapshotEmitter

Observations == [vm : VMs, version : 0..MaxChanges]

StateEvents    == [type : {"state"}, id : Batches, vm : VMs, version : 0..MaxChanges]
CompleteEvents == [type : {"complete"}, id : Batches, count : 0..Cardinality(VMs)]
Events         == {Foreign} \cup StateEvents \cup CompleteEvents

EventsOK == /\ obs \in [Emitters -> Observations \cup {NoObs}]
            /\ out \in Seq(Events)
            /\ received \in Seq(Events)

\* What the channel has taken and consumers have received or may receive.
Sent == {received[i] : i \in DOMAIN received} \cup {out[i] : i \in DOMAIN out}

Of(x, b) == x.type # "lifecycle" /\ x.id = b

\* The VMs that a batch still has to tell of.
Owed(e) == left[e] \cup (IF pc[e] = "probed" THEN {obs[e].vm} ELSE {})

\* No two goroutines emit the same batch.
BatchesAreApart ==
  \A e, f \in Emitters :
    pc[e] # "idle" /\ pc[f] # "idle" /\ batch[e] = batch[f] => e = f

SinceIsPast == \A b \in Begun : \A vm \in VMs : since[b][vm] <= version[vm]

\* An observation is one of the VMs left, made in the course of the batch.
HandIsFresh ==
  \A e \in Emitters : pc[e] = "probed" =>
    /\ obs[e] \in Observations /\ obs[e].vm \notin left[e]
    /\ since[batch[e]][obs[e].vm] <= obs[e].version

\* A batch that is being emitted tells of every VM once, and is not complete.
BatchGoesOn ==
  \A e \in Emitters : pc[e] # "idle" =>
    /\ batch[e] \in Begun
    /\ Owed(e) \subseteq vmList[batch[e]]
    /\ count[e] + Cardinality(Owed(e)) = Cardinality(vmList[batch[e]])
    /\ \A x \in Sent : Of(x, batch[e]) => x.type = "state" /\ x.vm \notin Owed(e)

\* An event tells what its batch found.
EventIsTrue(x) ==
  /\ x.type = "state" => /\ x.id \in Begun /\ x.vm \in vmList[x.id]
                         /\ since[x.id][x.vm] <= x.version
  /\ x.type = "complete" => /\ x.id \in Begun
                            /\ x.count = Cardinality(vmList[x.id])

EventsAreTrue == \A x \in Sent : EventIsTrue(x)

\* x may come before y: nothing of a batch follows its completion, and no VM is
\* told of twice.
MayPrecede(x, y) ==
  x.type # "lifecycle" /\ Of(y, x.id) => /\ x.type = "state"
                                         /\ y.type = "state" => y.vm # x.vm

Ordered(s) == \A i, j \in DOMAIN s : i < j => MayPrecede(s[i], s[j])

SentInOrder ==
  /\ Ordered(received) /\ Ordered(out)
  /\ \A i \in DOMAIN received : \A j \in DOMAIN out : MayPrecede(received[i], out[j])

SnapshotInv == /\ TypeOK /\ EventsOK
               /\ BatchesAreApart /\ SinceIsPast /\ HandIsFresh /\ BatchGoesOn
               /\ EventsAreTrue /\ SentInOrder
=============================================================================
