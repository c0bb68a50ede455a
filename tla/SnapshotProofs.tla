--------------------------- MODULE SnapshotProofs ---------------------------
(***************************************************************************)
(* What holds of the batches of state events, for any finite set of VMs,   *)
(* any number of batches at a time, and any capacity of the channel.       *)
(***************************************************************************)
EXTENDS SnapshotInv, SequenceLemmas, FiniteSetTheorems, TLAPS

(* Sequences that are put in order *)

(* An event that may follow all those of a sequence keeps it in order.       *)
LEMMA OrderedAppend ==
  ASSUME NEW s \in Seq(Events), NEW x \in Events, Ordered(s),
         \A i \in DOMAIN s : MayPrecede(s[i], x)
  PROVE  Ordered(Append(s, x))
<1> DEFINE r == Append(s, x)
<1>1. /\ Len(s) \in Nat /\ DOMAIN s = 1..Len(s) /\ DOMAIN r = 1..Len(s) + 1
      /\ \A i \in 1..Len(s) : r[i] = s[i]
      /\ r[Len(s) + 1] = x
  BY AppendElements
<1> HIDE DEF r
<1> SUFFICES ASSUME NEW i \in DOMAIN r, NEW j \in DOMAIN r, i < j
             PROVE  MayPrecede(r[i], r[j])
  BY DEF Ordered, r
<1>2. i \in DOMAIN s /\ r[i] = s[i]
  BY <1>1
<1>3. CASE j \in DOMAIN s
  <2>1. r[j] = s[j] /\ MayPrecede(s[i], s[j])
    BY <1>1, <1>2, <1>3 DEF Ordered
  <2> QED BY <1>2, <2>1
<1>4. CASE j = Len(s) + 1
  <2>1. r[j] = x
    BY <1>1, <1>4
  <2> QED BY <1>2, <2>1
<1> QED BY <1>1, <1>3, <1>4

(* What is left of a sequence in order is in order.                          *)
LEMMA OrderedTail ==
  ASSUME NEW s \in Seq(Events), s # <<>>, Ordered(s)
  PROVE  Ordered(Tail(s)) /\ \A j \in DOMAIN Tail(s) : MayPrecede(Head(s), Tail(s)[j])
<1> DEFINE r == Tail(s)
<1>1. /\ Len(s) \in Nat \ {0} /\ DOMAIN s = 1..Len(s) /\ DOMAIN r = 1..Len(s) - 1
      /\ \A i \in 1..Len(s) - 1 : r[i] = s[i + 1]
      /\ Head(s) = s[1]
  BY TailElements
<1> HIDE DEF r
<1>2. ASSUME NEW i \in DOMAIN r, NEW j \in DOMAIN r, i < j
      PROVE  MayPrecede(r[i], r[j])
  <2>1. i + 1 \in DOMAIN s /\ j + 1 \in DOMAIN s /\ i + 1 < j + 1
    BY <1>1, <1>2
  <2>2. r[i] = s[i + 1] /\ r[j] = s[j + 1]
    BY <1>1
  <2>3. \A k, l \in DOMAIN s : k < l => MayPrecede(s[k], s[l])
    BY DEF Ordered
  <2> QED BY <2>1, <2>2, <2>3
<1>3. ASSUME NEW j \in DOMAIN r PROVE MayPrecede(Head(s), r[j])
  <2>1. 1 \in DOMAIN s /\ j + 1 \in DOMAIN s /\ 1 < j + 1 /\ r[j] = s[j + 1]
    BY <1>1
  <2>2. \A k, l \in DOMAIN s : k < l => MayPrecede(s[k], s[l])
    BY DEF Ordered
  <2> QED BY <1>1, <2>1, <2>2
<1> QED BY <1>2, <1>3 DEF Ordered, r
-----------------------------------------------------------------------------
(* What is on its way *)

(* A batch's state or completion is an event unlike the lifecycle events.    *)
LEMMA EventKinds ==
  /\ Foreign \in Events /\ Foreign.type = "lifecycle"
  /\ \A o \in Observations, b \in Batches :
       /\ State(o, b) \in StateEvents /\ State(o, b).type = "state" /\ State(o, b).id = b
       /\ State(o, b).vm = o.vm /\ State(o, b).version = o.version
  /\ \A b \in Batches, n \in 0..Cardinality(VMs) :
       /\ Complete(b, n) \in CompleteEvents /\ Complete(b, n).type = "complete"
       /\ Complete(b, n).id = b /\ Complete(b, n).count = n
<1>1. Foreign \in Events /\ Foreign.type = "lifecycle"
  BY DEF Foreign, Events
<1>2. ASSUME NEW o \in Observations, NEW b \in Batches
      PROVE  /\ State(o, b) \in StateEvents /\ State(o, b).type = "state" /\ State(o, b).id = b
             /\ State(o, b).vm = o.vm /\ State(o, b).version = o.version
  BY DEF Observations, State, StateEvents
<1>3. ASSUME NEW b \in Batches, NEW n \in 0..Cardinality(VMs)
      PROVE  /\ Complete(b, n) \in CompleteEvents /\ Complete(b, n).type = "complete"
             /\ Complete(b, n).id = b /\ Complete(b, n).count = n
  BY DEF Complete, CompleteEvents
<1> QED BY <1>1, <1>2, <1>3

(* The channel takes an event, or drops it: either way all that is on its    *)
(* way stays in order, when the event may follow what was sent before.       *)
LEMMA SendInOrder ==
  ASSUME SnapshotInv, NEW x \in Events, received' = received,
         (out' = Append(out, x) /\ Len(out) < OutCap) \/ out' = out,
         \A y \in Sent : MayPrecede(y, x)
  PROVE  /\ SentInOrder' /\ out' \in Seq(Events) /\ Len(out') <= OutCap
         /\ Sent' \subseteq Sent \cup {x}
<1>1. out \in Seq(Events) /\ Ordered(out) /\ Ordered(received) /\ Len(out) <= OutCap
      /\ \A i \in DOMAIN received : \A j \in DOMAIN out : MayPrecede(received[i], out[j])
  BY DEF SnapshotInv, EventsOK, SentInOrder, TypeOK
<1>2. CASE out' = out
  BY <1>1, <1>2 DEF SentInOrder, Sent, Ordered
<1>3. CASE out' = Append(out, x) /\ Len(out) < OutCap
  <2>1. /\ out' \in Seq(Events) /\ Len(out) \in Nat /\ Len(out') = Len(out) + 1
        /\ DOMAIN out = 1..Len(out) /\ DOMAIN out' = 1..Len(out) + 1
        /\ \A i \in 1..Len(out) : out'[i] = out[i]
        /\ out'[Len(out) + 1] = x
    BY <1>1, <1>3, AppendElements
  <2>2. Ordered(Append(out, x))
    <3>1. \A i \in DOMAIN out : MayPrecede(out[i], x)
      BY DEF Sent
    <3> QED BY <1>1, <3>1, OrderedAppend
  <2>3. Ordered(out')
    BY <1>3, <2>2
  <2>4. ASSUME NEW i \in DOMAIN received, NEW j \in DOMAIN out'
        PROVE  MayPrecede(received[i], out'[j])
    <3>1. CASE j \in DOMAIN out
      <4>1. out'[j] = out[j]
        BY <2>1, <3>1
      <4> QED BY <1>1, <3>1, <4>1
    <3>2. CASE j = Len(out) + 1
      <4>1. received[i] \in Sent /\ out'[j] = x
        BY <2>1, <3>2 DEF Sent
      <4> QED BY <4>1
    <3> QED BY <2>1, <3>1, <3>2
  <2>5. Sent' \subseteq Sent \cup {x}
    BY <2>1 DEF Sent
  <2>6. SentInOrder'
    BY <1>1, <2>3, <2>4 DEF SentInOrder, Ordered
  <2>7. Len(out') <= OutCap
    <3>1. OutCap \in Nat
      BY SnapshotAssumption
    <3>2. Len(out) < OutCap /\ Len(out) \in Nat /\ Len(out') = Len(out) + 1
      BY <1>3, <2>1
    <3> QED BY <3>1, <3>2
  <2> QED BY <2>1, <2>5, <2>6, <2>7
<1> QED BY <1>2, <1>3

(* Nor does the order suffer from publishing, whether NATS takes the event.  *)
LEMMA PublishInOrder ==
  ASSUME SnapshotInv, Publish
  PROVE  /\ SentInOrder' /\ out' \in Seq(Events) /\ received' \in Seq(Events)
         /\ Len(out') <= OutCap /\ Sent' \subseteq Sent
<1>1. PICK h : h = Head(out)
  OBVIOUS
<1>2. /\ out # <<>> /\ out \in Seq(Events) /\ received \in Seq(Events) /\ out' = Tail(out)
      /\ Ordered(out) /\ Ordered(received) /\ Len(out) <= OutCap
      /\ \A i \in DOMAIN received : \A j \in DOMAIN out : MayPrecede(received[i], out[j])
      /\ received' = received \/ received' = Append(received, h)
  BY <1>1 DEF Publish, SnapshotInv, EventsOK, SentInOrder, TypeOK
<1>3. /\ out' \in Seq(Events) /\ Len(out) \in Nat \ {0} /\ Len(out') = Len(out) - 1
      /\ DOMAIN out = 1..Len(out) /\ DOMAIN out' = 1..Len(out) - 1
      /\ \A i \in 1..Len(out) - 1 : out'[i] = out[i + 1]
      /\ h = out[1] /\ h \in Events /\ 1 \in DOMAIN out
  <2>1. /\ out' \in Seq(Events) /\ Len(out) \in Nat \ {0} /\ Len(out') = Len(out) - 1
        /\ DOMAIN out = 1..Len(out) /\ DOMAIN out' = 1..Len(out) - 1
        /\ \A i \in 1..Len(out) - 1 : out'[i] = out[i + 1]
        /\ h = out[1] /\ h \in Events
    BY <1>1, <1>2, TailElements
  <2> QED BY <2>1
<1>4. Ordered(Tail(out)) /\ \A j \in DOMAIN Tail(out) : MayPrecede(h, Tail(out)[j])
  BY <1>1, <1>2, OrderedTail
<1>5. \A j \in DOMAIN out' : \E k \in DOMAIN out : out'[j] = out[k]
  <2> SUFFICES ASSUME NEW j \in DOMAIN out' PROVE \E k \in DOMAIN out : out'[j] = out[k]
    OBVIOUS
  <2>1. j + 1 \in DOMAIN out /\ out'[j] = out[j + 1]
    BY <1>3
  <2> QED BY <2>1
<1>6. Ordered(out') /\ \A j \in DOMAIN out' : MayPrecede(h, out'[j])
  BY <1>2, <1>4
<1>7. \A i \in DOMAIN received : \A j \in DOMAIN out' : MayPrecede(received[i], out'[j])
  <2> SUFFICES ASSUME NEW i \in DOMAIN received, NEW j \in DOMAIN out'
               PROVE  MayPrecede(received[i], out'[j])
    OBVIOUS
  <2>1. PICK k \in DOMAIN out : out'[j] = out[k]
    BY <1>5
  <2> QED BY <1>2, <2>1
<1>8. CASE received' = received
  <2>1. SentInOrder'
    BY <1>2, <1>6, <1>7, <1>8 DEF SentInOrder, Ordered
  <2>2. Sent' \subseteq Sent
    BY <1>5, <1>8 DEF Sent
  <2> QED BY <1>2, <1>3, <1>8, <2>1, <2>2, SnapshotAssumption
<1>9. CASE received' = Append(received, h)
  <2>1. /\ received' \in Seq(Events) /\ Len(received) \in Nat
        /\ DOMAIN received = 1..Len(received) /\ DOMAIN received' = 1..Len(received) + 1
        /\ \A i \in 1..Len(received) : received'[i] = received[i]
        /\ received'[Len(received) + 1] = h
    BY <1>2, <1>3, <1>9, AppendElements
  <2>2. Ordered(received')
    <3>1. \A i \in DOMAIN received : MayPrecede(received[i], h)
      BY <1>2, <1>3
    <3>2. Ordered(Append(received, h))
      BY <1>2, <1>3, <3>1, OrderedAppend
    <3> QED BY <1>9, <3>2
  <2>3. ASSUME NEW i \in DOMAIN received', NEW j \in DOMAIN out'
        PROVE  MayPrecede(received'[i], out'[j])
    <3>1. CASE i \in DOMAIN received
      <4>1. received'[i] = received[i]
        BY <2>1, <3>1
      <4> QED BY <1>7, <3>1, <4>1
    <3>2. CASE i = Len(received) + 1
      <4>1. received'[i] = h
        BY <2>1, <3>2
      <4> QED BY <1>6, <4>1
    <3> QED BY <2>1, <3>1, <3>2
  <2>4. SentInOrder'
    BY <1>6, <2>2, <2>3 DEF SentInOrder, Ordered
  <2>5. Sent' \subseteq Sent
    <3>1. h \in Sent
      BY <1>3 DEF Sent
    <3>2. \A i \in DOMAIN received' : received'[i] \in Sent
      BY <2>1, <3>1 DEF Sent
    <3>3. \A j \in DOMAIN out' : out'[j] \in Sent
      BY <1>5 DEF Sent
    <3> QED BY <3>2, <3>3 DEF Sent
  <2> QED BY <1>2, <1>3, <2>1, <2>4, <2>5, SnapshotAssumption
<1> QED BY <1>2, <1>8, <1>9
-----------------------------------------------------------------------------
(* What a batch owes *)

(* Any VMs are finitely many, and at most all of them.                       *)
LEMMA Sizes ==
  ASSUME NEW S \in SUBSET VMs
  PROVE  IsFiniteSet(S) /\ Cardinality(S) \in 0..Cardinality(VMs)
<1>1. IsFiniteSet(VMs)
  BY SnapshotAssumption
<1>2. IsFiniteSet(S) /\ Cardinality(S) <= Cardinality(VMs)
  BY <1>1, FS_Subset
<1>3. Cardinality(S) \in Nat /\ Cardinality(VMs) \in Nat
  BY <1>1, <1>2, FS_CardinalityType
<1> QED BY <1>2, <1>3

(* What is on its way is an event.                                           *)
LEMMA SentAreEvents ==
  ASSUME EventsOK
  PROVE  Sent \subseteq Events
<1>1. /\ \A i \in DOMAIN out : out[i] \in Events
      /\ \A i \in DOMAIN received : received[i] \in Events
  BY DEF EventsOK
<1> QED BY <1>1 DEF Sent

(* Every batch that is spoken of has begun.                                  *)
LEMMA SpokenAreBegun ==
  ASSUME SnapshotInv, NEW x \in Sent, NEW b, Of(x, b)
  PROVE  b \in Begun
<1>1. x \in StateEvents \cup CompleteEvents
  BY SentAreEvents DEF SnapshotInv, Of, Events, Foreign
<1>2. x.type \in {"state", "complete"}
  BY <1>1 DEF StateEvents, CompleteEvents
<1> QED BY <1>2 DEF SnapshotInv, EventsAreTrue, EventIsTrue, Of

EmitterInv == /\ BatchesAreApart /\ SinceIsPast /\ HandIsFresh
              /\ BatchGoesOn /\ EventsAreTrue

(* The steps of others: they change the states of VMs, and may add a         *)
(* lifecycle event to what was sent, or lose some of it.                     *)
LEMMA OthersKeep ==
  ASSUME SnapshotInv, UNCHANGED <<emitter, batches>>, Sent' \subseteq Sent \cup {Foreign},
         version' \in [VMs -> 0..MaxChanges],
         \A vm \in VMs : version[vm] <= version'[vm]
  PROVE  EmitterInv'
<1>1. UNCHANGED <<pc, batch, left, obs, count, vmList, since>> /\ Begun' = Begun
  BY DEF emitter, batches, Begun
<1>2. \A e : Owed(e)' = Owed(e)
  BY <1>1 DEF Owed
<1>3. Foreign.type = "lifecycle"
  BY DEF Foreign
<1>4. BatchesAreApart' /\ HandIsFresh'
  BY <1>1 DEF SnapshotInv, BatchesAreApart, HandIsFresh
<1>5. SinceIsPast'
  <2> SUFFICES ASSUME NEW b \in Begun, NEW vm \in VMs PROVE since[b][vm] <= version'[vm]
    BY <1>1 DEF SinceIsPast
  <2>1. since[b][vm] <= version[vm]
    BY DEF SnapshotInv, SinceIsPast
  <2>2. /\ since \in Seq([VMs -> 0..MaxChanges]) /\ version \in [VMs -> 0..MaxChanges]
        /\ Len(since) = Len(vmList) /\ vmList \in Seq(SUBSET VMs)
    BY DEF SnapshotInv, TypeOK
  <2>3. b \in DOMAIN since
    BY <2>2 DEF Begun
  <2>4. since[b] \in [VMs -> 0..MaxChanges]
    BY <2>2, <2>3
  <2>5. since[b][vm] \in Nat /\ version[vm] \in Nat /\ version'[vm] \in Nat
    BY <2>2, <2>4, SnapshotAssumption
  <2> QED BY <2>1, <2>5
<1>6. BatchGoesOn'
  <2> SUFFICES ASSUME NEW e \in Emitters, pc[e] # "idle"
               PROVE  /\ batch[e] \in Begun
                      /\ Owed(e) \subseteq vmList[batch[e]]
                      /\ count[e] + Cardinality(Owed(e)) = Cardinality(vmList[batch[e]])
                      /\ \A x \in Sent' : Of(x, batch[e]) => x.type = "state" /\ x.vm \notin Owed(e)
    BY <1>1, <1>2 DEF BatchGoesOn
  <2>1. \A x \in Sent : Of(x, batch[e]) => x.type = "state" /\ x.vm \notin Owed(e)
    BY DEF SnapshotInv, BatchGoesOn
  <2>2. \A x \in Sent' : Of(x, batch[e]) => x \in Sent
    BY <1>3 DEF Of
  <2> QED BY <2>1, <2>2 DEF SnapshotInv, BatchGoesOn
<1>7. EventsAreTrue'
  <2> SUFFICES ASSUME NEW x \in Sent' PROVE EventIsTrue(x)'
    BY DEF EventsAreTrue
  <2>1. EventIsTrue(x)' <=> EventIsTrue(x)
    BY <1>1 DEF EventIsTrue
  <2>2. CASE x \in Sent
    BY <2>1, <2>2 DEF SnapshotInv, EventsAreTrue
  <2>3. CASE x = Foreign
    BY <1>3, <2>1, <2>3 DEF EventIsTrue
  <2> QED BY <2>2, <2>3
<1> QED BY <1>4, <1>5, <1>6, <1>7 DEF EmitterInv

(* A trigger is taken at most once.                                          *)
LEMMA TriggerTypes ==
  ASSUME TypeOK, NEW e \in Emitters, Triggered(e)
  PROVE  tick' \in BOOLEAN /\ requests' \in [Callbacks -> 0..1]
<1>1. tick \in BOOLEAN /\ requests \in [Callbacks -> 0..1]
  BY DEF TypeOK
<1>2. CASE e = Loop
  BY <1>1, <1>2 DEF Triggered
<1>3. CASE e # Loop
  <2>1. e \in Callbacks /\ requests[e] > 0 /\ tick' = tick
        /\ requests' = [requests EXCEPT ![e] = @ - 1]
    BY <1>3 DEF Triggered, Emitters
  <2>2. requests[e] - 1 \in 0..1
    BY <1>1, <2>1
  <2> QED BY <1>1, <2>1, <2>2
<1> QED BY <1>2, <1>3

(* A new batch owes all VMs of the node, and nothing is on its way of it.    *)
LEMMA BeginKeeps ==
  ASSUME SnapshotInv, NEW e \in Emitters, Begin(e)
  PROVE  TypeOK' /\ EmitterInv'
<1> DEFINE n == Len(vmList) + 1
<1>1. /\ pc[e] = "idle" /\ MoreBatches /\ UNCHANGED <<listed, version, obs, out, foreign, received>>
      /\ vmList' = Append(vmList, listed) /\ since' = Append(since, version)
      /\ batch' = [batch EXCEPT ![e] = Len(vmList')]
      /\ left' = [left EXCEPT ![e] = listed] /\ count' = [count EXCEPT ![e] = 0]
      /\ pc' = [pc EXCEPT ![e] = "next"]
  BY DEF Begin, node
<1>2. /\ listed \in SUBSET VMs /\ version \in [VMs -> 0..MaxChanges] /\ tick \in BOOLEAN
      /\ requests \in [Callbacks -> 0..1] /\ pc \in [Emitters -> {"idle", "next", "probed"}]
      /\ batch \in [Emitters -> 0..MaxBatches] /\ left \in [Emitters -> SUBSET VMs]
      /\ count \in [Emitters -> 0..Cardinality(VMs)]
      /\ vmList \in Seq(SUBSET VMs) /\ since \in Seq([VMs -> 0..MaxChanges])
      /\ Len(since) = Len(vmList) /\ Len(vmList) \in Nat /\ MaxBatches \in Nat
  BY SnapshotAssumption DEF SnapshotInv, TypeOK
<1>3. /\ vmList' \in Seq(SUBSET VMs) /\ Len(vmList') = n /\ Begun = 1..Len(vmList)
      /\ Begun' = 1..n /\ \A b \in Begun : vmList'[b] = vmList[b]
      /\ vmList'[n] = listed
  <2>1. /\ Append(vmList, listed) \in Seq(SUBSET VMs) /\ Len(Append(vmList, listed)) = n
        /\ DOMAIN vmList = 1..Len(vmList) /\ DOMAIN Append(vmList, listed) = 1..n
        /\ \A i \in 1..Len(vmList) : Append(vmList, listed)[i] = vmList[i]
        /\ Append(vmList, listed)[n] = listed
    BY <1>2, AppendElements
  <2> QED BY <1>1, <2>1 DEF Begun
<1>4. /\ since' \in Seq([VMs -> 0..MaxChanges]) /\ Len(since') = n
      /\ \A b \in Begun : since'[b] = since[b]
      /\ since'[n] = version
  <2>1. /\ Append(since, version) \in Seq([VMs -> 0..MaxChanges])
        /\ Len(Append(since, version)) = Len(since) + 1
        /\ \A i \in 1..Len(since) : Append(since, version)[i] = since[i]
        /\ Append(since, version)[Len(since) + 1] = version
    BY <1>2, AppendElements
  <2> QED BY <1>1, <1>2, <1>3, <2>1
<1>5. n \notin Begun /\ n \in Begun' /\ n <= MaxBatches /\ n \in 0..MaxBatches /\ Begun' = Begun \cup {n}
  BY <1>1, <1>2, <1>3 DEF MoreBatches
<1> HIDE DEF n
<1>6. /\ pc'[e] = "next" /\ batch'[e] = n /\ left'[e] = listed /\ count'[e] = 0
      /\ \A f \in Emitters : f # e => /\ pc'[f] = pc[f] /\ batch'[f] = batch[f]
                                      /\ left'[f] = left[f] /\ count'[f] = count[f]
  BY <1>1, <1>2, <1>3
<1>7. Owed(e)' = listed /\ \A f \in Emitters : f # e => Owed(f)' = Owed(f)
  BY <1>1, <1>6 DEF Owed
<1>8. Sent' = Sent
  BY <1>1 DEF Sent
<1>9. TypeOK'
  <2>1. tick' \in BOOLEAN /\ requests' \in [Callbacks -> 0..1]
    BY TriggerTypes DEF Begin, SnapshotInv
  <2>2. 0 \in 0..Cardinality(VMs)
    BY Sizes
  <2>3. /\ pc' \in [Emitters -> {"idle", "next", "probed"}]
        /\ batch' \in [Emitters -> 0..MaxBatches]
        /\ left' \in [Emitters -> SUBSET VMs]
        /\ count' \in [Emitters -> 0..Cardinality(VMs)]
    BY <1>1, <1>2, <1>3, <1>5, <2>2
  <2> QED BY <1>1, <1>3, <1>4, <1>5, <2>1, <2>3 DEF SnapshotInv, TypeOK
<1>10. BatchesAreApart'
  <2>1. \A f \in Emitters : pc[f] # "idle" => batch[f] # n
    BY <1>5 DEF SnapshotInv, BatchGoesOn
  <2> QED BY <1>6, <2>1 DEF SnapshotInv, BatchesAreApart
<1>11. SinceIsPast'
  <2> SUFFICES ASSUME NEW b \in Begun', NEW vm \in VMs PROVE since'[b][vm] <= version[vm]
    BY <1>1 DEF SinceIsPast
  <2>1. CASE b \in Begun
    BY <1>4, <2>1 DEF SnapshotInv, SinceIsPast
  <2>2. CASE b = n
    <3>1. version[vm] \in Nat
      BY <1>2, SnapshotAssumption
    <3> QED BY <1>4, <2>2, <3>1
  <2> QED BY <1>5, <2>1, <2>2
<1>12. HandIsFresh'
  <2> SUFFICES ASSUME NEW f \in Emitters, pc'[f] = "probed"
               PROVE  /\ obs[f] \in Observations /\ obs[f].vm \notin left'[f]
                      /\ since'[batch'[f]][obs[f].vm] <= obs[f].version
    BY <1>1 DEF HandIsFresh
  <2>1. f # e /\ pc[f] = "probed"
    BY <1>6
  <2>2. batch[f] \in Begun
    BY <2>1 DEF SnapshotInv, BatchGoesOn
  <2> QED BY <1>4, <1>6, <2>1, <2>2 DEF SnapshotInv, HandIsFresh
<1>13. BatchGoesOn'
  <2> SUFFICES ASSUME NEW f \in Emitters, pc'[f] # "idle"
               PROVE  /\ batch'[f] \in Begun'
                      /\ Owed(f)' \subseteq vmList'[batch'[f]]
                      /\ count'[f] + Cardinality(Owed(f)') = Cardinality(vmList'[batch'[f]])
                      /\ \A x \in Sent : Of(x, batch'[f]) => x.type = "state" /\ x.vm \notin Owed(f)'
    BY <1>8 DEF BatchGoesOn
  <2>1. CASE f = e
    <3>1. \A x \in Sent : ~Of(x, n)
      BY <1>5, SpokenAreBegun
    <3>2. Cardinality(listed) \in Nat
      BY <1>2, Sizes
    <3> QED BY <1>3, <1>5, <1>6, <1>7, <2>1, <3>1, <3>2
  <2>2. CASE f # e
    <3>1. /\ batch[f] \in Begun
          /\ Owed(f) \subseteq vmList[batch[f]]
          /\ count[f] + Cardinality(Owed(f)) = Cardinality(vmList[batch[f]])
          /\ \A x \in Sent : Of(x, batch[f]) => x.type = "state" /\ x.vm \notin Owed(f)
      BY <1>6, <2>2 DEF SnapshotInv, BatchGoesOn
    <3> QED BY <1>3, <1>5, <1>6, <1>7, <2>2, <3>1
  <2> QED BY <2>1, <2>2
<1>14. EventsAreTrue'
  <2> SUFFICES ASSUME NEW x \in Sent PROVE EventIsTrue(x)'
    BY <1>8 DEF EventsAreTrue
  <2>1. EventIsTrue(x)
    BY DEF SnapshotInv, EventsAreTrue
  <2> QED BY <1>3, <1>4, <1>5, <2>1 DEF EventIsTrue
<1> QED BY <1>9, <1>10, <1>11, <1>12, <1>13, <1>14 DEF EmitterInv

(* A probe takes a VM in hand: the batch owes it still.                      *)
LEMMA ProbeKeeps ==
  ASSUME SnapshotInv, NEW e \in Emitters, Probe(e)
  PROVE  TypeOK' /\ obs' \in [Emitters -> Observations \cup {NoObs}] /\ EmitterInv'
<1>1. PICK vm \in left[e] : /\ left' = [left EXCEPT ![e] = @ \ {vm}]
                            /\ obs' = [obs EXCEPT ![e] = [vm |-> vm, version |-> version[vm]]]
  BY DEF Probe
<1>2. /\ pc[e] = "next" /\ pc' = [pc EXCEPT ![e] = "probed"]
      /\ UNCHANGED <<listed, version, batch, count, tick, requests, out, vmList, since, foreign, received>>
      /\ Begun' = Begun
  BY DEF Probe, node, batches, Begun
<1>3. /\ version \in [VMs -> 0..MaxChanges] /\ pc \in [Emitters -> {"idle", "next", "probed"}]
      /\ left \in [Emitters -> SUBSET VMs] /\ obs \in [Emitters -> Observations \cup {NoObs}]
  BY DEF SnapshotInv, TypeOK, EventsOK
<1>4. vm \in VMs /\ [vm |-> vm, version |-> version[vm]] \in Observations
  BY <1>1, <1>3 DEF Observations
<1>5. /\ pc'[e] = "probed" /\ left'[e] = left[e] \ {vm}
      /\ obs'[e] = [vm |-> vm, version |-> version[vm]]
      /\ \A f \in Emitters : f # e => pc'[f] = pc[f] /\ left'[f] = left[f] /\ obs'[f] = obs[f]
  BY <1>1, <1>2, <1>3
<1>6. /\ left' \in [Emitters -> SUBSET VMs] /\ obs' \in [Emitters -> Observations \cup {NoObs}]
      /\ pc' \in [Emitters -> {"idle", "next", "probed"}]
  BY <1>1, <1>2, <1>3, <1>4
<1>7. TypeOK'
  <2>1. \A f \in Emitters : obs'[f] = NoObs \/ obs'[f].vm \in VMs
    BY <1>6 DEF Observations
  <2> QED BY <1>2, <1>6, <2>1 DEF SnapshotInv, TypeOK
<1>8. /\ \A f \in Emitters : Owed(f)' = Owed(f)
      /\ \A f \in Emitters : pc'[f] # "idle" <=> pc[f] # "idle"
  <2>1. Owed(e)' = Owed(e)
    BY <1>1, <1>2, <1>5 DEF Owed
  <2>2. \A f \in Emitters : f # e => Owed(f)' = Owed(f)
    BY <1>5 DEF Owed
  <2> QED BY <1>2, <1>5, <2>1, <2>2
<1>9. Sent' = Sent
  BY <1>2 DEF Sent
<1>10. BatchesAreApart' /\ SinceIsPast'
  BY <1>2, <1>8 DEF SnapshotInv, BatchesAreApart, SinceIsPast
<1>11. HandIsFresh'
  <2> SUFFICES ASSUME NEW f \in Emitters, pc'[f] = "probed"
               PROVE  /\ obs'[f] \in Observations /\ obs'[f].vm \notin left'[f]
                      /\ since[batch[f]][obs'[f].vm] <= obs'[f].version
    BY <1>2 DEF HandIsFresh
  <2>1. CASE f # e
    BY <1>5, <2>1 DEF SnapshotInv, HandIsFresh
  <2>2. CASE f = e
    <3>1. batch[e] \in Begun
      BY <1>2 DEF SnapshotInv, BatchGoesOn
    <3>2. since[batch[e]][vm] <= version[vm]
      BY <1>4, <3>1 DEF SnapshotInv, SinceIsPast
    <3> QED BY <1>4, <1>5, <2>2, <3>2
  <2> QED BY <2>1, <2>2
<1>12. BatchGoesOn'
  <2> SUFFICES ASSUME NEW f \in Emitters, pc[f] # "idle"
               PROVE  /\ batch[f] \in Begun
                      /\ Owed(f) \subseteq vmList[batch[f]]
                      /\ count[f] + Cardinality(Owed(f)) = Cardinality(vmList[batch[f]])
                      /\ \A x \in Sent : Of(x, batch[f]) => x.type = "state" /\ x.vm \notin Owed(f)
    BY <1>2, <1>8, <1>9 DEF BatchGoesOn
  <2> QED BY DEF SnapshotInv, BatchGoesOn
<1>13. EventsAreTrue'
  BY <1>2, <1>9 DEF SnapshotInv, EventsAreTrue, EventIsTrue
<1> QED BY <1>6, <1>7, <1>10, <1>11, <1>12, <1>13 DEF EmitterInv

(* A batch may send what it owes, or its completion.                         *)
LEMMA BatchMaySend ==
  ASSUME SnapshotInv, NEW e \in Emitters, pc[e] # "idle", NEW x, x.id = batch[e],
         x.type = "state" => x.vm \in Owed(e)
  PROVE  \A y \in Sent : MayPrecede(y, x)
<1> SUFFICES ASSUME NEW y \in Sent, y.type # "lifecycle", Of(x, y.id)
             PROVE  y.type = "state" /\ (x.type = "state" => x.vm # y.vm)
  BY DEF MayPrecede
<1>1. Of(y, batch[e])
  BY DEF Of
<1>2. y.type = "state" /\ y.vm \notin Owed(e)
  BY <1>1 DEF SnapshotInv, BatchGoesOn
<1> QED BY <1>2

(* What is sent stays true with a true event, in batches that have begun.    *)
LEMMA SentStayTrue ==
  ASSUME SnapshotInv, NEW x, EventIsTrue(x), UNCHANGED batches, Sent' \subseteq Sent \cup {x}
  PROVE  EventsAreTrue'
<1>1. ASSUME NEW y \in Sent' PROVE EventIsTrue(y)'
  <2>1. EventIsTrue(y)' <=> EventIsTrue(y)
    BY DEF EventIsTrue, Begun, batches
  <2> QED BY <2>1 DEF SnapshotInv, EventsAreTrue
<1> QED BY <1>1 DEF EventsAreTrue

(* A state is counted and no longer owed, whether the channel takes it.      *)
LEMMA SendStateKeeps ==
  ASSUME SnapshotInv, NEW e \in Emitters, SendState(e)
  PROVE  TypeOK' /\ EventsOK' /\ SentInOrder' /\ EmitterInv'
<1> DEFINE b == batch[e]
           vm == obs[e].vm
           x == State(obs[e], b)
<1>1. /\ pc[e] = "probed" /\ pc' = [pc EXCEPT ![e] = "next"]
      /\ count' = [count EXCEPT ![e] = @ + 1] /\ obs' = [obs EXCEPT ![e] = NoObs]
      /\ UNCHANGED <<listed, version, batch, left, tick, requests, vmList, since, foreign, received>>
      /\ Begun' = Begun
      /\ (out' = Append(out, x) /\ Len(out) < OutCap) \/ out' = out
  BY DEF SendState, Send, node, batches, Begun
<1>2. /\ pc \in [Emitters -> {"idle", "next", "probed"}] /\ left \in [Emitters -> SUBSET VMs]
      /\ obs \in [Emitters -> Observations \cup {NoObs}]
      /\ count \in [Emitters -> 0..Cardinality(VMs)] /\ batch \in [Emitters -> 0..MaxBatches]
      /\ vmList \in Seq(SUBSET VMs) /\ Len(vmList) <= MaxBatches /\ received \in Seq(Events)
  BY DEF SnapshotInv, TypeOK, EventsOK
<1>3. /\ b \in Begun /\ Owed(e) \subseteq vmList[b] /\ Owed(e) = left[e] \cup {vm}
      /\ count[e] + Cardinality(Owed(e)) = Cardinality(vmList[b])
      /\ \A y \in Sent : Of(y, b) => y.type = "state" /\ y.vm \notin Owed(e)
  BY <1>1 DEF SnapshotInv, BatchGoesOn, Owed
<1>4. /\ obs[e] \in Observations /\ vm \notin left[e] /\ since[b][vm] <= obs[e].version
      /\ vm \in VMs
  BY <1>1 DEF SnapshotInv, HandIsFresh, Observations
<1>5. b \in Batches /\ vmList[b] \in SUBSET VMs
  <2>1. b \in 1..Len(vmList) /\ MaxBatches \in Nat /\ Len(vmList) \in Nat
    BY <1>2, <1>3, SnapshotAssumption DEF Begun
  <2> QED BY <1>2, <2>1 DEF Batches
<1>6. /\ x \in Events /\ x.type = "state" /\ x.id = b /\ x.vm = vm /\ x.version = obs[e].version
  <2>1. x \in StateEvents /\ x.type = "state" /\ x.id = b /\ x.vm = vm /\ x.version = obs[e].version
    BY <1>4, <1>5, EventKinds
  <2> QED BY <2>1 DEF Events
<1> HIDE DEF x
<1>7. EventIsTrue(x) /\ x.vm \in Owed(e)
  BY <1>3, <1>4, <1>6 DEF EventIsTrue
<1>8. \A y \in Sent : MayPrecede(y, x)
  BY <1>1, <1>6, <1>7, BatchMaySend
<1>9. /\ SentInOrder' /\ out' \in Seq(Events) /\ Len(out') <= OutCap /\ Sent' \subseteq Sent \cup {x}
  BY <1>1, <1>6, <1>8, SendInOrder
<1>10. EventsAreTrue'
  BY <1>1, <1>7, <1>9, SentStayTrue DEF batches
<1>11. /\ pc'[e] = "next" /\ count'[e] = count[e] + 1 /\ obs'[e] = NoObs
       /\ \A f \in Emitters : f # e => pc'[f] = pc[f] /\ count'[f] = count[f] /\ obs'[f] = obs[f]
  BY <1>1, <1>2
<1>12. /\ Owed(e)' = left[e] /\ \A f \in Emitters : f # e => Owed(f)' = Owed(f)
  BY <1>1, <1>11 DEF Owed
<1>13. /\ count[e] \in Nat /\ Cardinality(left[e]) \in Nat
       /\ Cardinality(Owed(e)) = Cardinality(left[e]) + 1
       /\ count[e] + 1 + Cardinality(left[e]) = Cardinality(vmList[b])
       /\ count[e] + 1 \in 0..Cardinality(VMs)
  <2>1. left[e] \in SUBSET VMs /\ count[e] \in 0..Cardinality(VMs)
    BY <1>2
  <2>2. /\ IsFiniteSet(left[e]) /\ Cardinality(left[e]) \in 0..Cardinality(VMs)
        /\ Cardinality(vmList[b]) \in 0..Cardinality(VMs) /\ Cardinality(VMs) \in Nat
    <3>1. /\ IsFiniteSet(left[e]) /\ Cardinality(left[e]) \in 0..Cardinality(VMs)
      BY <2>1, Sizes
    <3>2. Cardinality(vmList[b]) \in 0..Cardinality(VMs)
      BY <1>5, Sizes
    <3>3. Cardinality(VMs) \in Nat
      BY SnapshotAssumption, FS_CardinalityType
    <3> QED BY <3>1, <3>2, <3>3
  <2>3. Cardinality(left[e] \cup {vm}) = Cardinality(left[e]) + 1
    BY <1>4, <2>2, FS_AddElement
  <2> HIDE DEF vm, b
  <2>4. Cardinality(Owed(e)) = Cardinality(left[e]) + 1
    BY <1>3, <2>3
  <2> QED BY <1>3, <2>1, <2>2, <2>4
<1>14. obs' \in [Emitters -> Observations \cup {NoObs}]
  BY <1>1, <1>2
<1>15. EventsOK'
  BY <1>1, <1>2, <1>9, <1>14 DEF EventsOK
<1>16. TypeOK'
  <2>1. pc' \in [Emitters -> {"idle", "next", "probed"}]
    BY <1>1, <1>2
  <2>2. count' \in [Emitters -> 0..Cardinality(VMs)]
    BY <1>1, <1>2, <1>13
  <2>3. \A f \in Emitters : obs'[f] = NoObs \/ obs'[f].vm \in VMs
    BY <1>14 DEF Observations
  <2> QED BY <1>1, <1>9, <2>1, <2>2, <2>3 DEF SnapshotInv, TypeOK
<1>17. \A f \in Emitters : pc'[f] # "idle" <=> pc[f] # "idle"
  BY <1>1, <1>11
<1>18. BatchesAreApart' /\ SinceIsPast'
  BY <1>1, <1>17 DEF SnapshotInv, BatchesAreApart, SinceIsPast
<1>19. HandIsFresh'
  <2> SUFFICES ASSUME NEW f \in Emitters, pc'[f] = "probed"
               PROVE  /\ obs'[f] \in Observations /\ obs'[f].vm \notin left[f]
                      /\ since[batch[f]][obs'[f].vm] <= obs'[f].version
    BY <1>1 DEF HandIsFresh
  <2>1. f # e
    BY <1>11
  <2> QED BY <1>11, <2>1 DEF SnapshotInv, HandIsFresh
<1>20. BatchGoesOn'
  <2> SUFFICES ASSUME NEW f \in Emitters, pc[f] # "idle"
               PROVE  /\ batch[f] \in Begun
                      /\ Owed(f)' \subseteq vmList[batch[f]]
                      /\ count'[f] + Cardinality(Owed(f)') = Cardinality(vmList[batch[f]])
                      /\ \A y \in Sent' : Of(y, batch[f]) => y.type = "state" /\ y.vm \notin Owed(f)'
    BY <1>1, <1>17 DEF BatchGoesOn
  <2>1. CASE f = e
    <3>1. \A y \in Sent' : Of(y, b) => y.type = "state" /\ y.vm \notin left[e]
      <4>1. \A y \in Sent : Of(y, b) => y.type = "state" /\ y.vm \notin left[e]
        BY <1>3
      <4> QED BY <1>4, <1>6, <1>9, <4>1
    <3> QED BY <1>3, <1>11, <1>12, <1>13, <2>1, <3>1
  <2>2. CASE f # e
    <3>1. /\ batch[f] \in Begun
          /\ Owed(f) \subseteq vmList[batch[f]]
          /\ count[f] + Cardinality(Owed(f)) = Cardinality(vmList[batch[f]])
          /\ \A y \in Sent : Of(y, batch[f]) => y.type = "state" /\ y.vm \notin Owed(f)
      BY DEF SnapshotInv, BatchGoesOn
    <3>2. batch[f] # b
      BY <1>1, <2>2 DEF SnapshotInv, BatchesAreApart
    <3>3. ~Of(x, batch[f])
      BY <1>6, <3>2 DEF Of
    <3> QED BY <1>9, <1>11, <1>12, <2>2, <3>1, <3>3
  <2> QED BY <2>1, <2>2
<1> QED BY <1>9, <1>10, <1>15, <1>16, <1>18, <1>19, <1>20 DEF EmitterInv

(* The completion counts all that the batch owed, and its batch is over.     *)
LEMMA SendCompleteKeeps ==
  ASSUME SnapshotInv, NEW e \in Emitters, SendComplete(e)
  PROVE  TypeOK' /\ EventsOK' /\ SentInOrder' /\ EmitterInv'
<1> DEFINE b == batch[e]
           x == Complete(b, count[e])
<1>1. /\ pc[e] = "next" /\ left[e] = {} /\ pc' = [pc EXCEPT ![e] = "idle"]
      /\ UNCHANGED <<listed, version, batch, left, obs, count, tick, requests, vmList, since, foreign, received>>
      /\ Begun' = Begun
      /\ (out' = Append(out, x) /\ Len(out) < OutCap) \/ out' = out
  BY DEF SendComplete, Send, node, batches, Begun
<1>2. /\ pc \in [Emitters -> {"idle", "next", "probed"}]
      /\ count \in [Emitters -> 0..Cardinality(VMs)]
      /\ Len(vmList) <= MaxBatches /\ vmList \in Seq(SUBSET VMs)
      /\ obs \in [Emitters -> Observations \cup {NoObs}] /\ received \in Seq(Events)
  BY DEF SnapshotInv, TypeOK, EventsOK
<1>3. /\ b \in Begun /\ Owed(e) = {}
      /\ count[e] + Cardinality(Owed(e)) = Cardinality(vmList[b])
      /\ \A y \in Sent : Of(y, b) => y.type = "state" /\ y.vm \notin Owed(e)
  BY <1>1 DEF SnapshotInv, BatchGoesOn, Owed
<1>4. count[e] = Cardinality(vmList[b])
  <2>1. Cardinality(Owed(e)) = 0
    BY <1>3, FS_EmptySet
  <2>2. count[e] \in Nat
    BY <1>2
  <2> HIDE DEF b
  <2> QED BY <1>3, <2>1, <2>2
<1>5. b \in Batches /\ count[e] \in 0..Cardinality(VMs)
  <2>1. b \in 1..Len(vmList) /\ MaxBatches \in Nat /\ Len(vmList) \in Nat
    BY <1>2, <1>3, SnapshotAssumption DEF Begun
  <2> QED BY <1>2, <2>1 DEF Batches
<1>6. x \in Events /\ x.type = "complete" /\ x.id = b /\ x.count = count[e]
  <2>1. x \in CompleteEvents /\ x.type = "complete" /\ x.id = b /\ x.count = count[e]
    BY <1>5, EventKinds
  <2> QED BY <2>1 DEF Events
<1> HIDE DEF x
<1>7. EventIsTrue(x)
  BY <1>3, <1>4, <1>6 DEF EventIsTrue
<1>8. \A y \in Sent : MayPrecede(y, x)
  BY <1>1, <1>6, <1>7, BatchMaySend
<1>9. /\ SentInOrder' /\ out' \in Seq(Events) /\ Len(out') <= OutCap /\ Sent' \subseteq Sent \cup {x}
  BY <1>1, <1>6, <1>8, SendInOrder
<1>10. EventsAreTrue'
  BY <1>1, <1>7, <1>9, SentStayTrue DEF batches
<1>11. /\ pc'[e] = "idle" /\ \A f \in Emitters : f # e => pc'[f] = pc[f] /\ Owed(f)' = Owed(f)
  <2>1. pc'[e] = "idle" /\ \A f \in Emitters : f # e => pc'[f] = pc[f]
    BY <1>1, <1>2
  <2> QED BY <1>1, <2>1 DEF Owed
<1>12. EventsOK'
  BY <1>1, <1>2, <1>9 DEF EventsOK
<1>13. TypeOK'
  <2>1. pc' \in [Emitters -> {"idle", "next", "probed"}]
    BY <1>1, <1>2
  <2> QED BY <1>1, <1>9, <2>1 DEF SnapshotInv, TypeOK
<1>14. \A f \in Emitters : pc'[f] # "idle" => f # e /\ pc[f] = pc'[f]
  BY <1>11
<1>15. BatchesAreApart' /\ SinceIsPast'
  BY <1>1, <1>14 DEF SnapshotInv, BatchesAreApart, SinceIsPast
<1>16. HandIsFresh'
  BY <1>1, <1>14 DEF SnapshotInv, HandIsFresh
<1>17. BatchGoesOn'
  <2> SUFFICES ASSUME NEW f \in Emitters, pc'[f] # "idle"
               PROVE  /\ batch[f] \in Begun
                      /\ Owed(f)' \subseteq vmList[batch[f]]
                      /\ count[f] + Cardinality(Owed(f)') = Cardinality(vmList[batch[f]])
                      /\ \A y \in Sent' : Of(y, batch[f]) => y.type = "state" /\ y.vm \notin Owed(f)'
    BY <1>1 DEF BatchGoesOn
  <2>1. f # e /\ pc[f] # "idle"
    BY <1>14
  <2>2. /\ batch[f] \in Begun
        /\ Owed(f) \subseteq vmList[batch[f]]
        /\ count[f] + Cardinality(Owed(f)) = Cardinality(vmList[batch[f]])
        /\ \A y \in Sent : Of(y, batch[f]) => y.type = "state" /\ y.vm \notin Owed(f)
    BY <2>1 DEF SnapshotInv, BatchGoesOn
  <2>3. batch[f] # b
    BY <1>1, <2>1 DEF SnapshotInv, BatchesAreApart
  <2>4. ~Of(x, batch[f])
    BY <1>6, <2>3 DEF Of
  <2> QED BY <1>9, <1>11, <2>1, <2>2, <2>4
<1> QED BY <1>9, <1>10, <1>12, <1>13, <1>15, <1>16, <1>17 DEF EmitterInv

(* When the daemon starts, nothing was sent and no batch is being emitted.   *)
LEMMA SnapshotInit == Init => SnapshotInv
<1> SUFFICES ASSUME Init PROVE SnapshotInv
  OBVIOUS
<1>1. /\ vmList = <<>> /\ since = <<>> /\ out = <<>> /\ received = <<>>
      /\ pc = [e \in Emitters |-> "idle"] /\ obs = [e \in Emitters |-> NoObs]
      /\ listed \in SUBSET VMs
  BY DEF Init
<1>2. TypeOK
  <2>1. 0 \in 0..Cardinality(VMs)
    BY Sizes
  <2>2. count \in [Emitters -> 0..Cardinality(VMs)]
    BY <2>1 DEF Init
  <2>3. /\ version \in [VMs -> 0..MaxChanges] /\ foreign \in 0..MaxForeign
        /\ requests \in [Callbacks -> 0..1] /\ batch \in [Emitters -> 0..MaxBatches]
        /\ left \in [Emitters -> SUBSET VMs] /\ Len(<<>>) = 0
        /\ tick \in BOOLEAN /\ pc \in [Emitters -> {"idle", "next", "probed"}]
    BY SnapshotAssumption DEF Init
  <2>4. /\ vmList \in Seq(SUBSET VMs) /\ Len(vmList) <= MaxBatches /\ Len(out) <= OutCap
        /\ since \in Seq([VMs -> 0..MaxChanges]) /\ Len(since) = Len(vmList)
    BY <1>1, SnapshotAssumption
  <2> QED BY <1>1, <2>2, <2>3, <2>4 DEF TypeOK
<1>3. EventsOK
  BY <1>1 DEF EventsOK
<1>4. Sent = {}
  BY <1>1 DEF Sent
<1>5. SinceIsPast /\ SentInOrder
  BY <1>1 DEF SinceIsPast, SentInOrder, Ordered, Begun
<1>6. BatchesAreApart /\ HandIsFresh /\ BatchGoesOn
  BY <1>1 DEF BatchesAreApart, HandIsFresh, BatchGoesOn
<1> QED BY <1>2, <1>3, <1>4, <1>5, <1>6 DEF SnapshotInv, EventsAreTrue

(* The steps that send nothing and touch no state of a VM.                   *)
LEMMA QuietStep ==
  ASSUME SnapshotInv, UNCHANGED <<version, emitter, batches, out, received>>
  PROVE  EventsOK' /\ SentInOrder' /\ EmitterInv'
<1>1. Sent' \subseteq Sent
  BY DEF Sent
<1>2. EventsOK' /\ SentInOrder'
  BY DEF SnapshotInv, EventsOK, SentInOrder, Ordered, emitter
<1>3. version' \in [VMs -> 0..MaxChanges] /\ \A vm \in VMs : version[vm] <= version'[vm]
  <2>1. version \in [VMs -> 0..MaxChanges]
    BY DEF SnapshotInv, TypeOK
  <2> QED BY <2>1, SnapshotAssumption
<1> QED BY <1>1, <1>2, <1>3, OthersKeep

(* Every step keeps the invariant.                                           *)
LEMMA SnapshotStep == SnapshotInv /\ [Next]_vars => SnapshotInv'
<1> SUFFICES ASSUME SnapshotInv, [Next]_vars
             PROVE  TypeOK' /\ EventsOK' /\ SentInOrder' /\ EmitterInv'
  BY DEF SnapshotInv, EmitterInv
<1>0. TypeOK /\ EventsOK /\ SentInOrder /\ version \in [VMs -> 0..MaxChanges]
  BY DEF SnapshotInv, TypeOK
<1>1. ASSUME NEW vm \in VMs, StateChange(vm)
      PROVE  TypeOK' /\ EventsOK' /\ SentInOrder' /\ EmitterInv'
  <2>1. /\ version[vm] < MaxChanges /\ version' = [version EXCEPT ![vm] = @ + 1]
        /\ UNCHANGED <<listed, emitter, tick, requests, out, batches, foreign, received>>
    BY <1>1 DEF StateChange
  <2>2. version' \in [VMs -> 0..MaxChanges] /\ \A u \in VMs : version[u] <= version'[u]
    <3>1. version[vm] + 1 \in 0..MaxChanges /\ \A u \in VMs : version[u] \in Nat
      BY <1>0, <2>1, SnapshotAssumption
    <3> QED BY <1>0, <2>1, <3>1
  <2>3. Sent' \subseteq Sent
    BY <2>1 DEF Sent
  <2>4. TypeOK'
    BY <1>0, <2>1, <2>2 DEF TypeOK, emitter, batches
  <2>5. EventsOK' /\ SentInOrder'
    BY <1>0, <2>1 DEF EventsOK, SentInOrder, Ordered, emitter
  <2> QED BY <2>1, <2>2, <2>3, <2>4, <2>5, OthersKeep
<1>2. ASSUME NEW vm \in VMs, ListChange(vm)
      PROVE  TypeOK' /\ EventsOK' /\ SentInOrder' /\ EmitterInv'
  <2>1. /\ UNCHANGED <<version, emitter, tick, requests, out, batches, foreign, received>>
        /\ listed' \subseteq VMs
    BY <1>0, <1>2 DEF ListChange, TypeOK
  <2>2. TypeOK'
    BY <1>0, <2>1 DEF TypeOK, emitter, batches
  <2> QED BY <2>1, <2>2, QuietStep
<1>3. ASSUME NEW e \in Callbacks, Request(e)
      PROVE  TypeOK' /\ EventsOK' /\ SentInOrder' /\ EmitterInv'
  <2>1. /\ UNCHANGED <<node, emitter, tick, out, batches, foreign, received>>
        /\ requests' \in [Callbacks -> 0..1]
    BY <1>0, <1>3 DEF Request, TypeOK
  <2>2. TypeOK'
    BY <1>0, <2>1 DEF TypeOK, emitter, batches, node
  <2> QED BY <2>1, <2>2, QuietStep DEF node
<1>4. CASE Tick
  <2>1. UNCHANGED <<node, emitter, requests, out, batches, foreign, received>> /\ tick' = TRUE
    BY <1>4 DEF Tick
  <2>2. TypeOK'
    BY <1>0, <2>1 DEF TypeOK, emitter, batches, node
  <2> QED BY <2>1, <2>2, QuietStep DEF node
<1>5. CASE LifecycleEvent
  <2>1. /\ foreign < MaxForeign /\ Len(out) < OutCap /\ foreign' = foreign + 1
        /\ out' = Append(out, Foreign)
        /\ UNCHANGED <<node, emitter, tick, requests, batches, received>>
    BY <1>5 DEF LifecycleEvent
  <2>2. Foreign \in Events /\ \A y \in Sent : MayPrecede(y, Foreign)
    BY EventKinds DEF MayPrecede, Of
  <2>3. SentInOrder' /\ out' \in Seq(Events) /\ Len(out') <= OutCap /\ Sent' \subseteq Sent \cup {Foreign}
    BY <2>1, <2>2, SendInOrder
  <2>4. foreign' \in 0..MaxForeign
    BY <1>0, <2>1, SnapshotAssumption DEF TypeOK
  <2>5. TypeOK' /\ EventsOK'
    BY <1>0, <2>1, <2>3, <2>4 DEF TypeOK, EventsOK, emitter, batches, node
  <2>6. version' \in [VMs -> 0..MaxChanges] /\ \A u \in VMs : version[u] <= version'[u]
    BY <1>0, <2>1, SnapshotAssumption DEF node
  <2> QED BY <2>1, <2>3, <2>5, <2>6, OthersKeep
<1>6. CASE Publish
  <2>1. UNCHANGED <<node, emitter, tick, requests, batches, foreign>>
    BY <1>6 DEF Publish
  <2>2. /\ SentInOrder' /\ out' \in Seq(Events) /\ received' \in Seq(Events)
        /\ Len(out') <= OutCap /\ Sent' \subseteq Sent
    BY <1>6, PublishInOrder
  <2>3. TypeOK' /\ EventsOK'
    BY <1>0, <2>1, <2>2 DEF TypeOK, EventsOK, emitter, batches, node
  <2>4. version' \in [VMs -> 0..MaxChanges] /\ \A u \in VMs : version[u] <= version'[u]
    BY <1>0, <2>1, SnapshotAssumption DEF node
  <2> QED BY <2>1, <2>2, <2>3, <2>4, OthersKeep
<1>7. ASSUME NEW e \in Emitters, Begin(e)
      PROVE  TypeOK' /\ EventsOK' /\ SentInOrder' /\ EmitterInv'
  <2>1. EventsOK' /\ SentInOrder'
    BY <1>0, <1>7 DEF Begin, EventsOK, SentInOrder, Ordered
  <2> QED BY <1>7, <2>1, BeginKeeps
<1>8. ASSUME NEW e \in Emitters, BeginFails(e)
      PROVE  TypeOK' /\ EventsOK' /\ SentInOrder' /\ EmitterInv'
  <2>1. UNCHANGED <<node, emitter, out, batches, foreign, received>>
    BY <1>8 DEF BeginFails
  <2>2. tick' \in BOOLEAN /\ requests' \in [Callbacks -> 0..1]
    BY <1>0, <1>8, TriggerTypes DEF BeginFails
  <2>3. TypeOK'
    BY <1>0, <2>1, <2>2 DEF TypeOK, emitter, batches, node
  <2> QED BY <2>1, <2>3, QuietStep DEF node
<1>9. ASSUME NEW e \in Emitters, Probe(e)
      PROVE  TypeOK' /\ EventsOK' /\ SentInOrder' /\ EmitterInv'
  <2>1. UNCHANGED <<out, received>>
    BY <1>9 DEF Probe
  <2>2. EventsOK' /\ SentInOrder'
    BY <1>0, <1>9, <2>1, ProbeKeeps DEF EventsOK, SentInOrder, Ordered
  <2> QED BY <1>9, <2>2, ProbeKeeps
<1>10. ASSUME NEW e \in Emitters, SendState(e) \/ SendComplete(e)
       PROVE  TypeOK' /\ EventsOK' /\ SentInOrder' /\ EmitterInv'
  BY <1>10, SendStateKeeps, SendCompleteKeeps
<1>11. CASE UNCHANGED vars
  <2>1. TypeOK'
    BY <1>0, <1>11 DEF TypeOK, vars, emitter, batches, node
  <2> QED BY <1>11, <2>1, QuietStep DEF vars, node
<1> QED
  BY <1>1, <1>2, <1>3, <1>4, <1>5, <1>6, <1>7, <1>8, <1>9, <1>10, <1>11 DEF Next, EmitBatch
-----------------------------------------------------------------------------
(* What follows *)

(* The invariant holds of every behaviour, for every value of the constants. *)
THEOREM SnapshotInductive == Spec => []SnapshotInv
<1> QED BY SnapshotInit, SnapshotStep, PTL DEF Spec

(* Every variable keeps its type, and the channel its capacity (TypeOK).     *)
THEOREM SnapshotTypes == Spec => []TypeOK
<1> QED BY SnapshotInductive, PTL DEF SnapshotInv

(* Every state that is received was probed after its batch began: no batch   *)
(* answers with what the channel or another batch held (AnswersAreFresh).    *)
THEOREM AnswersAreNew == Spec => []AnswersAreFresh
<1>1. ASSUME SnapshotInv PROVE AnswersAreFresh
  <2> SUFFICES ASSUME NEW b \in Begun, NEW i \in StatesOf(b)
               PROVE  received[i].version >= since[b][received[i].vm]
    BY DEF AnswersAreFresh
  <2> PICK x : x = received[i]
    OBVIOUS
  <2>1. x \in Sent /\ x.type = "state" /\ x.id = b
    BY DEF StatesOf, Sent
  <2>2. since[b][x.vm] <= x.version
    BY <1>1, <2>1 DEF SnapshotInv, EventsAreTrue, EventIsTrue
  <2> QED BY <2>2
<1> QED BY <1>1, SnapshotInductive, PTL

(* Nothing of a batch comes after its completion, among what was received or *)
(* what the channel still holds (CompleteIsLast).                            *)
THEOREM CompletionsAreLast == Spec => []CompleteIsLast
<1>1. ASSUME SnapshotInv PROVE CompleteIsLast
  <2> SUFFICES ASSUME NEW b \in Begun, NEW i \in CompletesOf(b)
               PROVE  /\ \A j \in StatesOf(b) : j < i
                      /\ \A k \in DOMAIN out : out[k].type = "lifecycle" \/ out[k].id # b
    BY DEF CompleteIsLast
  <2>1. i \in DOMAIN received /\ received[i].type = "complete" /\ received[i].id = b
    BY DEF CompletesOf
  <2>2. DOMAIN received = 1..Len(received) /\ Len(received) \in Nat
    BY <1>1 DEF SnapshotInv, EventsOK
  <2>3. ASSUME NEW j \in StatesOf(b) PROVE j < i
    <3>1. j \in DOMAIN received /\ received[j].type = "state" /\ received[j].id = b
      BY DEF StatesOf
    <3>2. i # j
      BY <2>1, <3>1
    <3>3. ~MayPrecede(received[i], received[j])
      BY <2>1, <3>1 DEF MayPrecede, Of
    <3>4. ~(i < j)
      BY <1>1, <2>1, <3>1, <3>3 DEF SnapshotInv, SentInOrder, Ordered
    <3> QED BY <2>1, <2>2, <3>1, <3>2, <3>4
  <2>4. ASSUME NEW k \in DOMAIN out, out[k].type # "lifecycle", out[k].id = b PROVE FALSE
    <3>1. ~MayPrecede(received[i], out[k])
      BY <2>1, <2>4 DEF MayPrecede, Of
    <3> QED BY <1>1, <2>1, <3>1 DEF SnapshotInv, SentInOrder
  <2> QED BY <2>3, <2>4
<1> QED BY <1>1, SnapshotInductive, PTL

(* When as many states of a batch have arrived as its completion counts,     *)
(* they are those of every VM that VMList returned (CountConfirms).          *)
THEOREM CountsConfirm == Spec => []CountConfirms
<1>1. ASSUME SnapshotInv PROVE CountConfirms
  <2> SUFFICES ASSUME NEW b \in Begun, NEW i \in CompletesOf(b),
                      received[i].count = Cardinality(StatesOf(b))
               PROVE  {received[j].vm : j \in StatesOf(b)} = vmList[b]
    BY DEF CountConfirms
  <2> DEFINE S == StatesOf(b)
             T == vmList[b]
             f == [j \in S |-> received[j].vm]
  <2>1. Cardinality(S) = Cardinality(T)
    <3>1. received[i] \in Sent /\ received[i].type = "complete" /\ received[i].id = b
      BY DEF CompletesOf, Sent
    <3> QED BY <1>1, <3>1 DEF SnapshotInv, EventsAreTrue, EventIsTrue
  <2>2. IsFiniteSet(T)
    <3>1. T \in SUBSET VMs
      BY <1>1 DEF SnapshotInv, TypeOK, Begun
    <3> QED BY <3>1, Sizes
  <2>3. S \subseteq DOMAIN received /\ DOMAIN received \subseteq Nat
    BY <1>1 DEF SnapshotInv, EventsOK, StatesOf
  <2>4. \A j \in S : received[j].vm \in T
    <3> SUFFICES ASSUME NEW j \in S PROVE received[j].vm \in T
      OBVIOUS
    <3>1. received[j] \in Sent /\ received[j].type = "state" /\ received[j].id = b
      BY DEF StatesOf, Sent
    <3> QED BY <1>1, <3>1 DEF SnapshotInv, EventsAreTrue, EventIsTrue
  <2>5. ASSUME NEW j \in S, NEW k \in S, received[j].vm = received[k].vm PROVE j = k
    <3>1. /\ received[j].type = "state" /\ received[j].id = b
          /\ received[k].type = "state" /\ received[k].id = b
      BY DEF StatesOf
    <3>2. ~MayPrecede(received[j], received[k]) /\ ~MayPrecede(received[k], received[j])
      BY <2>5, <3>1 DEF MayPrecede, Of
    <3>3. j \in DOMAIN received /\ k \in DOMAIN received
      BY <2>3
    <3>4. ~(j < k) /\ ~(k < j)
      BY <1>1, <3>2, <3>3 DEF SnapshotInv, SentInOrder, Ordered
    <3> QED BY <2>3, <3>3, <3>4
  <2> HIDE DEF S, T
  <2>6. f \in Injection(S, T)
    BY <2>4, <2>5 DEF Injection, IsInjective
  <2>7. f \in Surjection(S, T)
    BY <2>1, <2>2, <2>6, FS_Injection
  <2>8. \A v \in T : \E j \in S : f[j] = v
    BY <2>7 DEF Surjection
  <2> QED BY <2>4, <2>8 DEF S, T
<1> QED BY <1>1, SnapshotInductive, PTL
=============================================================================
