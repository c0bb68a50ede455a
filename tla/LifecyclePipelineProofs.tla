----------------------- MODULE LifecyclePipelineProofs -----------------------
(***************************************************************************)
(* What holds of the events from the watcher's channel to NATS, for any    *)
(* tasks and migrations, and any capacity of the two channels.             *)
(***************************************************************************)
EXTENDS LifecyclePipelineInv, SequenceLemmas, SequenceTheorems, TLAPS

(* The queue *)

(* Without what the Enricher adds, CloudEvents are events.                   *)
LEMMA StripType ==
  ASSUME NEW s \in Seq(CloudEvents)
  PROVE  /\ Strip(s) \in Seq(Events) /\ Len(Strip(s)) = Len(s)
         /\ \A i \in 1..Len(s) : Strip(s)[i] = Event(s[i].task, s[i].phase)
<1>1. DOMAIN s = 1..Len(s) /\ Len(s) \in Nat
  OBVIOUS
<1>2. \A i \in 1..Len(s) : s[i] \in CloudEvents
  OBVIOUS
<1>3. \A i \in 1..Len(s) : Event(s[i].task, s[i].phase) \in Events
  BY <1>2 DEF CloudEvents, Events, Event
<1> QED BY <1>1, <1>3 DEF Strip

(* The queue and its parts are sequences of events.                          *)
LEMMA QueueShape ==
  ASSUME TypeOK, HandIsFull
  PROVE  /\ Strip(out) \in Seq(Events) /\ in \in Seq(Events)
         /\ Now \in Seq(Events) /\ Strip(out) \o Now \in Seq(Events)
         /\ Queue \in Seq(Events)
<1>1. Strip(out) \in Seq(Events) /\ in \in Seq(Events)
  BY StripType DEF TypeOK
<1>2. Now \in Seq(Events)
  BY DEF Now, HandIsFull
<1> QED BY <1>1, <1>2 DEF Queue

(* The watcher announces at the end of the queue.                            *)
LEMMA AnnounceQueues ==
  ASSUME TypeOK, HandIsFull, NEW e \in Events,
         in' = Append(in, e), UNCHANGED <<out, rpc, ev>>
  PROVE  Queue' = Append(Queue, e)
<1> DEFINE A == Strip(out) \o Now
<1>1. Strip(out)' = Strip(out) /\ Now' = Now
  BY DEF Strip, Now, Busy
<1>2. A \in Seq(Events) /\ in \in Seq(Events)
  BY QueueShape
<1>3. A \o Append(in, e) = Append(A \o in, e)
  <2> HIDE DEF A
  <2> QED BY <1>2
<1> QED BY <1>1, <1>3 DEF Queue

(* Taking an event in hand changes nothing.                                  *)
LEMMA ReceiveKeepsQueue ==
  ASSUME TypeOK, HandIsFull, rpc = "select", in # <<>>,
         ev' = Head(in), in' = Tail(in), rpc' \in {"waiting", "sending"}, out' = out
  PROVE  Queue' = Queue
<1> DEFINE A == Strip(out)
<1>1. Strip(out)' = A /\ Now' = <<Head(in)>> /\ Now = <<>>
  BY DEF Strip, Now, Busy
<1>2. A \in Seq(Events) /\ in \in Seq(Events)
  BY QueueShape
<1>3. (A \o <<Head(in)>>) \o Tail(in) = (A \o <<>>) \o in
  <2> HIDE DEF A
  <2>1. Head(in) \in Events /\ Tail(in) \in Seq(Events) /\ <<Head(in)>> \in Seq(Events)
    BY <1>2
  <2>2. <<Head(in)>> \o Tail(in) = in
    BY <1>2, <2>1
  <2>3. (A \o <<Head(in)>>) \o Tail(in) = A \o (<<Head(in)>> \o Tail(in))
    BY <1>2, <2>1, ConcatAssociative
  <2>4. A \o <<>> = A
    BY <1>2
  <2> QED BY <2>2, <2>3, <2>4
<1> QED BY <1>1, <1>3 DEF Queue

(* Nor does sending it on.                                                   *)
LEMMA ForwardKeepsQueue ==
  ASSUME TypeOK, HandIsFull, rpc = "sending",
         out' = Append(out, ce), rpc' = "select", UNCHANGED <<in, ev>>
  PROVE  Queue' = Queue
<1> DEFINE A == Strip(out)
<1>1. ce \in CloudEvents /\ ev \in Events /\ ev = Event(ce.task, ce.phase)
  BY DEF HandIsFull, Busy, Event, Events, CloudEvents
<1>2. Strip(out)' = Append(A, ev)
  <2>1. out \in Seq(CloudEvents) /\ Append(out, ce) \in Seq(CloudEvents)
    BY <1>1 DEF TypeOK
  <2>2. Strip(out)' = Strip(Append(out, ce))
    BY DEF Strip
  <2>3. A \in Seq(Events) /\ Len(A) = Len(out) /\ \A i \in 1..Len(out) : A[i] = Event(out[i].task, out[i].phase)
    BY <2>1, StripType
  <2>4. /\ Strip(Append(out, ce)) \in Seq(Events)
        /\ Len(Strip(Append(out, ce))) = Len(Append(out, ce))
        /\ \A i \in 1..Len(Append(out, ce)) : Strip(Append(out, ce))[i] =
              Event(Append(out, ce)[i].task, Append(out, ce)[i].phase)
    BY <2>1, StripType
  <2>5. /\ Len(Append(out, ce)) = Len(out) + 1 /\ Len(out) \in Nat
        /\ \A i \in 1..Len(out) : Append(out, ce)[i] = out[i]
        /\ Append(out, ce)[Len(out) + 1] = ce
    BY <2>1
  <2>6. Append(A, ev) \in Seq(Events) /\ Len(Append(A, ev)) = Len(A) + 1
        /\ (\A i \in 1..Len(A) : Append(A, ev)[i] = A[i]) /\ Append(A, ev)[Len(A) + 1] = ev
    BY <1>1, <2>3
  <2> HIDE DEF A
  <2>7. \A i \in 1..Len(out) + 1 : Strip(Append(out, ce))[i] = Append(A, ev)[i]
    BY <1>1, <2>3, <2>4, <2>5, <2>6
  <2> QED BY <2>2, <2>3, <2>4, <2>5, <2>6, <2>7, SeqEqual
<1>3. Now = <<ev>> /\ Now' = <<>>
  BY DEF Now, Busy
<1>4. A \in Seq(Events) /\ in \in Seq(Events)
  BY QueueShape
<1>5. Append(A, ev) \o <<>> = A \o <<ev>>
  <2> HIDE DEF A
  <2> QED BY <1>1, <1>4
<1> QED BY <1>2, <1>3, <1>5 DEF Queue

(* The publisher takes the first of the queue.                               *)
LEMMA PublishTakesFirst ==
  ASSUME TypeOK, HandIsFull, out # <<>>, out' = Tail(out), UNCHANGED <<in, rpc, ev>>
  PROVE  /\ Queue # <<>> /\ Queue' = Tail(Queue)
         /\ Queue[1] = Event(Head(out).task, Head(out).phase)
<1> DEFINE A == Strip(out)
           B == Now \o in
<1>1. /\ A \in Seq(Events) /\ Len(A) = Len(out)
      /\ \A i \in 1..Len(out) : A[i] = Event(out[i].task, out[i].phase)
      /\ out \in Seq(CloudEvents)
  BY StripType DEF TypeOK
<1>2. Strip(out)' = Tail(A) /\ Now' = Now
  <2>1. Strip(out)' = Strip(Tail(out)) /\ Now' = Now
    BY DEF Strip, Now, Busy
  <2>2. Tail(out) \in Seq(CloudEvents)
    BY <1>1
  <2>3. /\ Strip(Tail(out)) \in Seq(Events)
        /\ Len(Strip(Tail(out))) = Len(Tail(out))
        /\ \A i \in 1..Len(Tail(out)) : Strip(Tail(out))[i] =
              Event(Tail(out)[i].task, Tail(out)[i].phase)
    BY <2>2, StripType
  <2>4. /\ Len(Tail(out)) = Len(out) - 1 /\ Len(out) \in Nat \ {0}
        /\ \A i \in 1..Len(out) - 1 : Tail(out)[i] = out[i + 1]
    BY <1>1
  <2>5. /\ Tail(A) \in Seq(Events) /\ Len(Tail(A)) = Len(A) - 1
        /\ \A i \in 1..Len(A) - 1 : Tail(A)[i] = A[i + 1]
    <3>1. A # <<>>
      BY <1>1, <2>4
    <3> HIDE DEF A
    <3> QED BY <1>1, <3>1
  <2> HIDE DEF A
  <2>6. \A i \in 1..Len(out) - 1 : Strip(Tail(out))[i] = Tail(A)[i]
    BY <1>1, <2>3, <2>4, <2>5
  <2>7. Strip(Tail(out)) = Tail(A)
    BY <1>1, <2>3, <2>4, <2>5, <2>6, SeqEqual
  <2> QED BY <2>1, <2>7
<1>3. Now \in Seq(Events) /\ in \in Seq(Events)
  BY QueueShape
<1>4. Queue = A \o B /\ Queue' = Tail(A) \o B /\ B \in Seq(Events) /\ Tail(A) \in Seq(Events)
  <2>1. A # <<>>
    BY <1>1
  <2>2. Tail(A) \in Seq(Events) /\ B \in Seq(Events)
    <3>1. B \in Seq(Events)
      BY <1>3
    <3> HIDE DEF A
    <3> QED BY <1>1, <2>1, <3>1
  <2>3. (A \o Now) \o in = A \o (Now \o in)
    <3> HIDE DEF A, B
    <3> QED BY <1>1, <1>3, ConcatAssociative
  <2>4. (Tail(A) \o Now) \o in = Tail(A) \o (Now \o in)
    <3> DEFINE T == Tail(A)
    <3>1. T \in Seq(Events)
      BY <2>2
    <3> HIDE DEF A, B, T
    <3>2. (T \o Now) \o in = T \o (Now \o in)
      BY <1>3, <3>1, ConcatAssociative
    <3> QED BY <3>2 DEF T
  <2> QED BY <1>2, <2>2, <2>3, <2>4 DEF Queue
<1>5. A # <<>> /\ 1 \in 1..Len(out) /\ Head(out) = out[1]
  BY <1>1
<1>6. A \o B # <<>> /\ Tail(A \o B) = Tail(A) \o B /\ (A \o B)[1] = A[1]
  <2> HIDE DEF A, B
  <2>1. /\ A \o B \in Seq(Events) /\ Len(A \o B) = Len(A) + Len(B)
        /\ \A i \in 1..Len(A) + Len(B) : (A \o B)[i] = IF i <= Len(A) THEN A[i] ELSE B[i - Len(A)]
    BY <1>1, <1>4, ConcatProperties
  <2>2. Len(A) \in Nat \ {0} /\ Len(B) \in Nat
    BY <1>1, <1>4, <1>5
  <2>3. /\ Tail(A) \o B \in Seq(Events) /\ Len(Tail(A) \o B) = Len(A) - 1 + Len(B)
        /\ \A i \in 1..Len(A) - 1 + Len(B) :
             (Tail(A) \o B)[i] = IF i <= Len(A) - 1 THEN Tail(A)[i] ELSE B[i - (Len(A) - 1)]
    <3>1. Len(Tail(A)) = Len(A) - 1
      BY <1>1, <1>5
    <3>2. /\ Tail(A) \o B \in Seq(Events) /\ Len(Tail(A) \o B) = Len(Tail(A)) + Len(B)
          /\ \A i \in 1..Len(Tail(A)) + Len(B) :
               (Tail(A) \o B)[i] = IF i <= Len(Tail(A)) THEN Tail(A)[i] ELSE B[i - Len(Tail(A))]
      BY <1>4, ConcatProperties
    <3> QED BY <3>1, <3>2
  <2>4. \A i \in 1..Len(A) - 1 : Tail(A)[i] = A[i + 1]
    BY <1>1, <1>5
  <2>5. A \o B # <<>>
    BY <2>1, <2>2
  <2>6. /\ Tail(A \o B) \in Seq(Events) /\ Len(Tail(A \o B)) = Len(A) + Len(B) - 1
        /\ \A i \in 1..Len(A) + Len(B) - 1 : Tail(A \o B)[i] = (A \o B)[i + 1]
    BY <2>1, <2>5
  <2>7. ASSUME NEW i \in 1..Len(A) - 1 + Len(B) PROVE Tail(A \o B)[i] = (Tail(A) \o B)[i]
    <3>1. (A \o B)[i + 1] = IF i + 1 <= Len(A) THEN A[i + 1] ELSE B[i + 1 - Len(A)]
      BY <2>1, <2>2
    <3> QED BY <2>2, <2>3, <2>4, <2>6, <3>1
  <2>8. Tail(A \o B) = Tail(A) \o B
    BY <2>2, <2>3, <2>6, <2>7, SeqEqual
  <2> QED BY <2>1, <2>2, <2>5, <2>8
<1> QED BY <1>1, <1>4, <1>5, <1>6
-----------------------------------------------------------------------------
(* What is queued, in turn *)

\* What an event is to a task: its phase, or nothing.
PhaseFor(t, e) == IF t = e.task THEN {e.phase} ELSE {}

(* What is queued of a task before and after an event is added.              *)
LEMMA QueuedAppend ==
  ASSUME NEW q \in Seq(Events), NEW e \in Events, NEW t
  PROVE  /\ \A n \in 0..Len(q) : Queued(Append(q, e), t, n) = Queued(q, t, n)
         /\ Queued(Append(q, e), t, Len(q) + 1) = Queued(q, t, Len(q)) \cup PhaseFor(t, e)
<1> DEFINE r == Append(q, e)
<1>1. /\ Len(q) \in Nat /\ \A i \in 1..Len(q) : r[i] = q[i]
      /\ r[Len(q) + 1] = e
  BY AppendElements
<1> HIDE DEF r
<1>2. ASSUME NEW n \in 0..Len(q) PROVE Queued(r, t, n) = Queued(q, t, n)
  <2>1. \A k \in 1..n : r[k] = q[k]
    BY <1>1
  <2> QED BY <2>1 DEF Queued
<1>3. Queued(r, t, Len(q) + 1) = Queued(q, t, Len(q)) \cup PhaseFor(t, e)
  <2>1. {k \in 1..Len(q) + 1 : r[k].task = t} =
          {k \in 1..Len(q) : q[k].task = t} \cup (IF t = e.task THEN {Len(q) + 1} ELSE {})
    BY <1>1
  <2>2. \A k \in {j \in 1..Len(q) : q[j].task = t} : r[k].phase = q[k].phase
    BY <1>1
  <2> QED BY <1>1, <2>1, <2>2 DEF Queued, PhaseFor
<1> QED BY <1>2, <1>3 DEF r

(* And before and after the first is taken.                                  *)
LEMMA QueuedTail ==
  ASSUME NEW q \in Seq(Events), q # <<>>, NEW t, NEW n \in 1..Len(q)
  PROVE  Queued(q, t, n) = (IF t = q[1].task THEN {q[1].phase} ELSE {})
                             \cup Queued(Tail(q), t, n - 1)
<1> DEFINE r == Tail(q)
<1>1. /\ Len(q) \in Nat \ {0} /\ \A i \in 1..Len(q) - 1 : r[i] = q[i + 1]
  BY TailElements
<1>2. n \in Nat \ {0} /\ n <= Len(q)
  BY <1>1
<1> HIDE DEF r
<1>3. ASSUME NEW x \in Queued(q, t, n)
      PROVE  x \in (IF t = q[1].task THEN {q[1].phase} ELSE {}) \cup Queued(r, t, n - 1)
  <2>1. PICK k \in 1..n : q[k].task = t /\ x = q[k].phase
    BY <1>3 DEF Queued
  <2>2. CASE k = 1
    BY <2>1, <2>2
  <2>3. CASE k # 1
    <3>1. k - 1 \in 1..n - 1 /\ k - 1 \in 1..Len(q) - 1 /\ k - 1 + 1 = k
      BY <1>2, <1>1, <2>1, <2>3
    <3>2. r[k - 1] = q[k]
      BY <1>1, <3>1
    <3> QED BY <2>1, <3>1, <3>2 DEF Queued
  <2> QED BY <2>2, <2>3
<1>4. Queued(r, t, n - 1) \subseteq Queued(q, t, n)
  <2> SUFFICES ASSUME NEW x \in Queued(r, t, n - 1) PROVE x \in Queued(q, t, n)
    OBVIOUS
  <2>1. PICK k \in 1..n - 1 : r[k].task = t /\ x = r[k].phase
    BY DEF Queued
  <2>2. k + 1 \in 1..n /\ k \in 1..Len(q) - 1
    BY <1>1, <1>2
  <2>3. r[k] = q[k + 1]
    BY <1>1, <2>2
  <2> QED BY <2>1, <2>2, <2>3 DEF Queued
<1>5. t = q[1].task => q[1].phase \in Queued(q, t, n)
  <2>1. 1 \in 1..n
    BY <1>2
  <2> QED BY <2>1 DEF Queued
<1> QED BY <1>3, <1>4, <1>5 DEF r

(* A phase in turn behind the queue may be added.                            *)
LEMMA TurnAppend ==
  ASSUME NEW q \in Seq(Events), NEW e \in Events, NEW given, AllInTurn(q, given),
         InTurn(e.phase, given[e.task] \cup Queued(q, e.task, Len(q)))
  PROVE  AllInTurn(Append(q, e), given)
<1> DEFINE r == Append(q, e)
<1>1. /\ Len(q) \in Nat /\ \A i \in 1..Len(q) : r[i] = q[i]
      /\ r[Len(q) + 1] = e /\ DOMAIN r = 1..Len(q) + 1 /\ DOMAIN q = 1..Len(q)
  BY AppendElements
<1>2. \A t : \A n \in 0..Len(q) : Queued(r, t, n) = Queued(q, t, n)
  BY QueuedAppend
<1> HIDE DEF r
<1> SUFFICES ASSUME NEW k \in DOMAIN r
             PROVE  InTurn(r[k].phase, given[r[k].task] \cup Queued(r, r[k].task, k - 1))
  BY DEF AllInTurn, r
<1>3. k - 1 \in 0..Len(q)
  BY <1>1
<1>4. Queued(r, r[k].task, k - 1) = Queued(q, r[k].task, k - 1)
  BY <1>2, <1>3
<1>5. CASE k \in 1..Len(q)
  <2>1. r[k] = q[k] /\ k \in DOMAIN q
    BY <1>1, <1>5
  <2>2. InTurn(q[k].phase, given[q[k].task] \cup Queued(q, q[k].task, k - 1))
    BY <2>1 DEF AllInTurn
  <2> QED BY <1>4, <2>1, <2>2
<1>6. CASE k = Len(q) + 1
  <2>1. r[k] = e /\ k - 1 = Len(q)
    BY <1>1, <1>6
  <2> QED BY <1>4, <2>1
<1> QED BY <1>1, <1>5, <1>6

(* The first of the queue may be published, and the others move up.          *)
LEMMA TurnTail ==
  ASSUME NEW q \in Seq(Events), q # <<>>, NEW given, AllInTurn(q, given), NEW later,
         \A t \in Tasks : later[t] = given[t] \cup (IF t = q[1].task THEN {q[1].phase} ELSE {})
  PROVE  InTurn(q[1].phase, given[q[1].task]) /\ AllInTurn(Tail(q), later)
<1> DEFINE r == Tail(q)
<1>1. /\ Len(q) \in Nat \ {0} /\ DOMAIN q = 1..Len(q) /\ DOMAIN r = 1..Len(q) - 1
      /\ \A i \in 1..Len(q) - 1 : r[i] = q[i + 1]
      /\ \A i \in 1..Len(q) : q[i].task \in Tasks
  <2>1. \A i \in 1..Len(q) : q[i] \in Events
    BY TailElements
  <2>2. \A i \in 1..Len(q) : q[i].task \in Tasks
    BY <2>1 DEF Events
  <2> QED BY <2>2, TailElements
<1>2. InTurn(q[1].phase, given[q[1].task])
  <2>1. 1 \in DOMAIN q /\ 1..1 - 1 = {}
    BY <1>1
  <2>2. Queued(q, q[1].task, 1 - 1) = {}
    BY <2>1 DEF Queued
  <2>3. InTurn(q[1].phase, given[q[1].task] \cup Queued(q, q[1].task, 1 - 1))
    BY <2>1 DEF AllInTurn
  <2> QED BY <2>2, <2>3
<1>3. ASSUME NEW k \in DOMAIN r
      PROVE  InTurn(r[k].phase, later[r[k].task] \cup Queued(r, r[k].task, k - 1))
  <2> HIDE DEF r
  <2>1. k \in 1..Len(q) - 1 /\ k + 1 \in 1..Len(q) /\ k \in 1..Len(q) /\ k + 1 - 1 = k
    BY <1>1, <1>3
  <2>2. r[k] = q[k + 1] /\ q[k + 1].task \in Tasks /\ k + 1 \in DOMAIN q
    BY <1>1, <2>1
  <2> DEFINE u == q[k + 1].task
  <2>3. InTurn(q[k + 1].phase, given[u] \cup Queued(q, u, k))
    <3> PICK j : j = k + 1
      OBVIOUS
    <3>1. InTurn(q[j].phase, given[q[j].task] \cup Queued(q, q[j].task, j - 1))
      BY <2>2 DEF AllInTurn
    <3>2. j - 1 = k
      BY <2>1
    <3> QED BY <3>1, <3>2
  <2>4. Queued(q, u, k) = (IF u = q[1].task THEN {q[1].phase} ELSE {}) \cup Queued(r, u, k - 1)
    BY <2>1, QueuedTail DEF r
  <2>5. later[u] = given[u] \cup (IF u = q[1].task THEN {q[1].phase} ELSE {})
    BY <2>2
  <2>6. given[u] \cup Queued(q, u, k) = later[u] \cup Queued(r, u, k - 1)
    BY <2>4, <2>5
  <2> QED BY <2>2, <2>3, <2>6
<1> QED BY <1>2, <1>3 DEF AllInTurn
-----------------------------------------------------------------------------
(* What is queued, in turn *)

QueueInv == NothingIsLost /\ QueueIsInTurn /\ QueueIsShown

(* The steps that change neither the queue nor what surrounds it.            *)
LEMMA QueueKeeps ==
  ASSUME PipelineInv, Queue' = Queue, UNCHANGED <<trace, published>>,
         \A t \in Tasks : \A p \in Phases : file[t] \in Shows(p) => file'[t] \in Shows(p)
  PROVE  QueueInv'
<1>1. \A t : Announced(t)' = Announced(t) /\ Published(t)' = Published(t)
  BY DEF Announced, Published
<1>2. NothingIsLost'
  <2> SUFFICES ASSUME NEW t \in Tasks
               PROVE  Announced(t)' = Published(t)' \cup Queued(Queue', t, Len(Queue'))
    BY DEF NothingIsLost, Queued
  <2> QED BY <1>1 DEF PipelineInv, NothingIsLost
<1>3. QueueIsInTurn'
  <2>1. AllInTurn(Queue, [t \in Tasks |-> Published(t)])
    BY DEF PipelineInv, QueueIsInTurn
  <2>2. [t \in Tasks |-> Published(t)]' = [t \in Tasks |-> Published(t)]
    BY <1>1
  <2>3. AllInTurn(Queue', [t \in Tasks |-> Published(t)]')
    BY <2>1, <2>2
  <2> QED BY <2>3 DEF QueueIsInTurn, AllInTurn, InTurn, Queued
<1>4. QueueIsShown'
  <2>1. Queue \in Seq(Events)
    BY QueueShape DEF PipelineInv
  <2>2. \A k \in DOMAIN Queue : Queue[k] \in Events
    BY <2>1
  <2>3. \A k \in DOMAIN Queue : Queue[k].task \in Tasks /\ Queue[k].phase \in Phases
    BY <2>2 DEF Events
  <2> QED BY <2>3 DEF PipelineInv, QueueIsShown
<1> QED BY <1>2, <1>3, <1>4 DEF QueueInv

\* A phase is announced, and its event comes last in the queue.
AddsLast(t, p) == /\ Queue' = Append(Queue, Event(t, p))
                  /\ trace' = [trace EXCEPT ![t] = Append(@, p)]

(* A phase that the watcher announces is in turn behind the queue.           *)
LEMMA AnnounceInTurn ==
  ASSUME PipelineInv, NEW t \in Tasks, NEW p \in Phases,
         AddsLast(t, p), UNCHANGED <<published, file>>,
         InTurn(p, Announced(t)), p = "synced" => t \in Migrations,
         file[t] \in Shows(p)
  PROVE  QueueInv'
<1> DEFINE e == Event(t, p)
           q == Queue
           r == Append(q, e)
           given == [u \in Tasks |-> Published(u)]
<1>1. e \in Events /\ e.task = t /\ e.phase = p
  BY DEF Events, Event
<1>2. q \in Seq(Events)
  BY QueueShape DEF PipelineInv
<1>3. /\ Len(q) \in Nat /\ DOMAIN q = 1..Len(q) /\ DOMAIN r = 1..Len(q) + 1
      /\ Len(r) = Len(q) + 1
      /\ \A i \in 1..Len(q) : r[i] = q[i]
      /\ r[Len(q) + 1] = e
  <2> HIDE DEF e, q
  <2> QED BY <1>1, <1>2, AppendElements
<1>4. Queue' = r /\ given' = given /\ \A u : Published(u)' = Published(u)
  BY DEF AddsLast, Published
<1>5. /\ Announced(t)' = Announced(t) \cup {p}
      /\ \A u \in Tasks \ {t} : Announced(u)' = Announced(u)
  <2>1. trace \in [Tasks -> Seq(Phases)]
    BY DEF PipelineInv, TypeOK
  <2>2. /\ trace'[t] = Append(trace[t], p) /\ trace[t] \in Seq(Phases)
        /\ \A u \in Tasks \ {t} : trace'[u] = trace[u]
    BY <2>1 DEF AddsLast
  <2>3. ASSUME NEW s \in Seq(Phases)
        PROVE  {Append(s, p)[i] : i \in DOMAIN Append(s, p)} = {s[i] : i \in DOMAIN s} \cup {p}
    <3> HIDE DEF e, q, r, given
    <3> QED BY AppendElements
  <2>4. /\ \A u : Announced(u) = {trace[u][i] : i \in DOMAIN trace[u]}
        /\ \A u : Announced(u)' = {trace'[u][i] : i \in DOMAIN trace'[u]}
    BY DEF Announced
  <2> HIDE DEF e, q, r, given
  <2>5. Announced(t)' = Announced(t) \cup {p}
    <3>1. Announced(t)' = {trace'[t][i] : i \in DOMAIN trace'[t]}
      BY <2>4
    <3> QED BY <2>2, <2>3, <2>4, <3>1
  <2>6. ASSUME NEW u \in Tasks \ {t} PROVE Announced(u)' = Announced(u)
    BY <2>2 DEF Announced
  <2> QED BY <2>5, <2>6
<1>6. \A u \in Tasks : Announced(u) = Published(u) \cup Queued(q, u, Len(q))
  BY DEF PipelineInv, NothingIsLost
<1>7. NothingIsLost'
  <2> SUFFICES ASSUME NEW u \in Tasks
               PROVE  Announced(u)' = Published(u)' \cup Queued(Queue', u, Len(Queue'))
    BY DEF NothingIsLost, Queued
  <2> HIDE DEF e, q
  <2>1. Queued(r, u, Len(q) + 1) = Queued(q, u, Len(q)) \cup (IF u = t THEN {p} ELSE {})
    <3>1. Queued(r, u, Len(q) + 1) = Queued(q, u, Len(q)) \cup PhaseFor(u, e)
      BY <1>1, <1>2, QueuedAppend
    <3> HIDE DEF r
    <3> QED BY <1>1, <3>1 DEF PhaseFor
  <2> HIDE DEF r
  <2>2. Announced(u)' = Announced(u) \cup (IF u = t THEN {p} ELSE {})
    BY <1>5
  <2> QED BY <1>3, <1>4, <1>6, <2>1, <2>2
<1>8. QueueIsInTurn'
  <2>1. AllInTurn(q, given) /\ InTurn(e.phase, given[e.task] \cup Queued(q, e.task, Len(q)))
    <3>1. given[t] = Published(t)
      OBVIOUS
    <3> HIDE DEF given, e, q
    <3>2. InTurn(e.phase, given[e.task] \cup Queued(q, e.task, Len(q)))
      BY <1>1, <1>6, <3>1
    <3> QED BY <3>2 DEF PipelineInv, QueueIsInTurn, given, q
  <2>2. AllInTurn(r, given)
    <3> HIDE DEF given, e, q
    <3> QED BY <1>1, <1>2, <2>1, TurnAppend
  <2>3. AllInTurn(Queue', given')
    <3> HIDE DEF given, r
    <3> QED BY <2>2, <1>4
  <2> QED BY <2>3 DEF QueueIsInTurn, AllInTurn, InTurn, Queued
<1>9. QueueIsShown'
  <2> HIDE DEF e, q, r
  <2> SUFFICES ASSUME NEW i \in DOMAIN r
               PROVE  /\ r[i].phase = "synced" => r[i].task \in Migrations
                      /\ file[r[i].task] \in Shows(r[i].phase)
    BY <1>4 DEF QueueIsShown
  <2>1. CASE i \in 1..Len(q)
    <3>1. r[i] = q[i] /\ i \in DOMAIN q
      BY <1>3, <2>1
    <3> QED BY <3>1 DEF PipelineInv, QueueIsShown, q
  <2>2. CASE i = Len(q) + 1
    BY <1>1, <1>3, <2>2
  <2> QED BY <1>3, <2>1, <2>2
<1> QED BY <1>7, <1>8, <1>9 DEF QueueInv

(* The first of the queue may be published, and the others move up.          *)
LEMMA PublishInTurn ==
  ASSUME PipelineInv, Queue # <<>>, Queue' = Tail(Queue), UNCHANGED <<trace, file>>,
         NEW t \in Tasks, NEW p \in Phases, Queue[1] = Event(t, p),
         Published(t)' = Published(t) \cup {p},
         \A u \in Tasks \ {t} : Published(u)' = Published(u)
  PROVE  /\ QueueInv'
         /\ InTurn(p, Published(t))
         /\ p = "synced" => t \in Migrations
         /\ file[t] \in Shows(p)
<1> DEFINE q == Queue
           r == Tail(q)
           given == [u \in Tasks |-> Published(u)]
<1>1. q \in Seq(Events) /\ q # <<>> /\ q[1].task = t /\ q[1].phase = p
  BY QueueShape DEF PipelineInv, Event
<1>2. /\ Len(q) \in Nat \ {0} /\ DOMAIN q = 1..Len(q) /\ DOMAIN r = 1..Len(q) - 1
      /\ Len(r) = Len(q) - 1
      /\ \A i \in 1..Len(q) - 1 : r[i] = q[i + 1]
  <2> HIDE DEF q
  <2> QED BY <1>1, TailElements
<1>3. Queue' = r /\ \A u : Announced(u)' = Announced(u)
  BY DEF Announced
<1>4. \A u \in Tasks : Published(u)' = Published(u) \cup (IF u = t THEN {p} ELSE {})
  OBVIOUS
<1>5. NothingIsLost'
  <2> SUFFICES ASSUME NEW u \in Tasks
               PROVE  Announced(u)' = Published(u)' \cup Queued(Queue', u, Len(Queue'))
    BY DEF NothingIsLost, Queued
  <2>1. Announced(u) = Published(u) \cup Queued(q, u, Len(q))
    BY DEF PipelineInv, NothingIsLost
  <2> HIDE DEF q
  <2>2. Queued(q, u, Len(q)) = (IF u = t THEN {p} ELSE {}) \cup Queued(r, u, Len(q) - 1)
    <3>1. Len(q) \in 1..Len(q)
      BY <1>2
    <3> QED BY <1>1, <3>1, QueuedTail
  <2> HIDE DEF r
  <2> QED BY <1>2, <1>3, <1>4, <2>1, <2>2
<1>6. /\ InTurn(q[1].phase, given[q[1].task])
      /\ AllInTurn(r, given')
  <2>1. AllInTurn(q, given)
    BY DEF PipelineInv, QueueIsInTurn
  <2>2. \A u \in Tasks : given'[u] = given[u] \cup (IF u = q[1].task THEN {q[1].phase} ELSE {})
    <3>1. \A u \in Tasks : given'[u] = Published(u)' /\ given[u] = Published(u)
      OBVIOUS
    <3> HIDE DEF given, q
    <3> QED BY <1>1, <1>4, <3>1
  <2> HIDE DEF given, q
  <2> QED BY <1>1, <2>1, <2>2, TurnTail
<1>7. QueueIsInTurn'
  <2>1. AllInTurn(Queue', given')
    <3> HIDE DEF given, r
    <3> QED BY <1>3, <1>6
  <2> QED BY <2>1 DEF QueueIsInTurn, AllInTurn, InTurn, Queued
<1>8. QueueIsShown'
  <2> HIDE DEF q, r
  <2> SUFFICES ASSUME NEW i \in DOMAIN r
               PROVE  /\ r[i].phase = "synced" => r[i].task \in Migrations
                      /\ file[r[i].task] \in Shows(r[i].phase)
    BY <1>3 DEF QueueIsShown
  <2>1. r[i] = q[i + 1] /\ i + 1 \in DOMAIN q
    BY <1>2
  <2> QED BY <2>1 DEF PipelineInv, QueueIsShown, q
<1>9. InTurn(p, Published(t))
  <2>1. given[t] = Published(t)
    OBVIOUS
  <2> HIDE DEF given, q
  <2> QED BY <1>1, <1>6, <2>1
<1>10. 1 \in DOMAIN q
  <2> HIDE DEF q
  <2> QED BY <1>2
<1>11. (p = "synced" => t \in Migrations) /\ file[t] \in Shows(p)
  BY <1>1, <1>10 DEF PipelineInv, QueueIsShown
<1> QED BY <1>5, <1>7, <1>8, <1>9, <1>11 DEF QueueInv
-----------------------------------------------------------------------------
(* What was sent and enriched *)

(* What runWatcher sent is what was published and the head of the queue.     *)
LEMMA SentIsQueued ==
  ASSUME PipelineInv, NEW t \in Tasks
  PROVE  Sent(t) = Published(t) \cup Queued(Queue, t, Len(out))
<1> DEFINE A == Strip(out)
           B == Now \o in
<1>1. /\ A \in Seq(Events) /\ Len(A) = Len(out) /\ Len(out) \in Nat /\ DOMAIN out = 1..Len(out)
      /\ \A i \in 1..Len(out) : A[i] = Event(out[i].task, out[i].phase)
  BY StripType DEF PipelineInv, TypeOK
<1>2. Now \in Seq(Events) /\ in \in Seq(Events)
  BY QueueShape DEF PipelineInv
<1>3. B \in Seq(Events)
  BY <1>2
<1>4. Queue = A \o B
  <2> HIDE DEF A
  <2>1. (A \o Now) \o in = A \o (Now \o in)
    BY <1>1, <1>2, ConcatAssociative
  <2> QED BY <2>1 DEF Queue, A
<1> HIDE DEF A, B
<1>5. \A i \in 1..Len(out) : Queue[i].task = out[i].task /\ Queue[i].phase = out[i].phase
  <2>1. \A i \in 1..Len(out) : Queue[i] = A[i]
    BY <1>1, <1>3, <1>4
  <2> SUFFICES ASSUME NEW i \in 1..Len(out)
               PROVE  Queue[i].task = out[i].task /\ Queue[i].phase = out[i].phase
    OBVIOUS
  <2>2. Queue[i] = Event(out[i].task, out[i].phase)
    BY <1>1, <2>1
  <2> QED BY <2>2 DEF Event
<1>6. Queued(Queue, t, Len(out)) = {out[i].phase : i \in {k \in DOMAIN out : out[k].task = t}}
  BY <1>1, <1>5 DEF Queued
<1> QED BY <1>6 DEF Sent, Outbound, Published

(* The event behind what was sent: the one in hand, or the next of channel.  *)
LEMMA HandInTurn ==
  ASSUME PipelineInv, NEW e,
         \/ Busy /\ e = ev
         \/ rpc = "select" /\ in # <<>> /\ e = Head(in)
  PROVE  e \in Events /\ InTurn(e.phase, Sent(e.task))
<1> DEFINE A == Strip(out)
           n == Len(out)
           B == Now \o in
<1>1. A \in Seq(Events) /\ Len(A) = n /\ n \in Nat
  BY StripType DEF PipelineInv, TypeOK
<1>2. Now \in Seq(Events) /\ in \in Seq(Events)
  BY QueueShape DEF PipelineInv
<1>3. B \in Seq(Events) /\ B # <<>> /\ B[1] = e /\ e \in Events
  <2>1. CASE Busy /\ e = ev
    <3>1. Now = <<e>> /\ e \in Events
      BY <2>1 DEF PipelineInv, HandIsFull, Now
    <3>2. <<e>> \o in \in Seq(Events) /\ <<e>> \o in # <<>> /\ (<<e>> \o in)[1] = e
      BY <1>2, <3>1
    <3> QED BY <3>1, <3>2
  <2>2. CASE rpc = "select" /\ in # <<>> /\ e = Head(in)
    <3>1. Now = <<>>
      BY <2>2 DEF Now, Busy
    <3>2. Now \o in = in
      BY <1>2, <3>1
    <3>3. in # <<>> /\ in[1] = e /\ e \in Events
      BY <1>2, <2>2
    <3> QED BY <1>2, <3>2, <3>3
  <2> QED BY <2>1, <2>2
<1>4. Queue = A \o B
  <2> HIDE DEF A
  <2>1. (A \o Now) \o in = A \o (Now \o in)
    BY <1>1, <1>2, ConcatAssociative
  <2> QED BY <2>1 DEF Queue, A
<1>5. Queue[n + 1] = e /\ n + 1 \in DOMAIN Queue
  <2> HIDE DEF A, B, n
  <2>1. Len(B) \in Nat \ {0}
    BY <1>3
  <2>2. n + 1 \in 1..n + Len(B)
    BY <1>1, <2>1
  <2>3. /\ Len(A \o B) = n + Len(B) /\ A \o B \in Seq(Events)
        /\ \A i \in 1..n + Len(B) : (A \o B)[i] = IF i <= n THEN A[i] ELSE B[i - n]
    <3>1. /\ Len(A \o B) = Len(A) + Len(B) /\ A \o B \in Seq(Events)
          /\ \A i \in 1..Len(A) + Len(B) :
               (A \o B)[i] = IF i <= Len(A) THEN A[i] ELSE B[i - Len(A)]
      BY <1>1, <1>3, ConcatProperties
    <3> QED BY <1>1, <3>1
  <2>4. (A \o B)[n + 1] = B[1]
    BY <1>1, <2>2, <2>3
  <2>5. n + 1 \in DOMAIN (A \o B)
    BY <2>2, <2>3
  <2> QED BY <1>3, <1>4, <2>4, <2>5
<1>6. InTurn(e.phase, Sent(e.task))
  <2>1. e.task \in Tasks
    BY <1>3 DEF Events
  <2> PICK j : j = n + 1
    OBVIOUS
  <2>2. InTurn(Queue[j].phase, [t \in Tasks |-> Published(t)][Queue[j].task]
                                 \cup Queued(Queue, Queue[j].task, j - 1))
    BY <1>5 DEF PipelineInv, QueueIsInTurn, AllInTurn
  <2>3. Queue[j] = e /\ j - 1 = n
    BY <1>1, <1>5
  <2>4. [t \in Tasks |-> Published(t)][e.task] \cup Queued(Queue, e.task, n) = Sent(e.task)
    BY <2>1, SentIsQueued
  <2> QED BY <2>2, <2>3, <2>4
<1> QED BY <1>3, <1>6

(* Every CloudEvent tells a phase that was received.                         *)
LEMMA EnrichedWereReceived ==
  ASSUME PipelineInv, NEW t \in Tasks
  PROVE  /\ \A c \in Outbound(t) : c.phase \in Sent(t)
         /\ \A c \in Enriched(t) : c.phase \in Received(t)
         /\ Sent(t) \subseteq Received(t)
<1>1. \A c \in Outbound(t) : c.phase \in Sent(t)
  BY DEF Sent
<1>2. rpc = "sending" => ce.phase = ev.phase /\ Busy
  BY DEF PipelineInv, HandIsFull, Busy
<1> QED BY <1>1, <1>2 DEF Enriched, Received

(* Publishing moves a CloudEvent from the channel to its task.               *)
LEMMA PublishKeepsOutbound ==
  ASSUME TypeOK, out # <<>>, NEW h, h = Head(out), out' = Tail(out),
         published' = [published EXCEPT ![h.task] = Append(@, h)]
  PROVE  /\ \A t \in Tasks : Outbound(t)' = Outbound(t)
         /\ h \in CloudEvents
         /\ Published(h.task)' = Published(h.task) \cup {h.phase}
         /\ \A t \in Tasks \ {h.task} : Published(t)' = Published(t)
<1> DEFINE s == published[h.task]
<1>1. /\ Len(out) \in Nat \ {0} /\ DOMAIN out = 1..Len(out) /\ DOMAIN out' = 1..Len(out) - 1
      /\ \A i \in 1..Len(out) - 1 : out'[i] = out[i + 1]
      /\ h = out[1] /\ h \in CloudEvents
  BY TailElements DEF TypeOK
<1>2. h.task \in Tasks /\ published \in [Tasks -> Seq(CloudEvents)]
  BY <1>1 DEF CloudEvents, TypeOK
<1>3. /\ published'[h.task] = Append(s, h) /\ s \in Seq(CloudEvents)
      /\ \A t \in Tasks \ {h.task} : published'[t] = published[t]
  BY <1>2
<1>4. /\ DOMAIN s = 1..Len(s) /\ Len(s) \in Nat /\ DOMAIN Append(s, h) = 1..Len(s) + 1
      /\ \A i \in 1..Len(s) : Append(s, h)[i] = s[i]
      /\ Append(s, h)[Len(s) + 1] = h
      /\ {Append(s, h)[i] : i \in DOMAIN Append(s, h)} = {s[i] : i \in DOMAIN s} \cup {h}
  <2> HIDE DEF s
  <2>1. h \in CloudEvents /\ s \in Seq(CloudEvents)
    BY <1>1, <1>3
  <2> QED BY <2>1, AppendElements
<1>5. \A t \in Tasks : {published'[t][i] : i \in DOMAIN published'[t]} =
                         {published[t][i] : i \in DOMAIN published[t]}
                           \cup (IF t = h.task THEN {h} ELSE {})
  <2> SUFFICES ASSUME NEW t \in Tasks
               PROVE  {published'[t][i] : i \in DOMAIN published'[t]} =
                        {published[t][i] : i \in DOMAIN published[t]}
                          \cup (IF t = h.task THEN {h} ELSE {})
    OBVIOUS
  <2>1. CASE t = h.task
    <3> HIDE DEF s
    <3>1. published'[t] = Append(s, h) /\ published[t] = s
      BY <1>3, <2>1 DEF s
    <3> QED BY <1>4, <2>1, <3>1
  <2>2. CASE t # h.task
    BY <1>3, <2>2
  <2> QED BY <2>1, <2>2
<1>6. ASSUME NEW t \in Tasks
      PROVE  {out[i] : i \in {k \in DOMAIN out : out[k].task = t}} =
               {out'[i] : i \in {k \in DOMAIN out' : out'[k].task = t}}
                 \cup (IF t = h.task THEN {h} ELSE {})
  <2>1. ASSUME NEW i \in {k \in DOMAIN out : out[k].task = t}
        PROVE  \/ t = h.task /\ out[i] = h
               \/ \E j \in {k \in DOMAIN out' : out'[k].task = t} : out[i] = out'[j]
    <3>1. i \in 1..Len(out) /\ out[i].task = t
      BY <1>1
    <3>2. CASE i = 1
      BY <1>1, <3>1, <3>2
    <3>3. CASE i # 1
      <4>1. i - 1 \in DOMAIN out' /\ i - 1 \in 1..Len(out) - 1 /\ i - 1 + 1 = i
        BY <1>1, <3>1, <3>3
      <4>2. out'[i - 1] = out[i]
        BY <1>1, <4>1
      <4> QED BY <3>1, <4>1, <4>2
    <3> QED BY <3>2, <3>3
  <2>2. ASSUME NEW j \in {k \in DOMAIN out' : out'[k].task = t}
        PROVE  \E i \in {k \in DOMAIN out : out[k].task = t} : out[i] = out'[j]
    <3>1. j + 1 \in DOMAIN out /\ out[j + 1] = out'[j] /\ out'[j].task = t
      BY <1>1
    <3> QED BY <3>1
  <2>3. t = h.task => \E i \in {k \in DOMAIN out : out[k].task = t} : out[i] = h
    <3>1. 1 \in DOMAIN out /\ out[1] = h
      BY <1>1
    <3> QED BY <3>1
  <2> DEFINE O  == {out[i] : i \in {k \in DOMAIN out : out[k].task = t}}
             O2 == {out'[i] : i \in {k \in DOMAIN out' : out'[k].task = t}}
             H  == IF t = h.task THEN {h} ELSE {}
  <2>4. \A x \in O : x \in O2 \cup H
    BY <2>1
  <2>5. \A x \in O2 : x \in O
    BY <2>2
  <2>6. \A x \in H : x \in O
    BY <2>3
  <2> HIDE DEF O, O2, H
  <2>7. O = O2 \cup H
    BY <2>4, <2>5, <2>6
  <2> QED BY <2>7 DEF O, O2, H
<1>7. \A t \in Tasks : Outbound(t)' = Outbound(t)
  BY <1>5, <1>6 DEF Outbound
<1>8. \A t : /\ Published(t) = {c.phase : c \in {published[t][i] : i \in DOMAIN published[t]}}
             /\ Published(t)' = {c.phase : c \in {published'[t][i] : i \in DOMAIN published'[t]}}
  BY DEF Published
<1>9. Published(h.task)' = Published(h.task) \cup {h.phase}
  <2> DEFINE P  == {published[h.task][i] : i \in DOMAIN published[h.task]}
             P2 == {published'[h.task][i] : i \in DOMAIN published'[h.task]}
  <2>1. P2 = P \cup {h}
    BY <1>2, <1>5
  <2>2. Published(h.task) = {c.phase : c \in P} /\ Published(h.task)' = {c.phase : c \in P2}
    <3>1. Published(h.task)' = {c.phase : c \in P2}
      BY DEF Published
    <3> QED BY <1>8, <3>1
  <2> HIDE DEF P, P2
  <2> QED BY <2>1, <2>2
<1>10. ASSUME NEW t \in Tasks \ {h.task} PROVE Published(t)' = Published(t)
  BY <1>3 DEF Published
<1> QED BY <1>1, <1>7, <1>9, <1>10
-----------------------------------------------------------------------------
(* What the Enricher keeps and tells *)

EnrichInv == StartsAreKept /\ TargetsAreKept /\ EnrichedAreTimed

(* The invariants of the Enricher depend on what was sent and received, on   *)
(* the CloudEvents it built, and on what it keeps.                           *)
LEMMA EnrichKeeps ==
  ASSUME PipelineInv, UNCHANGED <<starts, targets>>,
         \A t \in Tasks : Sent(t)' = Sent(t) /\ Received(t)' = Received(t)
                            /\ Enriched(t)' = Enriched(t)
  PROVE  EnrichInv'
<1>1. StartsAreKept'
  BY DEF PipelineInv, StartsAreKept
<1>2. TargetsAreKept'
  BY DEF PipelineInv, TargetsAreKept
<1>3. EnrichedAreTimed'
  BY DEF PipelineInv, EnrichedAreTimed
<1> QED BY <1>1, <1>2, <1>3 DEF EnrichInv

(* The outbound CloudEvents are all that the steps of others could change.   *)
LEMMA OthersKeep ==
  ASSUME PipelineInv, UNCHANGED <<starts, targets, ev, ce>>,
         rpc' = rpc \/ (rpc = "select" /\ rpc' = "returned"),
         \A t \in Tasks : Outbound(t)' = Outbound(t)
  PROVE  EnrichInv'
<1>1. Busy' = Busy /\ (rpc' = "sending") = (rpc = "sending")
  BY DEF Busy
<1>2. \A t \in Tasks : Sent(t)' = Sent(t)
  BY DEF Sent
<1>3. \A t \in Tasks : Received(t)' = Received(t)
  BY <1>1, <1>2 DEF Received
<1>4. \A t \in Tasks : Enriched(t)' = Enriched(t)
  BY <1>1 DEF Enriched
<1> QED BY <1>2, <1>3, <1>4, EnrichKeeps

(* Nothing of a task was enriched before it is received.                     *)
LEMMA FirstIsStarted ==
  ASSUME NEW p, NEW before, InTurn(p, before), p \in Phases
  PROVE  /\ p = "started" => before = {}
         /\ p # "started" => "started" \in before
         /\ p \in TerminalPhases => before \cap TerminalPhases = {}
BY DEF InTurn

(* Once the Enricher knows what was found, what it keeps of the task and     *)
(* the CloudEvent it builds fit what it has received.  It has the event in   *)
(* hand already if it waited.                                                *)
LEMMA LifecycleKeeps ==
  ASSUME PipelineInv, NEW e \in Events, NEW found \in Targets, Lifecycle(e, found),
         InTurn(e.phase, Sent(e.task)),
         \A t \in Tasks : /\ Sent(t)' = Sent(t)
                          /\ Received(t)' = Received(t)
                               \cup (IF t = e.task THEN {e.phase} ELSE {})
                          /\ Enriched(t)' = Enriched(t)
                               \cup (IF t = e.task THEN {ce'} ELSE {}),
         Enriched(e.task) = Outbound(e.task),
         \/ Received(e.task) = Sent(e.task)
         \/ e.phase = "started" /\ Received(e.task) = {"started"},
         starts' = IF e.phase = "started" THEN starts \cup {e.task} ELSE starts
  PROVE  EnrichInv'
<1> DEFINE t == e.task
           p == e.phase
<1>1. t \in Tasks /\ p \in Phases
  BY DEF Events
<1>2. /\ ce'.phase = p
      /\ ce'.target = (IF found # "none" THEN found ELSE targets[t])
      /\ ce'.timed = (p \in TerminalPhases /\ t \in starts')
  BY DEF Lifecycle
<1>3. /\ targets \in [Tasks -> Targets]
      /\ \A u \in Tasks : u # t => targets'[u] = targets[u]
  BY DEF PipelineInv, TypeOK, Lifecycle
<1>4. /\ p = "started" /\ ce'.target # "none" => targets'[t] # "none"
      /\ p = "synced" => targets'[t] = targets[t]
      /\ p \in TerminalPhases => targets'[t] = "none"
  <2> DEFINE target == IF found # "none" THEN found ELSE targets[t]
             kept   == CASE p = "started" /\ target # "none" -> target
                         [] p \in TerminalPhases -> "none"
                         [] OTHER -> targets[t]
  <2>1. targets'[t] = kept /\ ce'.target = target
    BY <1>1, <1>3 DEF Lifecycle
  <2> HIDE DEF target, t, p
  <2>2. CASE p = "started"
    <3>1. p \notin TerminalPhases
      BY <2>2 DEF TerminalPhases
    <3>2. target # "none" => kept = target
      BY <2>2, <3>1
    <3> QED BY <2>1, <2>2, <3>1, <3>2
  <2>3. CASE p = "synced"
    <3>1. p \notin TerminalPhases /\ p # "started"
      BY <2>3 DEF TerminalPhases
    <3>2. kept = targets[t]
      BY <3>1
    <3> QED BY <2>1, <3>1, <3>2
  <2>4. CASE p \in TerminalPhases
    <3>1. p # "started" /\ p # "synced"
      BY <2>4 DEF TerminalPhases
    <3>2. kept = "none"
      BY <2>4, <3>1
    <3> QED BY <2>1, <2>4, <3>1, <3>2
  <2> QED BY <1>1, <2>2, <2>3, <2>4 DEF Phases
<1>5. /\ p = "started" => Sent(t) = {}
      /\ p # "started" => "started" \in Sent(t)
      /\ p \in TerminalPhases => Sent(t) \cap TerminalPhases = {}
  BY <1>1, FirstIsStarted
<1>6. "started" \notin TerminalPhases /\ "synced" \notin TerminalPhases
  BY DEF TerminalPhases
<1>7. \A c \in Enriched(t) : c.phase \in Sent(t)
  BY <1>1, EnrichedWereReceived
<1>8. p # "started" => Received(t) = Sent(t)
  OBVIOUS
<1>9. /\ Sent(t)' = Sent(t) /\ Received(t)' = Received(t) \cup {p}
      /\ Enriched(t)' = Enriched(t) \cup {ce'}
  <2>1. \A u \in Tasks : /\ Sent(u)' = Sent(u)
                         /\ Received(u)' = Received(u) \cup (IF u = t THEN {p} ELSE {})
                         /\ Enriched(u)' = Enriched(u) \cup (IF u = t THEN {ce'} ELSE {})
    OBVIOUS
  <2> HIDE DEF p
  <2> QED BY <1>1, <2>1
<1>10. \A u \in Tasks : u # t => /\ Sent(u)' = Sent(u) /\ Received(u)' = Received(u)
                                 /\ Enriched(u)' = Enriched(u)
  OBVIOUS
<1> HIDE DEF t, p
<1>11. StartsAreKept'
  <2> SUFFICES ASSUME NEW u \in Tasks
               PROVE  u \in starts' <=> /\ "started" \in Received(u)'
                                        /\ Sent(u)' \cap TerminalPhases = {}
    BY DEF StartsAreKept
  <2>1. u \in starts <=> ("started" \in Received(u) /\ Sent(u) \cap TerminalPhases = {})
    BY DEF PipelineInv, StartsAreKept
  <2>2. starts' = IF p = "started" THEN starts \cup {t} ELSE starts
    BY DEF t, p
  <2>3. CASE u # t
    BY <1>10, <2>1, <2>2, <2>3
  <2>4. CASE u = t /\ p = "started"
    BY <1>5, <1>9, <2>2, <2>4
  <2>5. CASE u = t /\ p # "started"
    BY <1>9, <2>1, <2>2, <2>5
  <2> QED BY <2>3, <2>4, <2>5
<1>12. EnrichedAreTimed'
  <2> SUFFICES ASSUME NEW u \in Tasks, NEW c \in Enriched(u)', c.phase \in TerminalPhases
               PROVE  c.timed
    BY DEF EnrichedAreTimed
  <2>1. ASSUME c \in Enriched(u) PROVE c.timed
    BY <2>1 DEF PipelineInv, EnrichedAreTimed
  <2>2. ASSUME u = t, c = ce' PROVE c.timed
    <3>1. p \in TerminalPhases /\ p # "started"
      BY <1>2, <1>6, <2>2
    <3>2. t \in starts
      BY <1>1, <1>5, <1>8, <3>1 DEF PipelineInv, StartsAreKept
    <3>3. starts' = starts
      BY <3>1 DEF p
    <3> QED BY <1>2, <2>2, <3>1, <3>2, <3>3
  <2> QED BY <1>9, <1>10, <2>1, <2>2
<1>13. TargetsAreKept'
  <2> SUFFICES ASSUME NEW u \in Tasks
               PROVE  /\ targets'[u] # "none" => Received(u)' \cap TerminalPhases = {}
                      /\ \A c \in Enriched(u)' : c.phase = "started" /\ c.target # "none" =>
                           IF Received(u)' \cap TerminalPhases = {}
                             THEN targets'[u] # "none"
                             ELSE \A d \in Enriched(u)' : d.phase \in TerminalPhases => d.target # "none"
    BY DEF TargetsAreKept
  <2>1. targets[u] # "none" => Received(u) \cap TerminalPhases = {}
    BY DEF PipelineInv, TargetsAreKept
  <2>2. \A c \in Enriched(u) : c.phase = "started" /\ c.target # "none" =>
          IF Received(u) \cap TerminalPhases = {}
            THEN targets[u] # "none"
            ELSE \A d \in Enriched(u) : d.phase \in TerminalPhases => d.target # "none"
    BY DEF PipelineInv, TargetsAreKept
  <2>3. CASE u # t
    BY <1>3, <1>10, <2>1, <2>2, <2>3
  <2>4. CASE u = t /\ p = "started"
    <3>1. Sent(t) = {} /\ Enriched(t)' = {ce'} /\ Received(t)' = {"started"}
      <4>1. Sent(t) = {} /\ Enriched(t) = {}
        BY <1>5, <1>7, <2>4
      <4>2. Received(t) = {} \/ Received(t) = {"started"}
        BY <4>1 DEF t
      <4> QED BY <1>9, <2>4, <4>1, <4>2
    <3> QED BY <1>4, <1>6, <2>4, <3>1
  <2>5. CASE u = t /\ p = "synced"
    <3>1. Received(t)' \cap TerminalPhases = Received(t) \cap TerminalPhases
      BY <1>6, <1>9, <2>5
    <3>2. ce'.phase # "started" /\ ce'.phase \notin TerminalPhases
      BY <1>2, <1>6, <2>5
    <3> QED BY <1>4, <1>9, <2>1, <2>2, <2>5, <3>1, <3>2
  <2>6. CASE u = t /\ p \in TerminalPhases
    <3>1. Received(t) \cap TerminalPhases = {} /\ Received(t)' \cap TerminalPhases # {}
      BY <1>5, <1>6, <1>8, <1>9, <2>6
    <3>2. ce'.phase # "started" /\ targets'[t] = "none"
      BY <1>2, <1>4, <1>6, <2>6
    <3>3. \A c \in Enriched(t) : c.phase \notin TerminalPhases
      BY <1>5, <1>7, <2>6
    <3>4. ASSUME NEW c \in Enriched(t)', c.phase = "started", c.target # "none",
                 NEW d \in Enriched(t)', d.phase \in TerminalPhases
          PROVE  d.target # "none"
      <4>1. c \in Enriched(t) /\ d = ce'
        BY <1>9, <3>2, <3>3, <3>4
      <4>2. targets[t] # "none"
        BY <2>2, <2>6, <3>1, <3>4, <4>1
      <4> QED BY <1>2, <4>1, <4>2
    <3> QED BY <2>6, <3>1, <3>2, <3>4
  <2> QED BY <1>1, <2>3, <2>4, <2>5, <2>6 DEF Phases
<1> QED BY <1>11, <1>12, <1>13 DEF EnrichInv

(* Sending a CloudEvent on makes it outbound, which it is enriched already.  *)
LEMMA ForwardKeeps ==
  ASSUME PipelineInv, rpc = "sending", out' = Append(out, ce), rpc' = "select",
         starts' = IF ev.phase \in TerminalPhases THEN starts \ {ev.task} ELSE starts,
         UNCHANGED <<ev, targets, published>>
  PROVE  EnrichInv'
<1>1. ce \in CloudEvents /\ ce.task = ev.task /\ ce.phase = ev.phase /\ ev \in Events
  BY DEF PipelineInv, HandIsFull, Busy
<1>2. /\ DOMAIN out = 1..Len(out) /\ Len(out) \in Nat /\ DOMAIN out' = 1..Len(out) + 1
      /\ \A i \in 1..Len(out) : out'[i] = out[i]
      /\ out'[Len(out) + 1] = ce
  <2>1. out \in Seq(CloudEvents)
    BY DEF PipelineInv, TypeOK
  <2> QED BY <1>1, <2>1, AppendElements
<1>3. ASSUME NEW t \in Tasks
      PROVE  Outbound(t)' = Outbound(t) \cup (IF ev.task = t THEN {ce} ELSE {})
  <2>1. {k \in DOMAIN out' : out'[k].task = t} =
          {k \in DOMAIN out : out[k].task = t} \cup (IF ev.task = t THEN {Len(out) + 1} ELSE {})
    BY <1>1, <1>2
  <2>2. {out'[i] : i \in {k \in DOMAIN out' : out'[k].task = t}} =
          {out[i] : i \in {k \in DOMAIN out : out[k].task = t}}
            \cup (IF ev.task = t THEN {ce} ELSE {})
    BY <1>2, <2>1
  <2> QED BY <2>2 DEF Outbound
<1>4. ASSUME NEW t \in Tasks
      PROVE  /\ Enriched(t)' = Enriched(t)
             /\ Sent(t)' = Sent(t) \cup (IF ev.task = t THEN {ev.phase} ELSE {})
             /\ Received(t)' = Received(t)
  <2>1. Enriched(t) = Outbound(t)' /\ Enriched(t)' = Outbound(t)'
    BY <1>3 DEF Enriched
  <2> DEFINE o == Outbound(t)
  <2>2. Sent(t) = {c.phase : c \in o} /\ Sent(t)' = {c.phase : c \in o'}
    BY DEF Sent
  <2>3. o' = o \cup (IF ev.task = t THEN {ce} ELSE {})
    BY <1>3
  <2> HIDE DEF o
  <2>4. Sent(t)' = Sent(t) \cup (IF ev.task = t THEN {ev.phase} ELSE {})
    BY <1>1, <2>2, <2>3
  <2>5. Busy /\ ~Busy'
    BY DEF Busy
  <2> QED BY <2>1, <2>4, <2>5 DEF Received
<1>5. TargetsAreKept' /\ EnrichedAreTimed'
  BY <1>4 DEF PipelineInv, TargetsAreKept, EnrichedAreTimed
<1>6. StartsAreKept'
  <2> SUFFICES ASSUME NEW t \in Tasks
               PROVE  t \in starts' <=> /\ "started" \in Received(t)'
                                        /\ Sent(t)' \cap TerminalPhases = {}
    BY DEF StartsAreKept
  <2>1. t \in starts <=> ("started" \in Received(t) /\ Sent(t) \cap TerminalPhases = {})
    BY DEF PipelineInv, StartsAreKept
  <2>2. CASE ev.task # t
    BY <1>4, <2>1, <2>2
  <2>3. CASE ev.task = t /\ ev.phase \in TerminalPhases
    BY <1>4, <2>3
  <2>4. CASE ev.task = t /\ ev.phase \notin TerminalPhases
    <3>1. Sent(t)' \cap TerminalPhases = Sent(t) \cap TerminalPhases
      BY <1>4, <2>4
    <3> QED BY <1>4, <2>1, <2>4, <3>1
  <2> QED BY <2>2, <2>3, <2>4
<1> QED BY <1>5, <1>6 DEF EnrichInv

(* Receiving an event, with and without the wait for a log.                  *)
LEMMA ReceiveKeeps ==
  ASSUME PipelineInv, Receive
  PROVE  EnrichInv'
<1>1. PICK e : e = Head(in)
  OBVIOUS
<1>2. e \in Events /\ InTurn(e.phase, Sent(e.task)) /\ rpc = "select" /\ ev' = e
  BY <1>1, HandInTurn DEF Receive
<1>3. e.task \in Tasks /\ e.phase \in Phases
  BY <1>2 DEF Events
<1>4. ~Busy /\ UNCHANGED <<out, published>>
  BY <1>2 DEF Busy, Receive
<1>5. starts' = IF e.phase = "started" THEN starts \cup {e.task} ELSE starts
  BY <1>1 DEF Receive
<1>6. PICK found : /\ found \in Targets
                   /\ \/ /\ rpc' = "waiting" /\ e.phase = "started" /\ UNCHANGED <<ce, targets>>
                      \/ Lifecycle(e, found)
  <2>1. argv \in [Tasks -> Targets]
    BY DEF PipelineInv, TypeOK
  <2>2. Resolve(e.task) \in Targets /\ "none" \in Targets
    BY <1>3, <2>1 DEF Resolve, Targets
  <2> DEFINE found == IF e.task \in Migrates THEN Resolve(e.task) ELSE "none"
  <2>3. IF e.task \in Migrates /\ e.phase = "started" /\ found = "none"
          THEN rpc' = "waiting" /\ UNCHANGED <<ce, targets>>
          ELSE Lifecycle(e, found)
    BY <1>1 DEF Receive
  <2>4. found \in Targets
    BY <2>2
  <2> QED BY <2>3, <2>4
<1>7. \A t \in Tasks : /\ Sent(t)' = Sent(t) /\ Outbound(t)' = Outbound(t)
                       /\ Received(t) = Sent(t) /\ Enriched(t) = Outbound(t)
  BY <1>2, <1>4 DEF Sent, Outbound, Received, Enriched
<1>8. rpc' \in {"waiting", "sending"} /\ Busy'
  BY <1>6 DEF Busy, Lifecycle
<1>9. \A t \in Tasks : Received(t)' = Received(t) \cup (IF t = e.task THEN {e.phase} ELSE {})
  BY <1>2, <1>7, <1>8 DEF Received
<1>10. CASE Lifecycle(e, found)
  <2>1. rpc' = "sending"
    BY <1>10 DEF Lifecycle
  <2>2. \A t \in Tasks : Enriched(t)' = Enriched(t) \cup (IF t = e.task THEN {ce'} ELSE {})
    BY <1>2, <1>7, <2>1 DEF Enriched
  <2> QED BY <1>2, <1>3, <1>5, <1>6, <1>7, <1>9, <1>10, <2>2, LifecycleKeeps
<1>11. CASE rpc' = "waiting" /\ e.phase = "started" /\ UNCHANGED <<ce, targets>>
  <2>1. \A t \in Tasks : Enriched(t)' = Enriched(t)
    BY <1>7, <1>11 DEF Enriched
  <2>2. Sent(e.task) = {} /\ Enriched(e.task) = {}
    <3>1. Sent(e.task) = {}
      BY <1>2, <1>3, <1>11, FirstIsStarted
    <3> QED BY <1>3, <1>7, <3>1, EnrichedWereReceived
  <2>3. "started" \notin TerminalPhases
    BY DEF TerminalPhases
  <2>4. StartsAreKept'
    <3> SUFFICES ASSUME NEW t \in Tasks
                 PROVE  t \in starts' <=> /\ "started" \in Received(t)'
                                          /\ Sent(t)' \cap TerminalPhases = {}
      BY DEF StartsAreKept
    <3>1. t \in starts <=> ("started" \in Received(t) /\ Sent(t) \cap TerminalPhases = {})
      BY DEF PipelineInv, StartsAreKept
    <3>2. CASE t = e.task
      BY <1>5, <1>7, <1>9, <1>11, <2>2, <3>2
    <3>3. CASE t # e.task
      BY <1>5, <1>7, <1>9, <3>1, <3>3
    <3> QED BY <3>2, <3>3
  <2>5. TargetsAreKept'
    <3>1. \A t \in Tasks : Received(t)' \cap TerminalPhases = Received(t) \cap TerminalPhases
      BY <1>9, <1>11, <2>3
    <3>2. targets' = targets
      BY <1>11
    <3> QED BY <2>1, <3>1, <3>2 DEF PipelineInv, TargetsAreKept
  <2>6. EnrichedAreTimed'
    BY <2>1 DEF PipelineInv, EnrichedAreTimed
  <2> QED BY <2>4, <2>5, <2>6 DEF EnrichInv
<1> QED BY <1>6, <1>10, <1>11

(* The wait ends, with the log's target or without one.                      *)
LEMMA WaitKeeps ==
  ASSUME PipelineInv, LogFound \/ WaitExpires
  PROVE  EnrichInv'
<1>1. PICK e : e = ev
  OBVIOUS
<1>2. PICK found : found \in Targets /\ Lifecycle(e, found)
  BY <1>1 DEF LogFound, WaitExpires, Targets
<1>3. rpc = "waiting" /\ rpc' = "sending" /\ UNCHANGED <<ev, starts, out, published>>
  BY <1>2 DEF LogFound, WaitExpires, Lifecycle
<1>4. Busy /\ Busy' /\ e \in Events /\ e.phase = "started"
  BY <1>1, <1>3 DEF Busy, PipelineInv, HandIsFull
<1>5. InTurn(e.phase, Sent(e.task))
  BY <1>1, <1>4, HandInTurn
<1>6. e.task \in Tasks /\ e.phase \in Phases
  BY <1>4 DEF Events
<1>7. \A t \in Tasks : Sent(t)' = Sent(t) /\ Outbound(t)' = Outbound(t)
  BY <1>3 DEF Sent, Outbound
<1>8. \A t \in Tasks : /\ Received(t) = Sent(t) \cup (IF t = e.task THEN {e.phase} ELSE {})
                       /\ Received(t)' = Received(t)
  BY <1>1, <1>3, <1>4, <1>7 DEF Received
<1>9. Sent(e.task) = {}
  BY <1>4, <1>5, <1>6, FirstIsStarted
<1>10. \A t \in Tasks : /\ Enriched(t) = Outbound(t)
                        /\ Enriched(t)' = Enriched(t) \cup (IF t = e.task THEN {ce'} ELSE {})
  BY <1>1, <1>3, <1>7 DEF Enriched
<1>11. e.phase = "started" /\ Received(e.task) = {"started"}
  BY <1>4, <1>6, <1>8, <1>9
<1>12. \A t \in Tasks : Received(t)' = Received(t) \cup (IF t = e.task THEN {e.phase} ELSE {})
  BY <1>8
<1>13. starts' = IF e.phase = "started" THEN starts \cup {e.task} ELSE starts
  <2>1. e.task \in starts
    BY <1>6, <1>9, <1>11 DEF PipelineInv, StartsAreKept
  <2> QED BY <1>3, <2>1
<1> QED BY <1>2, <1>4, <1>5, <1>6, <1>7, <1>10, <1>11, <1>12, <1>13, LifecycleKeeps
-----------------------------------------------------------------------------
(* The invariant *)

(* The watcher's specification has a vocabulary of its own, the same.        *)
LEMMA WatcherVocabulary ==
  /\ Watcher!TerminalPhases = TerminalPhases /\ Watcher!LineStates = LineStates
  /\ \A p : Watcher!Shows(p) = Shows(p)
  /\ \A s : Watcher!After(s) = After(s)
<1>1. Watcher!TerminalPhases = TerminalPhases
  BY DEF Watcher!TerminalPhases, TerminalPhases
<1>2. Watcher!LineStates = LineStates
  BY DEF Watcher!LineStates, LineStates, Watcher!Listed, Listed, Watcher!Ended, Ended,
         Watcher!Gone, Gone
<1>3. \A p : Watcher!Shows(p) = Shows(p)
  BY <1>2, Zenon DEF Watcher!Shows, Shows
<1>4. \A s : Watcher!After(s) = After(s)
  BY Zenon DEF Watcher!After, After
<1> QED BY <1>1, <1>2, <1>3, <1>4

(* What an announcement of the watcher is.                                   *)
LEMMA Announcement ==
  ASSUME TypeOK, NEW t \in Tasks, Announce(t)
  PROVE  \E p \in Phases : /\ trace' = [trace EXCEPT ![t] = Append(@, p)]
                           /\ in' = Append(in, Event(t, p))
                           /\ file[t] \in Shows(p) /\ InTurn(p, Announced(t))
                           /\ p = "synced" => t \in Migrations
<1>1. ASSUME NEW p \in Phases, Watcher!Announce(t, p)
      PROVE  /\ trace' = [trace EXCEPT ![t] = Append(@, p)]
             /\ in' = Append(in, Event(t, p)) /\ file[t] \in Shows(p)
  <2>1. trace' = [trace EXCEPT ![t] = Append(@, p)] /\ file[t] \in Shows(p)
    BY <1>1, WatcherVocabulary DEF Watcher!Announce
  <2>2. trace[t] \in Seq(Phases) /\ trace'[t] = Append(trace[t], p)
    BY <2>1 DEF TypeOK
  <2>3. trace'[t][Len(trace'[t])] = p
    BY <2>2
  <2> QED BY <2>1, <2>3 DEF Announce
<1>2. Watcher!Announced(t) = Announced(t)
  BY DEF Watcher!Announced, Announced
<1>3. "started" \notin TerminalPhases /\ "synced" \notin TerminalPhases
  BY DEF TerminalPhases
<1>4. CASE Watcher!Start(t)
  <2>1. "started" \in Phases /\ Watcher!Announce(t, "started") /\ Announced(t) = {}
    BY <1>2, <1>4 DEF Watcher!Start, Phases
  <2>2. InTurn("started", Announced(t))
    BY <1>3, <2>1 DEF InTurn
  <2> QED BY <1>1, <2>1, <2>2
<1>5. CASE Watcher!Sync(t)
  <2>1. /\ "synced" \in Phases /\ Watcher!Announce(t, "synced") /\ t \in Migrations
        /\ "started" \in Announced(t) /\ "synced" \notin Announced(t)
    BY <1>2, <1>5 DEF Watcher!Sync, Phases
  <2>2. InTurn("synced", Announced(t))
    BY <1>3, <2>1 DEF InTurn
  <2> QED BY <1>1, <2>1, <2>2
<1>6. CASE Watcher!End(t)
  <2>1. PICK p \in TerminalPhases : Watcher!Announce(t, p)
    BY <1>6, WatcherVocabulary DEF Watcher!End
  <2>2. p \in Phases /\ p # "started" /\ p # "synced"
    BY <1>3 DEF Phases
  <2>3. InTurn(p, Announced(t))
    BY <1>2, <1>6, <2>2, WatcherVocabulary DEF Watcher!End, InTurn
  <2> QED BY <1>1, <2>1, <2>2, <2>3
<1> QED BY <1>4, <1>5, <1>6 DEF Announce

(* The file moves on, and what a phase showed it goes on to show.            *)
LEMMA ProgressShows ==
  ASSUME TypeOK, NEW t \in Tasks, Progress(t)
  PROVE  /\ file' \in [Tasks -> LineStates]
         /\ \A u \in Tasks : \A p \in Phases : file[u] \in Shows(p) => file'[u] \in Shows(p)
         /\ UNCHANGED <<trace, in, outside, handler, out, daemon, published>>
<1>1. /\ file \in [Tasks -> LineStates] /\ file[t] \in LineStates
      /\ UNCHANGED <<trace, in, outside, handler, out, daemon, published>>
  BY DEF TypeOK, Progress, Watcher!Progress
<1>2. PICK s \in After(file[t]) : file' = [file EXCEPT ![t] = s]
  BY WatcherVocabulary DEF Progress, Watcher!Progress
<1>3. \A r \in LineStates : \A x \in After(r) :
        x \in LineStates /\ \A p \in Phases : r \in Shows(p) => x \in Shows(p)
  BY DEF After, LineStates, Listed, Ended, Gone, Shows, Phases, TerminalPhases
<1>4. s \in LineStates /\ \A p \in Phases : file[t] \in Shows(p) => s \in Shows(p)
  BY <1>1, <1>2, <1>3
<1> QED BY <1>1, <1>2, <1>4

(* What Lifecycle builds is of its type.                                     *)
LEMMA LifecycleType ==
  ASSUME TypeOK, NEW e \in Events, NEW found \in Targets, Lifecycle(e, found)
  PROVE  /\ targets' \in [Tasks -> Targets] /\ rpc' = "sending"
         /\ ce' \in CloudEvents /\ ce'.task = e.task /\ ce'.phase = e.phase
<1> DEFINE target == IF found # "none" THEN found ELSE targets[e.task]
           kept   == CASE e.phase = "started" /\ target # "none" -> target
                       [] e.phase \in TerminalPhases -> "none"
                       [] OTHER -> targets[e.task]
<1>1. e.task \in Tasks /\ e.phase \in Phases /\ targets \in [Tasks -> Targets]
  BY DEF Events, TypeOK
<1>2. target \in Targets /\ "none" \in Targets /\ targets[e.task] \in Targets
  BY <1>1 DEF Targets
<1>3. kept \in Targets
  <2> HIDE DEF target
  <2> QED BY <1>2
<1>4. targets' = [targets EXCEPT ![e.task] = kept]
  BY DEF Lifecycle
<1>5. /\ ce' = [task |-> e.task, phase |-> e.phase, target |-> target,
                timed |-> e.phase \in TerminalPhases /\ e.task \in starts']
      /\ rpc' = "sending"
  BY DEF Lifecycle
<1> HIDE DEF target, kept
<1>6. targets' \in [Tasks -> Targets]
  BY <1>1, <1>3, <1>4
<1>7. ce' \in CloudEvents /\ ce'.task = e.task /\ ce'.phase = e.phase
  <2> DEFINE timed == e.phase \in TerminalPhases /\ e.task \in starts'
  <2>1. timed \in BOOLEAN
    OBVIOUS
  <2> HIDE DEF timed
  <2>2. ce' = [task |-> e.task, phase |-> e.phase, target |-> target, timed |-> timed]
    BY <1>5 DEF timed
  <2> QED BY <1>1, <1>2, <2>1, <2>2 DEF CloudEvents
<1> QED BY <1>5, <1>6, <1>7

(* Every state it starts in has nothing queued, sent or kept.                *)
LEMMA PipelineInit == Init => PipelineInv
<1> SUFFICES ASSUME Init PROVE PipelineInv
  OBVIOUS
<1>1. /\ in = <<>> /\ out = <<>> /\ rpc = "select" /\ ev = NoEvent /\ ce = NoEvent
      /\ starts = {} /\ targets = [t \in Tasks |-> "none"] /\ daemon = "up"
      /\ published = [t \in Tasks |-> <<>>] /\ trace = [t \in Tasks |-> <<>>]
      /\ file \in [Tasks -> LineStates] /\ argv \in [Tasks -> Targets] /\ logged \subseteq Migrates
  BY WatcherVocabulary DEF Init, Watcher!Init, Targets
<1>2. TypeOK
  <2>1. /\ <<>> \in Seq(Events) /\ Len(<<>>) = 0 /\ <<>> \in Seq(CloudEvents)
        /\ <<>> \in Seq(Phases)
    OBVIOUS
  <2>2. trace \in [Tasks -> Seq(Phases)]
    BY <1>1, <2>1
  <2>3. published \in [Tasks -> Seq(CloudEvents)]
    BY <1>1, <2>1
  <2>4. targets \in [Tasks -> Targets]
    BY <1>1 DEF Targets
  <2> QED BY <1>1, <2>1, <2>2, <2>3, <2>4, PipelineAssumption DEF TypeOK
<1>3. ~Busy /\ Strip(out) = <<>> /\ Queue = <<>>
  <2>1. ~Busy
    BY <1>1 DEF Busy
  <2>2. Strip(out) = <<>>
    BY <1>1 DEF Strip
  <2> QED BY <1>1, <2>1, <2>2 DEF Queue, Now
<1>4. \A t \in Tasks : /\ Announced(t) = {} /\ Published(t) = {} /\ Outbound(t) = {}
                       /\ Queued(Queue, t, Len(Queue)) = {}
  <2>1. \A t \in Tasks : Announced(t) = {} /\ Published(t) = {} /\ Outbound(t) = {}
    BY <1>1 DEF Announced, Published, Outbound
  <2>2. \A t \in Tasks : Queued(Queue, t, Len(Queue)) = {}
    BY <1>3 DEF Queued
  <2> QED BY <2>1, <2>2
<1>5. \A t \in Tasks : Sent(t) = {} /\ Received(t) = {} /\ Enriched(t) = {}
  BY <1>1, <1>3, <1>4 DEF Sent, Received, Enriched
<1>6. HandIsFull /\ NothingIsLost
  BY <1>1, <1>3, <1>4 DEF HandIsFull, NothingIsLost, Busy
<1>7. QueueIsInTurn /\ QueueIsShown
  BY <1>3 DEF QueueIsInTurn, AllInTurn, QueueIsShown
<1>8. StartsAreKept /\ TargetsAreKept /\ EnrichedAreTimed
  BY <1>1, <1>5 DEF StartsAreKept, TargetsAreKept, EnrichedAreTimed
<1> QED BY <1>2, <1>6, <1>7, <1>8 DEF PipelineInv

(* The steps that touch neither the handler nor the channels, but for the    *)
(* watcher that returns.                                                     *)
LEMMA QuietStep ==
  ASSUME PipelineInv, UNCHANGED <<trace, in, ev, ce, starts, targets, out, published>>,
         rpc' = rpc \/ (rpc = "select" /\ rpc' = "returned"),
         \A t \in Tasks : \A p \in Phases : file[t] \in Shows(p) => file'[t] \in Shows(p)
  PROVE  HandIsFull' /\ QueueInv' /\ EnrichInv'
<1>1. Busy' = Busy /\ (rpc' = "sending" <=> rpc = "sending")
  BY DEF Busy
<1>2. HandIsFull'
  BY <1>1 DEF PipelineInv, HandIsFull, Busy
<1>3. Queue' = Queue
  BY <1>1 DEF Queue, Strip, Now
<1>4. \A t \in Tasks : Outbound(t)' = Outbound(t)
  BY DEF Outbound
<1> QED BY <1>2, <1>3, <1>4, QueueKeeps, OthersKeep

(* Every step keeps the invariant.                                           *)
LEMMA PipelineStep == PipelineInv /\ [Next]_vars => PipelineInv'
<1> SUFFICES ASSUME PipelineInv, [Next]_vars PROVE PipelineInv'
  OBVIOUS
<1> DEFINE Kept == HandIsFull' /\ QueueInv' /\ EnrichInv'
<1> SUFFICES TypeOK' /\ Kept
  BY DEF PipelineInv, QueueInv, EnrichInv
<1>0. TypeOK /\ HandIsFull
  BY DEF PipelineInv
<1>1. ASSUME NEW t \in Tasks, Progress(t) PROVE TypeOK' /\ Kept
  <2>1. UNCHANGED <<trace, in, outside, handler, out, daemon, published>>
    BY <1>0, <1>1, ProgressShows
  <2>2. TypeOK'
    BY <1>0, <1>1, <2>1, ProgressShows DEF TypeOK, outside, handler
  <2> QED BY <1>0, <1>1, <2>1, <2>2, ProgressShows, QuietStep DEF handler
<1>2. ASSUME NEW t \in Tasks, Announce(t) PROVE TypeOK' /\ Kept
  <2>1. PICK p \in Phases : /\ trace' = [trace EXCEPT ![t] = Append(@, p)]
                            /\ in' = Append(in, Event(t, p))
                            /\ file[t] \in Shows(p) /\ InTurn(p, Announced(t))
                            /\ p = "synced" => t \in Migrations
    BY <1>0, <1>2, Announcement
  <2>2. /\ UNCHANGED <<file, outside, handler, out, daemon, published>> /\ Len(in) < InCap
    <3>1. file' = file
      BY <1>2 DEF Announce, Watcher!Start, Watcher!Sync, Watcher!End, Watcher!Announce
    <3> QED BY <1>2, <3>1 DEF Announce
  <2>3. Event(t, p) \in Events
    BY DEF Event, Events
  <2>4. TypeOK'
    <3>1. trace' \in [Tasks -> Seq(Phases)]
      <4>1. trace \in [Tasks -> Seq(Phases)]
        BY <1>0 DEF TypeOK
      <4>2. Append(trace[t], p) \in Seq(Phases)
        BY <4>1
      <4> QED BY <2>1, <4>1, <4>2
    <3>2. in' \in Seq(Events) /\ Len(in') <= InCap
      <4>1. in \in Seq(Events) /\ InCap \in Nat
        BY <1>0, PipelineAssumption DEF TypeOK
      <4>2. Append(in, Event(t, p)) \in Seq(Events) /\ Len(Append(in, Event(t, p))) = Len(in) + 1
            /\ Len(in) \in Nat
        BY <2>3, <4>1, AppendElements
      <4> QED BY <2>1, <2>2, <4>1, <4>2
    <3> QED BY <1>0, <2>2, <3>1, <3>2 DEF TypeOK, outside, handler
  <2>5. Queue' = Append(Queue, Event(t, p))
    BY <1>0, <2>1, <2>2, <2>3, AnnounceQueues DEF handler
  <2>6. QueueInv'
    BY <2>1, <2>2, <2>5, AnnounceInTurn DEF AddsLast
  <2>7. HandIsFull'
    BY <1>0, <2>2 DEF HandIsFull, Busy, handler
  <2>8. EnrichInv'
    <3>1. \A u \in Tasks : Outbound(u)' = Outbound(u)
      BY <2>2 DEF Outbound
    <3> QED BY <2>2, <3>1, OthersKeep DEF handler
  <2> QED BY <2>4, <2>6, <2>7, <2>8
<1>3. ASSUME NEW t \in Migrates, ProcessExits(t) \/ PidReused(t) \/ LogNamesTarget(t)
      PROVE  TypeOK' /\ Kept
  <2>1. UNCHANGED <<watcher, handler, out, daemon, published>>
    BY <1>3 DEF ProcessExits, PidReused, LogNamesTarget
  <2>2. argv' \in [Tasks -> Targets] /\ logged' \subseteq Migrates
    <3>1. argv \in [Tasks -> Targets] /\ logged \subseteq Migrates
      BY <1>0 DEF TypeOK
    <3> QED BY <1>3, <3>1 DEF ProcessExits, PidReused, LogNamesTarget, Targets
  <2>3. TypeOK'
    BY <1>0, <2>1, <2>2 DEF TypeOK, watcher, handler
  <2> QED BY <2>1, <2>3, QuietStep DEF watcher, handler
<1>4. CASE Receive
  <2>1. PICK e : e = Head(in)
    OBVIOUS
  <2>2. e \in Events /\ rpc = "select" /\ in # <<>>
    BY <1>4, <2>1, HandInTurn DEF Receive
  <2>3. /\ ev' = e /\ in' = Tail(in) /\ UNCHANGED <<file, trace, outside, out, daemon, published>>
        /\ starts' = IF e.phase = "started" THEN starts \cup {e.task} ELSE starts
    BY <1>4, <2>1 DEF Receive
  <2>4. PICK found \in Targets : \/ /\ rpc' = "waiting" /\ e.phase = "started"
                                    /\ UNCHANGED <<ce, targets>>
                                 \/ Lifecycle(e, found)
    <3>1. argv \in [Tasks -> Targets] /\ e.task \in Tasks
      BY <1>0, <2>2 DEF TypeOK, Events
    <3> DEFINE f == IF e.task \in Migrates THEN Resolve(e.task) ELSE "none"
    <3>2. f \in Targets
      BY <3>1 DEF Resolve, Targets
    <3>3. IF e.task \in Migrates /\ e.phase = "started" /\ f = "none"
            THEN rpc' = "waiting" /\ UNCHANGED <<ce, targets>>
            ELSE Lifecycle(e, f)
      BY <1>4, <2>1 DEF Receive
    <3> QED BY <3>2, <3>3
  <2>5. /\ rpc' \in {"waiting", "sending"} /\ targets' \in [Tasks -> Targets]
        /\ ce' \in CloudEvents \cup {NoEvent}
        /\ rpc' = "waiting" => e.phase = "started"
        /\ rpc' = "sending" => ce' \in CloudEvents /\ ce'.task = e.task /\ ce'.phase = e.phase
    BY <1>0, <2>2, <2>4, LifecycleType DEF TypeOK
  <2>6. in' \in Seq(Events) /\ Len(in') <= InCap
    <3>1. in \in Seq(Events) /\ Len(in) <= InCap /\ InCap \in Nat
      BY <1>0, PipelineAssumption DEF TypeOK
    <3>2. Tail(in) \in Seq(Events) /\ Len(Tail(in)) = Len(in) - 1 /\ Len(in) \in Nat
      BY <2>2, <3>1, TailElements
    <3> QED BY <2>3, <3>1, <3>2
  <2>7. starts' \subseteq Tasks
    BY <1>0, <2>2, <2>3 DEF TypeOK, Events
  <2>8. TypeOK'
    BY <1>0, <2>2, <2>3, <2>5, <2>6, <2>7 DEF TypeOK, outside
  <2>9. HandIsFull'
    BY <2>2, <2>3, <2>5 DEF HandIsFull
  <2>10. Queue' = Queue
    BY <1>0, <2>1, <2>2, <2>3, <2>5, ReceiveKeepsQueue
  <2>11. QueueInv'
    BY <2>3, <2>10, QueueKeeps
  <2> QED BY <1>4, <2>8, <2>9, <2>11, ReceiveKeeps
<1>5. CASE LogFound \/ WaitExpires
  <2>1. PICK e : e = ev
    OBVIOUS
  <2>2. /\ rpc = "waiting" /\ UNCHANGED <<watcher, outside, ev, starts, out, daemon, published>>
        /\ e \in Events
    BY <1>0, <1>5, <2>1 DEF LogFound, WaitExpires, HandIsFull, Busy
  <2>3. PICK found \in Targets : Lifecycle(e, found)
    BY <1>5, <2>1 DEF LogFound, WaitExpires, Targets
  <2>4. /\ targets' \in [Tasks -> Targets] /\ rpc' = "sending"
        /\ ce' \in CloudEvents /\ ce'.task = e.task /\ ce'.phase = e.phase
    BY <1>0, <2>2, <2>3, LifecycleType
  <2>5. TypeOK'
    BY <1>0, <2>2, <2>4 DEF TypeOK, watcher, outside
  <2>6. HandIsFull'
    BY <2>1, <2>2, <2>4 DEF HandIsFull
  <2>7. Queue' = Queue
    <3>1. Now' = Now
      BY <2>2, <2>4 DEF Now, Busy
    <3> QED BY <2>2, <3>1 DEF Queue, Strip, watcher
  <2>8. QueueInv'
    BY <2>2, <2>7, QueueKeeps DEF watcher
  <2> QED BY <1>5, <2>5, <2>6, <2>8, WaitKeeps
<1>6. CASE Forward
  <2>1. /\ rpc = "sending" /\ rpc' = "select" /\ out' = Append(out, ce) /\ Len(out) < OutCap
        /\ starts' = IF ev.phase \in TerminalPhases THEN starts \ {ev.task} ELSE starts
        /\ UNCHANGED <<watcher, outside, ev, ce, targets, daemon, published>>
    BY <1>6 DEF Forward
  <2>2. out' \in Seq(CloudEvents) /\ Len(out') <= OutCap
    <3>1. out \in Seq(CloudEvents) /\ ce \in CloudEvents /\ OutCap \in Nat
      BY <1>0, <2>1, PipelineAssumption DEF TypeOK, HandIsFull
    <3>2. Append(out, ce) \in Seq(CloudEvents) /\ Len(Append(out, ce)) = Len(out) + 1 /\ Len(out) \in Nat
      BY <3>1, AppendElements
    <3> QED BY <2>1, <3>1, <3>2
  <2>3. TypeOK'
    BY <1>0, <2>1, <2>2 DEF TypeOK, watcher, outside
  <2>4. HandIsFull'
    BY <2>1 DEF HandIsFull, Busy
  <2>5. Queue' = Queue
    BY <1>0, <2>1, ForwardKeepsQueue DEF watcher
  <2>6. QueueInv'
    BY <2>1, <2>5, QueueKeeps DEF watcher
  <2>7. EnrichInv'
    BY <2>1, ForwardKeeps
  <2> QED BY <2>3, <2>4, <2>6, <2>7
<1>7. CASE WatcherReturns
  <2>1. /\ rpc = "select" /\ rpc' = "returned"
        /\ UNCHANGED <<watcher, outside, ev, ce, starts, targets, out, daemon, published>>
    BY <1>7 DEF WatcherReturns
  <2>2. TypeOK'
    BY <1>0, <2>1 DEF TypeOK, watcher, outside
  <2> QED BY <2>1, <2>2, QuietStep DEF watcher
<1>8. CASE Publish
  <2>1. PICK h : h = Head(out)
    OBVIOUS
  <2>2. /\ out # <<>> /\ out' = Tail(out)
        /\ published' = [published EXCEPT ![h.task] = Append(@, h)]
        /\ UNCHANGED <<watcher, outside, handler, daemon>>
    BY <1>8, <2>1 DEF Publish
  <2>3. /\ h \in CloudEvents /\ \A t \in Tasks : Outbound(t)' = Outbound(t)
        /\ Published(h.task)' = Published(h.task) \cup {h.phase}
        /\ \A t \in Tasks \ {h.task} : Published(t)' = Published(t)
    BY <1>0, <2>1, <2>2, PublishKeepsOutbound
  <2>4. h.task \in Tasks /\ h.phase \in Phases
    BY <2>3 DEF CloudEvents
  <2>5. TypeOK'
    <3>1. out' \in Seq(CloudEvents) /\ Len(out') <= OutCap
      <4>1. out \in Seq(CloudEvents) /\ Len(out) <= OutCap /\ OutCap \in Nat
        BY <1>0, PipelineAssumption DEF TypeOK
      <4>2. Tail(out) \in Seq(CloudEvents) /\ Len(Tail(out)) = Len(out) - 1 /\ Len(out) \in Nat
        BY <2>2, <4>1, TailElements
      <4> QED BY <2>2, <4>1, <4>2
    <3>2. published' \in [Tasks -> Seq(CloudEvents)]
      <4>1. published \in [Tasks -> Seq(CloudEvents)]
        BY <1>0 DEF TypeOK
      <4>2. Append(published[h.task], h) \in Seq(CloudEvents)
        BY <2>3, <2>4, <4>1
      <4> QED BY <2>2, <2>4, <4>1, <4>2
    <3> QED BY <1>0, <2>2, <3>1, <3>2 DEF TypeOK, watcher, outside, handler
  <2>6. HandIsFull'
    BY <1>0, <2>2 DEF HandIsFull, Busy, handler
  <2>7. Queue # <<>> /\ Queue' = Tail(Queue) /\ Queue[1] = Event(h.task, h.phase)
    BY <1>0, <2>1, <2>2, PublishTakesFirst DEF watcher, handler
  <2>8. QueueInv'
    BY <2>2, <2>3, <2>4, <2>7, PublishInTurn DEF watcher
  <2>9. EnrichInv'
    BY <2>2, <2>3, OthersKeep DEF handler
  <2> QED BY <2>5, <2>6, <2>8, <2>9
<1>9. CASE Signal \/ Exit
  <2>1. UNCHANGED <<watcher, outside, handler, out, published>> /\ daemon' \in {"signalled", "exited"}
    BY <1>9 DEF Signal, Exit
  <2>2. TypeOK'
    BY <1>0, <2>1 DEF TypeOK, watcher, outside, handler
  <2> QED BY <2>1, <2>2, QuietStep DEF watcher, handler
<1>10. CASE UNCHANGED vars
  <2>1. TypeOK'
    BY <1>0, <1>10 DEF TypeOK, vars, watcher, outside, handler
  <2> QED BY <1>10, <2>1, QuietStep DEF vars, watcher, handler
<1> HIDE DEF Kept
<1> QED
  BY <1>1, <1>2, <1>3, <1>4, <1>5, <1>6, <1>7, <1>8, <1>9, <1>10 DEF Next

(* The invariant holds of every behaviour, for every value of the constants. *)
THEOREM PipelineInductive == Spec => []PipelineInv
<1> QED BY PipelineInit, PipelineStep, PTL DEF Spec
-----------------------------------------------------------------------------
(* What follows *)

(* What is announced was received or waits in the watcher's channel.         *)
LEMMA AnnouncedIsReceived ==
  ASSUME PipelineInv, NEW t \in Tasks, NEW p \in Announced(t)
  PROVE  p \in Received(t) \/ \E i \in DOMAIN in : in[i].task = t /\ in[i].phase = p
<1> DEFINE A == Strip(out)
           C == A \o Now
<1>1. A \in Seq(Events) /\ Len(A) = Len(out) /\ Len(out) \in Nat
  BY StripType DEF PipelineInv, TypeOK
<1>2. Now \in Seq(Events) /\ in \in Seq(Events) /\ C \in Seq(Events)
  BY QueueShape DEF PipelineInv
<1>3. \/ p \in Published(t)
      \/ \E i \in 1..Len(Queue) : Queue[i].task = t /\ Queue[i].phase = p
  BY DEF PipelineInv, NothingIsLost, Queued
<1>4. CASE p \in Published(t)
  BY <1>4, SentIsQueued DEF Received
<1>5. ASSUME NEW i \in 1..Len(Queue), Queue[i].task = t, Queue[i].phase = p
      PROVE  p \in Received(t) \/ \E j \in DOMAIN in : in[j].task = t /\ in[j].phase = p
  <2> HIDE DEF A
  <2>1. Len(C) = Len(out) + Len(Now) /\ Len(Now) \in Nat
    BY <1>1, <1>2
  <2>2. CASE i <= Len(out)
    <3>1. p \in Queued(Queue, t, Len(out))
      BY <1>1, <1>5, <2>2 DEF Queued
    <3> QED BY <3>1, SentIsQueued DEF Received
  <2>3. CASE Len(out) < i /\ i <= Len(C)
    <3>1. Busy /\ Now = <<ev>>
      BY <1>1, <2>1, <2>3 DEF Now
    <3>2. i = Len(out) + 1
      BY <1>1, <2>1, <2>3, <3>1
    <3>3. Queue[i] = C[i]
      <4> HIDE DEF C
      <4> QED BY <1>2, <1>5, <2>3 DEF Queue, C, A
    <3>4. C[i] = ev
      BY <1>1, <1>2, <3>1, <3>2
    <3> QED BY <1>5, <3>1, <3>3, <3>4 DEF Received
  <2>4. CASE Len(C) < i
    <3>1. Queue = C \o in
      BY DEF Queue, A
    <3> HIDE DEF C
    <3>2. Len(Queue) = Len(C) + Len(in) /\ Len(C) \in Nat /\ Len(in) \in Nat
      BY <1>2, <3>1
    <3>3. i - Len(C) \in DOMAIN in /\ Queue[i] = in[i - Len(C)]
      BY <1>2, <1>5, <2>4, <3>1, <3>2
    <3> QED BY <1>5, <3>3
  <2> QED BY <1>1, <2>1, <2>2, <2>3, <2>4
<1> QED BY <1>3, <1>4, <1>5

(* Once a task has ended and its events are enriched, nothing is kept of it: *)
(* neither a start time nor a target (NothingKeptAfterEnd).                  *)
THEOREM NothingIsKept == Spec => []NothingKeptAfterEnd
<1>1. ASSUME PipelineInv PROVE NothingKeptAfterEnd
  <2> SUFFICES ASSUME NEW t \in Tasks, Settled(t)
               PROVE  t \notin starts /\ targets[t] = "none"
    BY DEF NothingKeptAfterEnd
  <2>1. PICK p \in Announced(t) : p \in TerminalPhases
    BY DEF Settled, Announced
  <2>2. p \in Received(t)
    BY <1>1, <2>1, AnnouncedIsReceived DEF Settled
  <2>3. Received(t) = Sent(t)
    BY DEF Settled, Received, Busy
  <2> QED BY <1>1, <2>1, <2>2, <2>3 DEF PipelineInv, StartsAreKept, TargetsAreKept
<1> QED BY <1>1, PipelineInductive, PTL

(* A published outcome always has a duration (DurationAlways).               *)
THEOREM DurationsAreSent == Spec => []DurationAlways
<1>1. ASSUME PipelineInv PROVE DurationAlways
  <2> SUFFICES ASSUME NEW t \in Tasks, NEW i \in DOMAIN published[t],
                      published[t][i].phase \in TerminalPhases
               PROVE  published[t][i].timed
    BY DEF DurationAlways
  <2>1. published[t][i] \in Enriched(t)
    BY DEF Enriched, Outbound
  <2> QED BY <1>1, <2>1 DEF PipelineInv, EnrichedAreTimed
<1> QED BY <1>1, PipelineInductive, PTL

(* A target that was published with the start of a migration is published    *)
(* with its outcome (TargetKept).                                            *)
THEOREM TargetsAreSent == Spec => []TargetKept
<1>1. ASSUME PipelineInv PROVE TargetKept
  <2> SUFFICES ASSUME NEW t \in Tasks, NEW i \in DOMAIN published[t], NEW j \in DOMAIN published[t],
                      published[t][i].phase = "started", published[t][i].target # "none",
                      published[t][j].phase \in TerminalPhases
               PROVE  published[t][j].target # "none"
    BY DEF TargetKept
  <2>1. /\ published[t][i] \in Enriched(t) /\ published[t][j] \in Enriched(t)
        /\ published[t][j] \in Outbound(t)
    BY DEF Enriched, Outbound
  <2>2. published[t][j].phase \in Received(t)
    BY <1>1, <2>1, EnrichedWereReceived
  <2> QED BY <1>1, <2>1, <2>2 DEF PipelineInv, TargetsAreKept
<1> QED BY <1>1, PipelineInductive, PTL

(* Every variable keeps its type, and neither channel exceeds its capacity.  *)
THEOREM PipelineTypes == Spec => []TypeOK
<1> QED BY PipelineInductive, PTL DEF PipelineInv
-----------------------------------------------------------------------------
(* The refinement *)

(* The consumer's specification shares the vocabulary.                       *)
LEMMA ConsumerVocabulary ==
  /\ EndToEnd!TerminalPhases = TerminalPhases /\ EndToEnd!LineStates = LineStates
  /\ \A p : EndToEnd!Shows(p) = Shows(p)
  /\ \A s : EndToEnd!After(s) = After(s)
<1>1. EndToEnd!TerminalPhases = TerminalPhases
  BY DEF EndToEnd!TerminalPhases, TerminalPhases
<1>2. EndToEnd!LineStates = LineStates
  BY DEF EndToEnd!LineStates, LineStates, EndToEnd!Listed, Listed, EndToEnd!Ended, Ended,
         EndToEnd!Gone, Gone
<1>3. \A p : EndToEnd!Shows(p) = Shows(p)
  BY <1>2, Zenon DEF EndToEnd!Shows, Shows
<1>4. \A s : EndToEnd!After(s) = After(s)
  BY Zenon DEF EndToEnd!After, After
<1> QED BY <1>1, <1>2, <1>3, <1>4

(* To consumers, publishing a phase that is in turn announces it.            *)
LEMMA PublishAnnounces ==
  ASSUME PipelineInv, Publish
  PROVE  EndToEnd!Next
<1>1. PICK h : h = Head(out)
  OBVIOUS
<1>2. /\ out # <<>> /\ out' = Tail(out)
      /\ published' = [published EXCEPT ![h.task] = Append(@, h)]
      /\ UNCHANGED <<watcher, outside, handler, daemon>> /\ TypeOK /\ HandIsFull
  BY <1>1 DEF Publish, PipelineInv
<1>3. /\ h \in CloudEvents
      /\ Published(h.task)' = Published(h.task) \cup {h.phase}
      /\ \A t \in Tasks \ {h.task} : Published(t)' = Published(t)
  BY <1>1, <1>2, PublishKeepsOutbound
<1> DEFINE t == h.task
           p == h.phase
<1>4. t \in Tasks /\ p \in Phases
  BY <1>3 DEF CloudEvents
<1>5. Queue # <<>> /\ Queue' = Tail(Queue) /\ Queue[1] = Event(t, p)
  BY <1>1, <1>2, PublishTakesFirst DEF watcher, handler
<1>6. InTurn(p, Published(t)) /\ (p = "synced" => t \in Migrations) /\ file[t] \in Shows(p)
  BY <1>2, <1>3, <1>4, <1>5, PublishInTurn DEF watcher
<1>7. published \in [Tasks -> Seq(CloudEvents)] /\ published[t] \in Seq(CloudEvents)
  BY <1>2, <1>4 DEF TypeOK
<1>8. EndToEnd!Announced(t) = Published(t)
  <2>1. PublishedPhases[t] = [i \in DOMAIN published[t] |-> published[t][i].phase]
    BY <1>4 DEF PublishedPhases
  <2> QED BY <2>1 DEF EndToEnd!Announced, Published
<1>9. PublishedPhases' = [PublishedPhases EXCEPT ![t] = Append(@, p)]
  <2> DEFINE Phs(s) == [i \in DOMAIN s |-> s[i].phase]
  <2>1. ASSUME NEW s \in Seq(CloudEvents) PROVE Phs(Append(s, h)) = Append(Phs(s), p)
    <3>1. /\ DOMAIN s = 1..Len(s) /\ Len(s) \in Nat /\ DOMAIN Append(s, h) = 1..Len(s) + 1
          /\ \A i \in 1..Len(s) : Append(s, h)[i] = s[i]
          /\ Append(s, h)[Len(s) + 1] = h
      BY <1>3, AppendElements
    <3>2. \A i \in 1..Len(s) : s[i].phase \in Phases
      <4>1. \A i \in 1..Len(s) : s[i] \in CloudEvents
        BY <3>1
      <4> QED BY <4>1 DEF CloudEvents
    <3>3. Phs(s) \in Seq(Phases) /\ Len(Phs(s)) = Len(s)
      BY <3>1, <3>2
    <3> DEFINE l == Phs(Append(s, h))
               m == Phs(s)
               r == Append(m, p)
    <3>4. /\ DOMAIN l = 1..Len(s) + 1 /\ l[Len(s) + 1] = p
          /\ \A i \in 1..Len(s) : l[i] = s[i].phase /\ m[i] = s[i].phase
      BY <3>1
    <3>5. l \in Seq(Phases) /\ Len(l) = Len(s) + 1
      <4>1. \A i \in 1..Len(s) + 1 : Append(s, h)[i].phase \in Phases
        BY <1>4, <3>1, <3>2
      <4> QED BY <3>1, <4>1
    <3>6. /\ r \in Seq(Phases) /\ Len(r) = Len(s) + 1 /\ r[Len(s) + 1] = p
          /\ \A i \in 1..Len(s) : r[i] = m[i]
      <4> HIDE DEF m, p
      <4> QED BY <1>4, <3>3, AppendElements DEF m
    <3> HIDE DEF l, m, r, p
    <3>7. \A i \in 1..Len(s) + 1 : l[i] = r[i]
      BY <3>1, <3>4, <3>6
    <3>8. l = r
      BY <3>5, <3>6, <3>7, SeqEqual
    <3> QED BY <3>8 DEF l, m, r
  <2>2. \A u \in Tasks : PublishedPhases[u] = Phs(published[u])
                         /\ PublishedPhases'[u] = Phs(published'[u])
    BY DEF PublishedPhases
  <2>3. DOMAIN PublishedPhases = Tasks /\ DOMAIN PublishedPhases' = Tasks
    BY DEF PublishedPhases
  <2> DEFINE q == [PublishedPhases EXCEPT ![t] = Append(@, p)]
  <2>4. ASSUME NEW u \in Tasks PROVE PublishedPhases'[u] = q[u]
    <3> HIDE DEF Phs
    <3>1. CASE u = t
      <4>1. published'[t] = Append(published[t], h)
        BY <1>2, <1>4, <1>7
      <4>2. PublishedPhases'[t] = Append(Phs(published[t]), p)
        BY <1>4, <1>7, <2>1, <2>2, <4>1
      <4>3. PublishedPhases[t] = Phs(published[t]) /\ q[t] = Append(PublishedPhases[t], p)
        BY <1>4, <2>2, <2>3
      <4> QED BY <3>1, <4>2, <4>3
    <3>2. CASE u # t
      BY <1>2, <1>7, <2>2, <2>3, <3>2
    <3> QED BY <3>1, <3>2
  <2>5. PublishedPhases' = [u \in Tasks |-> PublishedPhases'[u]] /\ q = [u \in Tasks |-> q[u]]
    BY <2>3 DEF PublishedPhases
  <2> HIDE DEF q
  <2>6. PublishedPhases' = q
    BY <2>4, <2>5
  <2> QED BY <2>6 DEF q
<1>10. EndToEnd!Announce(t, p)
  BY <1>2, <1>6, <1>9, ConsumerVocabulary DEF EndToEnd!Announce, watcher
<1> HIDE DEF t, p
<1>11. EndToEnd!Start(t) \/ EndToEnd!Sync(t) \/ EndToEnd!End(t)
  <2>1. CASE p = "started"
    BY <1>6, <1>8, <1>10, <2>1 DEF InTurn, EndToEnd!Start
  <2>2. CASE p = "synced"
    BY <1>6, <1>8, <1>10, <2>2 DEF InTurn, EndToEnd!Sync
  <2>3. CASE p \in TerminalPhases
    <3>1. p # "started"
      BY <2>3 DEF TerminalPhases
    <3> QED BY <1>6, <1>8, <1>10, <2>3, <3>1, ConsumerVocabulary DEF InTurn, EndToEnd!End
  <2> QED BY <1>4, <2>1, <2>2, <2>3 DEF Phases
<1> QED BY <1>4, <1>11 DEF EndToEnd!Next

(* Every other step moves the file on, or nothing that consumers see.        *)
LEMMA ConsumerStep ==
  ASSUME PipelineInv, [Next]_vars
  PROVE  [EndToEnd!Next]_<<file, PublishedPhases>>
<1>1. CASE Publish
  BY <1>1, PublishAnnounces
<1>2. ASSUME NEW t \in Tasks, Progress(t) PROVE EndToEnd!Next
  <2>1. PICK s \in After(file[t]) : file' = [file EXCEPT ![t] = s]
    BY <1>2, WatcherVocabulary DEF Progress, Watcher!Progress
  <2>2. PublishedPhases' = PublishedPhases
    BY <1>2 DEF Progress, PublishedPhases
  <2> QED BY <2>1, <2>2, ConsumerVocabulary DEF EndToEnd!Next, EndToEnd!Progress
<1>3. ASSUME UNCHANGED <<file, published>> PROVE UNCHANGED <<file, PublishedPhases>>
  BY <1>3 DEF PublishedPhases
<1>4. ASSUME NEW t \in Tasks, Announce(t) PROVE UNCHANGED <<file, published>>
  BY <1>4 DEF Announce, Watcher!Start, Watcher!Sync, Watcher!End, Watcher!Announce
<1>5. ASSUME NEW t \in Migrates, ProcessExits(t) \/ PidReused(t) \/ LogNamesTarget(t)
      PROVE  UNCHANGED <<file, published>>
  BY <1>5 DEF ProcessExits, PidReused, LogNamesTarget, watcher
<1>6. CASE Receive \/ LogFound \/ WaitExpires \/ Forward \/ WatcherReturns
  <2>1. UNCHANGED <<file, published>>
    BY <1>6 DEF Receive, LogFound, WaitExpires, Forward, WatcherReturns, watcher
  <2> QED BY <1>3, <2>1
<1>7. CASE Signal \/ Exit \/ UNCHANGED vars
  <2>1. UNCHANGED <<file, published>>
    BY <1>7 DEF Signal, Exit, vars, watcher
  <2> QED BY <1>3, <2>1
<1> QED BY <1>1, <1>2, <1>3, <1>4, <1>5, <1>6, <1>7 DEF Next

(* What consumers see of a task is a TaskLifecycle again, for any capacity   *)
(* of the channels: nothing lost, repeated or out of turn, and nothing that  *)
(* the file does not show (RefinesLifecycle).                                *)
THEOREM PipelineImplements == Spec => RefinesLifecycle
<1>1. Init => EndToEnd!Init
  <2> SUFFICES ASSUME Init PROVE EndToEnd!Init
    OBVIOUS
  <2>1. file \in [Tasks -> LineStates] /\ published = [t \in Tasks |-> <<>>]
    BY WatcherVocabulary DEF Init, Watcher!Init
  <2>2. \A t \in Tasks : [i \in DOMAIN published[t] |-> published[t][i].phase] = <<>>
    BY <2>1
  <2>3. PublishedPhases = [t \in Tasks |-> <<>>]
    BY <2>2 DEF PublishedPhases
  <2> QED BY <2>1, <2>3, ConsumerVocabulary DEF EndToEnd!Init
<1>2. PipelineInv /\ [Next]_vars => [EndToEnd!Next]_<<file, PublishedPhases>>
  BY ConsumerStep
<1> QED BY <1>1, <1>2, PipelineInductive, PTL DEF Spec, RefinesLifecycle, EndToEnd!Spec
=============================================================================
