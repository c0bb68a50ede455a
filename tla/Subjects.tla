------------------------------ MODULE Subjects ------------------------------
(***************************************************************************)
(* internal/events/events.go and subjectFor: the NATS subjects of what the *)
(* daemon publishes and of the requests that it takes.  Clusters and nodes *)
(* are named by any text, since the configuration may give them.           *)
(***************************************************************************)
EXTENDS Fields

CONSTANT Plain   \* pieces that a subject may hold: letters, digits, - and _

ASSUME SubjectsAssumption == Plain \cap {".", "*", ">"} = {}

\* Mutant: dots are left to separate the parts of a name.
SafeButDots(name) == [i \in DOMAIN name |-> IF name[i] \in Plain \cup {"."}
                                              THEN name[i] ELSE "_"]

\* safe: what a name becomes, so that it is one token.
Safe(name) ==
  IF name = <<>> THEN <<"default">>
  ELSE [i \in DOMAIN name |-> IF name[i] \in Plain THEN name[i] ELSE "_"]

Subject(tokens) == Join(<< <<"pve">> >> \o tokens, ".")

SubjectLifecycle(c, n, kind, vmid, action, phase) ==
  Subject(<<Safe(c), Safe(n), <<kind>>, <<vmid>>, <<action>>, <<phase>> >>)

SubjectSnapshotComplete(c, n) ==
  Subject(<<Safe(c), Safe(n), <<"snapshot">>, <<"complete">> >>)

SubjectSnapshotRequestCluster(c) ==
  Subject(<<Safe(c), <<"snapshot">>, <<"request">> >>)

SubjectSnapshotRequestNode(c, n) ==
  Subject(<<Safe(c), Safe(n), <<"snapshot">>, <<"request">> >>)

\* What a daemon publishes: a lifecycle event, the state of a VM, which has the
\* action "state" and the phase "snapshot", or the completion of a batch.
SubjectFor(ev) ==
  IF ev.type = "complete" THEN SubjectSnapshotComplete(ev.cluster, ev.node)
  ELSE SubjectLifecycle(ev.cluster, ev.node, ev.kind, ev.vmid, ev.action, ev.phase)

\* What the daemon of a node subscribes to.
Subscriptions(c, n) ==
  {SubjectSnapshotRequestCluster(c), SubjectSnapshotRequestNode(c, n)}

-----------------------------------------------------------------------------
\* How the NATS server reads a subject (external): tokens between dots.  In a
\* pattern "*" stands for any token, and a final ">" for one or more.
Tokens(subject) == Split(subject, ".")

Matches(pattern, tokens) ==
  LET n == Len(pattern)
      Fits(i) == pattern[i] \in {<<"*">>, tokens[i]}
  IN  IF pattern[n] = <<">">>
        THEN Len(tokens) >= n /\ \A i \in 1..n - 1 : Fits(i)
        ELSE Len(tokens) = n /\ \A i \in 1..n : Fits(i)
=============================================================================
