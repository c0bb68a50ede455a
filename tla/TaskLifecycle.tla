--------------------------- MODULE TaskLifecycle ---------------------------
(***************************************************************************)
(* What the lifecycle watcher promises about the events of one life of the *)
(* daemon, independently of inotify, scans, goroutines and channels: every *)
(* task is announced as started, then given at most one outcome, the one   *)
(* the active file shows; a QEMU migration may in addition be announced    *)
(* once as synced, at any moment after started (the code does not order it *)
(* against the outcome).  A restart forgets what was announced.            *)
(***************************************************************************)
EXTENDS ActiveFile, Naturals, Sequences

CONSTANTS
  Tasks,        \* the tasks whose worker type and kind are published
  Migrations    \* those of worker type qmigrate

VARIABLES
  file,         \* file[t]: what the active file says of task t
  trace         \* trace[t]: the phases announced of t, in order

Announced(t) == {trace[t][i] : i \in DOMAIN trace[t]}

Init == /\ file \in [Tasks -> LineStates]
        /\ trace = [t \in Tasks |-> <<>>]

Progress(t) == /\ \E s \in After(file[t]) : file' = [file EXCEPT ![t] = s]
               /\ UNCHANGED trace

\* Phase p of task t is announced.
Announce(t, p) == /\ file[t] \in Shows(p)
                  /\ trace' = [trace EXCEPT ![t] = Append(@, p)]
                  /\ UNCHANGED file

Start(t) == Announced(t) = {} /\ Announce(t, "started")

Sync(t) == /\ t \in Migrations
           /\ "started" \in Announced(t)
           /\ "synced" \notin Announced(t)
           /\ Announce(t, "synced")

End(t) == /\ "started" \in Announced(t)
          /\ Announced(t) \cap TerminalPhases = {}
          /\ \E p \in TerminalPhases : Announce(t, p)

Forget == /\ trace' = [t \in Tasks |-> <<>>]
          /\ UNCHANGED file

Next == \/ \E t \in Tasks : Progress(t) \/ Start(t) \/ Sync(t) \/ End(t)
        \/ Forget

Spec == Init /\ [][Next]_<<file, trace>>
=============================================================================
