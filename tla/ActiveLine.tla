----------------------------- MODULE ActiveLine -----------------------------
(***************************************************************************)
(* What a line of the active file says after its UPID, and what            *)
(* ParseActiveLine of internal/tasks/upid.go makes of it, whole or cut.    *)
(* A tail is a sequence of fields: "0", "1", "hex" (an end time), "OK"     *)
(* (any word that begins so) or "word" (any other).                        *)
(***************************************************************************)
EXTENDS Naturals, Sequences

\* The tails that PVE writes for a task that runs, is OK, or has failed: those
\* of the active file, and those of the index (external).
Written(s) ==
  CASE s = "running" -> {<<>>, <<"0">>}
    [] s = "OK"      -> {<<"1", "hex", "OK">>, <<"hex", "OK">>}
    [] s = "ERR"     -> {<<"1", "hex", "word">>, <<"1", "hex", "word", "1">>,
                         <<"hex", "word">>, <<"hex", "word", "OK">>}

IsHex(f) == f \in {"0", "1", "hex"}

Rest(tail, i) == SubSeq(tail, i, Len(tail))

IsActiveForm(tail) == Len(tail) >= 3 /\ tail[1] = "1" /\ IsHex(tail[2])
IsIndexForm(tail)  == Len(tail) >= 2 /\ IsHex(tail[1])

\* Mutant: the form of the index is tried first.
StatusTailIndexFirst(tail) ==
  IF tail \in {<<>>, <<"0">>} THEN <<>>
  ELSE IF IsIndexForm(tail) THEN Rest(tail, 2)
  ELSE tail

\* parseStatusTail: the status, <<>> while the task runs.
StatusTail(tail) ==
  IF tail \in {<<>>, <<"0">>} THEN <<>>
  ELSE IF IsActiveForm(tail) THEN Rest(tail, 3)
  ELSE IF IsIndexForm(tail) THEN Rest(tail, 2)
  ELSE tail

\* What parseAll takes the line to say: no status, one that isOK, or another.
Says(tail) == IF StatusTail(tail) = <<>> THEN "running"
              ELSE IF StatusTail(tail)[1] = "OK" THEN "OK" ELSE "ERR"

\* What is left of a tail that is cut somewhere: some of its fields, of which
\* the last may be cut itself.
Cuts(tail) ==
  {SubSeq(tail, 1, n) : n \in 0..Len(tail)} \cup
  {SubSeq(tail, 1, n - 1) \o <<"word">> : n \in {i \in DOMAIN tail : tail[i] = "OK"}}
=============================================================================
