----------------------------- MODULE MCApplyPath -----------------------------
(* Module ApplyPath for TLC: how the node is set up and used. *)
EXTENDS ApplyPath

CONSTANTS w1, w2

\* One call at a time, with snapshots taken and installed.
Serial == [workers |-> {w1}, threshold |-> 2, installs |-> 2]

\* Two calls at once, without snapshots.
Concurrent == [workers |-> {w1, w2}, threshold |-> 0, installs |-> 0]

\* Two calls at once, with snapshots taken.
Compacting == [workers |-> {w1, w2}, threshold |-> 2, installs |-> 0]

SerialOrConcurrent == {Serial, Concurrent}
OnlyCompacting == {Compacting}
=============================================================================
