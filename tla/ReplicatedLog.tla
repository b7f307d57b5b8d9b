---------------------------- MODULE ReplicatedLog ----------------------------
(***************************************************************************)
(* What the cluster promises its servers, seen from outside: each node     *)
(* learns longer and longer prefixes of one sequence of commands.          *)
(***************************************************************************)
EXTENDS Sequences, SequencesExt

CONSTANT Server

VARIABLE committed      \* per node: the entries it takes to be committed

Init == committed = [i \in Server |-> <<>>]

Comparable(s, t) == IsPrefix(s, t) \/ IsPrefix(t, s)

\* A node learns of more entries, in the order all the others have them.
Learn(i) ==
    /\ IsPrefix(committed[i], committed'[i])
    /\ \A j \in Server \ {i} :
           /\ committed'[j] = committed[j]
           /\ Comparable(committed[j], committed'[i])

Next == \E i \in Server : Learn(i)

Spec == Init /\ [][Next]_committed
=============================================================================
