------------------------------ MODULE Redirects ------------------------------
(***************************************************************************)
(* How a client finds the leader: a node that does not lead answers with   *)
(* the address of the leader it last heard of (leaderAddr in               *)
(* src/server/server.go, populateLeaderError in src/server/rpc_handlers.go *)
(* and redirectToLeader for HTTP), and the client goes there               *)
(* (src/client/rpc_client.go), giving up after maxRedirects calls.         *)
(***************************************************************************)
EXTENDS Raft

CONSTANT maxRedirects   \* how many nodes a client asks

ASSUME RedirectsAssumption == maxRedirects \in Nat \ {0}

\* The hint a node gives, or Nil for "leader unknown".
leaderAddr(i) == IF leaderID[i] = i THEN Nil ELSE leaderID[i]

\* A node a client is sent on from: it does not lead and has a hint to give, so
\* Get and doMutate go round their loop.
SentOn(i) == state[i] # Leader /\ leaderAddr(i) # Nil

\* The nodes a client asks that starts at i, while no hint changes; it stops at
\* a node that gives none.
Asked == {s \in [1 .. maxRedirects -> Server] :
             \A k \in 1 .. maxRedirects - 1 :
                 SentOn(s[k]) /\ s[k + 1] = leaderAddr(s[k])}

\* "If you point the client at a follower, it will follow leader hints
\* automatically" (docs/USER_GUIDE.md): the hints, which becomeFollowerLocked
\* never clears and which are as old as the last call heard, do not lead round
\* in a circle; wherever a client starts, a node that leads or knows of no other
\* leader is among the first maxRedirects (as many as there are nodes), so it
\* is not turned away with "too many redirects".
HintsEnd == \A s \in Asked : ~ SentOn(s[maxRedirects])
=============================================================================
