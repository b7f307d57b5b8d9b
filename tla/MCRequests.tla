----------------------------- MODULE MCRequests ------------------------------
(* Module Requests for TLC: two inserts and a delete of one key. *)
EXTENDS Requests, TLC

CONSTANTS h1, h2, f, r

OneInsert ==
    h1 :> [op |-> "insert", key |-> Key, value |-> "v1"]
    @@ f :> [op |-> "delete", key |-> Key]

TwoInserts == OneInsert @@ h2 :> [op |-> "insert", key |-> Key, value |-> "v2"]

(* What the run looks at. *)

Overlapping ==
    [writes |-> {h1, h2}, reads |-> {}, redirected |-> {}, threshold |-> 1, installs |-> TRUE,
     calls |-> 2, terms |-> 2, length |-> 2]

Reading == [Overlapping EXCEPT !.writes = {h1}, !.reads = {r}, !.terms = 3]

Resent ==
    [Overlapping EXCEPT !.redirected = {h1}, !.threshold = 0, !.installs = FALSE, !.calls = 1,
                        !.terms = 3]

DeletedBetween == [Resent EXCEPT !.redirected = {}, !.length = 3]

AllSettings == {Overlapping, Reading, Resent, DeletedBetween}

OneWrite == [Resent EXCEPT !.writes = {h1}, !.redirected = {}, !.terms = 2, !.length = 1]

OneWriteOnly == {OneWrite}

=============================================================================
