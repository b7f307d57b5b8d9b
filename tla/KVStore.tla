------------------------------ MODULE KVStore -------------------------------
(***************************************************************************)
(* The key/value store the log is applied to (src/kv/store.go), a map from *)
(* the keys that are set to their values, as operators: what a command     *)
(* leaves, what it returns, and what a read finds.                         *)
(***************************************************************************)
EXTENDS Integers, Sequences, Functions

NewStore == <<>>

\* The errors of Apply; Success is nil.
Success == "nil"
ErrKeyExists == "key exists"
ErrKeyNotFound == "key not found"
ErrUnknownOp == "unknown operation"

Found(data, key) == key \in DOMAIN data

\* Mutant: insert does not look whether the key is there.
ApplyErrOverwriting(data, cmd) ==
    IF cmd.op = "delete" /\ ~ Found(data, cmd.key) THEN ErrKeyNotFound ELSE Success

ApplyErr(data, cmd) ==
    CASE cmd.op = "set" -> Success
      [] cmd.op = "insert" -> IF Found(data, cmd.key) THEN ErrKeyExists ELSE Success
      [] cmd.op = "delete" -> IF Found(data, cmd.key) THEN Success ELSE ErrKeyNotFound
      [] OTHER -> ErrUnknownOp

\* A command that fails changes nothing.
Apply(data, cmd) ==
    IF ApplyErr(data, cmd) # Success THEN data
    ELSE IF cmd.op = "delete" THEN Restrict(data, DOMAIN data \ {cmd.key})
    ELSE [k \in DOMAIN data \cup {cmd.key} |-> IF k = cmd.key THEN cmd.value ELSE data[k]]

\* Get: the value and whether there is one.
Get(data, key) == IF Found(data, key) THEN <<data[key], TRUE>> ELSE <<"", FALSE>>

\* What a sequence of commands leaves in an empty store.
Replay(cmds) ==
    LET after[n \in 0 .. Len(cmds)] ==
            IF n = 0 THEN NewStore ELSE Apply(after[n - 1], cmds[n])
    IN  after[Len(cmds)]
=============================================================================
