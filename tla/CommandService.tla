----------------------------- MODULE CommandService -----------------------------
(***************************************************************************)
(* What run_spot_cmd promises to the threads that call it: commands are    *)
(* executed one at a time in the order they were submitted, each exactly   *)
(* once, and a caller returns only after its command was executed.         *)
(***************************************************************************)
EXTENDS Sequences

CONSTANT Callers

VARIABLES
    line,       \* the callers whose commands wait, in order
    served      \* the callers whose command was executed, until they return

Init == line = <<>> /\ served = {}

Submit(c) ==
    /\ \A i \in DOMAIN line : line[i] # c
    /\ c \notin served
    /\ line' = Append(line, c)
    /\ UNCHANGED served

Execute ==
    /\ line # <<>>
    /\ line' = Tail(line)
    /\ served' = served \cup {Head(line)}

Return(c) ==
    /\ c \in served
    /\ served' = served \ {c}
    /\ UNCHANGED line

Next == Execute \/ \E c \in Callers : Submit(c) \/ Return(c)

Spec == Init /\ [][Next]_<<line, served>>
===============================================================================
