------------------------------- MODULE RemoteCall -------------------------------
(***************************************************************************)
(* What the relay promises its clients: a command is run by a dog at most  *)
(* once, and its answer reaches nobody but the client who sent it.  A      *)
(* command is a pair of its client and its number among that client's.     *)
(***************************************************************************)
EXTENDS Sequences, Functions

VARIABLES
    asked,      \* the commands that were sent to a dog
    ran,        \* the commands that dogs have run, one after the other
    got         \* who got the answer of which command

Init == asked = {} /\ ran = <<>> /\ got = {}

Ask(command) ==
    /\ command \notin asked
    /\ asked' = asked \cup {command}
    /\ UNCHANGED <<ran, got>>

Run(command) ==
    /\ command \in asked \ Range(ran)
    /\ ran' = Append(ran, command)
    /\ UNCHANGED <<asked, got>>

Answer(command) ==
    /\ command \in Range(ran)
    /\ got' = got \cup {<<command[1], command>>}
    /\ UNCHANGED <<asked, ran>>

Next ==
    \/ \E command \in asked' : Ask(command)
    \/ \E command \in asked : Run(command)
    \/ \E command \in Range(ran) : Answer(command)

Spec == Init /\ [][Next]_<<asked, ran, got>>
===============================================================================
