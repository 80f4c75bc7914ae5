------------------------------ MODULE PageSocket ------------------------------
(***************************************************************************)
(* What a page sees of its web socket: commands reach the dog in the order *)
(* in which they were sent, answers and pushes come back in the order in   *)
(* which the dog wrote them, and what is on its way is lost when the       *)
(* connection breaks.  The page notices that some time later; what it      *)
(* sends until then is lost, too (WSocket of dogvibes-core.js; how it      *)
(* comes to a new connection is in ClientConnection).                      *)
(***************************************************************************)
EXTENDS Integers, Sequences

VARIABLES
    connected,  \* WSocket.connected
    link,       \* the connection is there
    wire,       \* commands on their way to the dog
    back        \* answers and pushes on their way to the page

socketVars == <<connected, link, wire, back>>

SocketInit == connected = FALSE /\ link = FALSE /\ wire = <<>> /\ back = <<>>

\* The page sends.
Asks(commands) == wire' = IF link THEN wire \o commands ELSE wire

\* The dog answers and pushes.
Tells(messages) == back' = IF link THEN back \o messages ELSE back

\* The connection breaks.
Breaks == link /\ link' = FALSE /\ wire' = <<>> /\ back' = <<>>

\* onopen, with what the page sends at once
Opens(commands) ==
    ~connected /\ connected' = TRUE /\ link' = TRUE /\ wire' = commands /\ back' = <<>>

\* The page and the dog have told each other everything.
AllSaid == connected /\ link /\ wire = <<>> /\ back = <<>>

===============================================================================
