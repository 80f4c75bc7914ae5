---------------------------- MODULE ClientConnection ---------------------------
(***************************************************************************)
(* How a page keeps its connection to the relay (dogvibes-core.js).  There *)
(* are two connection objects, WSocket and AJAX, of which Dogvibes.init    *)
(* takes the first that the browser has.  Scripts run one handler at a     *)
(* time, so that a handler is one step; timers fire, sockets open and      *)
(* requests are answered in any order.                                     *)
(*                                                                         *)
(* While the relay is up, it accepts and answers before a timer of the     *)
(* page runs out; what was begun while it was down may be left hanging and *)
(* come later.  Ids of sockets and requests are used again.                *)
(***************************************************************************)
EXTENDS Integers, FiniteSets

CONSTANTS
    Sockets,    \* web sockets that a page can have at a time (bound)
    Requests,   \* requests that a page can have at a time (bound)
    None,       \* no request
    Attempts,   \* how many errors in a row are retried: 300 and 4
    Lowest      \* bound: commands are sent while attempts are above it

ASSUME ConnectionAssumption ==
    /\ Sockets # {} /\ None \notin Requests
    /\ Attempts \in Nat \ {0}
    /\ Lowest \in Int

VARIABLES
    prot,       \* the connection object: "ws" or "http"
    up,         \* the relay can be reached
    connected, attempts,    \* fields of the object
    timer,      \* the timer of the object by what it calls: "error" or "start"
                \* of WSocket, "getStatus" of AJAX, or "off"
    icon,       \* the class of the ConnectionIndicator
    sock, ws,   \* WSocket: the sockets, and the one that it uses
    req, request    \* AJAX: what the requests ask for, and the last one

object == <<connected, attempts, timer, icon>>
sockets == <<sock, ws>>
requests == <<req, request>>
connVars == <<prot, up, object, sockets, requests>>

NoSockets == [s \in Sockets |-> "closed"]
NoRequests == [r \in Requests |-> "none"]

\* A new web socket, which opens soon or hangs.
Opening(s, f) == [f EXCEPT ![s] = IF up THEN "opening" ELSE "hanging"]

ConnInit ==
    /\ up \in BOOLEAN
    /\ connected = FALSE /\ attempts = Attempts /\ icon = "none"
    /\ ws \in Sockets
    /\ req = NoRequests /\ request = None
    /\ \/ prot = "ws" /\ timer = "error" /\ sock = Opening(ws, NoSockets)
       \/ prot = "http" /\ timer = "getStatus" /\ sock = NoSockets

-------------------------------------------------------------------------------
(* WSocket *)

\* Variant of Start for the checks: no timer watches the new socket.
StartUnwatched(s) ==
    /\ sock[s] = "closed"
    /\ sock' = Opening(s, sock) /\ ws' = s
    /\ timer' = "off" /\ icon' = "none"
    /\ UNCHANGED <<connected, attempts>>

\* WSocket.start: a new socket takes the place of the old one, which is not closed.
Start(s) ==
    /\ sock[s] = "closed"
    /\ sock' = Opening(s, sock) /\ ws' = s
    /\ timer' = "error" /\ icon' = "none"
    /\ UNCHANGED <<connected, attempts>>

\* Variant of Error for the checks: it counts the wrong way.
ErrorCountsUp(n) ==
    /\ attempts' = attempts + n
    /\ timer' = IF attempts - n >= 0 THEN "start" ELSE "off"
    /\ connected' = FALSE /\ icon' = "error"

\* WSocket.error, called n times: a retry after the delay while attempts are left.
\* It ends in stop in every case.
Error(n) ==
    /\ attempts' = attempts - n
    /\ timer' = IF attempts - n >= 0 THEN "start" ELSE "off"
    /\ connected' = FALSE /\ icon' = "error"

\* The timer of a retry fires.
Retry ==
    /\ prot = "ws" /\ timer = "start"
    /\ \E s \in Sockets : Start(s)
    /\ UNCHANGED <<prot, up, requests>>

\* The timer of start fires: the socket that is not open yet is left as it is.
TimeOut ==
    /\ prot = "ws" /\ timer = "error" /\ sock[ws] = "hanging"
    /\ Error(1)
    /\ UNCHANGED <<prot, up, sockets, requests>>

\* onopen, of whichever socket: it stops the timer, also another socket's.
OnOpen(s) ==
    /\ sock[s] \in {"opening", "hanging"} /\ up
    /\ sock' = [sock EXCEPT ![s] = "open"]
    /\ timer' = "off" /\ connected' = TRUE /\ attempts' = Attempts
    /\ icon' = "connected"
    /\ UNCHANGED <<prot, up, ws, requests>>

\* onclose, after onerror or alone: a connection is refused or breaks.
OnClose(s) ==
    /\ \/ sock[s] = "hanging"
       \/ sock[s] \in {"opening", "open"} /\ ~up
    /\ sock' = [sock EXCEPT ![s] = "closed"]
    /\ \E n \in {1, 2} : Error(n)
    /\ UNCHANGED <<prot, up, ws, requests>>

-------------------------------------------------------------------------------
(* AJAX *)

\* Variant of Send for the checks: it does not tell that it connects again.
SendSilently(r, what) ==
    /\ req[r] = "none"
    /\ req' = [req EXCEPT ![r] = what] /\ request' = r
    /\ UNCHANGED <<prot, up, connected, attempts, icon, sockets>>

\* AJAX.send
Send(r, what) ==
    /\ req[r] = "none"
    /\ req' = [req EXCEPT ![r] = what] /\ request' = r
    /\ icon' = IF connected THEN icon ELSE "none"
    /\ UNCHANGED <<prot, up, connected, attempts, sockets>>

\* AJAX.getStatus, when the timer fires.
GetStatus ==
    /\ prot = "http" /\ timer = "getStatus" /\ timer' = "off"
    /\ \E r \in Requests : Send(r, "status")

\* A command of the page.  One request is left for the polls (bound).
Command ==
    /\ prot = "http" /\ attempts > Lowest
    /\ Cardinality({r \in Requests : req[r] = "none"}) > 1
    /\ \E r \in Requests : Send(r, "command")
    /\ UNCHANGED timer

\* Variant of HandleStatus for the checks: it does not take a status for a sign of
\* the connection.
HandleStatusOnly(r) ==
    /\ req[r] = "status" /\ up
    /\ req' = [req EXCEPT ![r] = "none"] /\ timer' = "getStatus"
    /\ UNCHANGED <<prot, up, connected, attempts, icon, request, sockets>>

\* AJAX.handleStatus
HandleStatus(r) ==
    /\ req[r] = "status" /\ up
    /\ req' = [req EXCEPT ![r] = "none"]
    /\ timer' = "getStatus" /\ connected' = TRUE
    /\ attempts' = IF connected THEN attempts ELSE Attempts
    /\ icon' = IF connected THEN icon ELSE "connected"
    /\ UNCHANGED <<prot, up, request, sockets>>

\* The answer to a command goes to the page.
Answered(r) ==
    /\ req[r] = "command" /\ up
    /\ req' = [req EXCEPT ![r] = "none"]
    /\ UNCHANGED <<prot, up, object, request, sockets>>

\* AJAX.error, for a poll or a command: a retry while attempts are left, or stop,
\* which aborts the last request.
Failed(r) ==
    /\ req[r] # "none" /\ ~up
    /\ attempts' = attempts - 1 /\ connected' = FALSE
    /\ \/ /\ attempts > 0
          /\ timer' = "getStatus" /\ req' = [req EXCEPT ![r] = "none"]
          /\ UNCHANGED icon
       \/ /\ attempts <= 0
          /\ timer' = "off" /\ icon' = "error"
          /\ req' = [q \in Requests |-> IF q \in {r, request} THEN "none" ELSE req[q]]
    /\ UNCHANGED <<prot, up, request, sockets>>

-------------------------------------------------------------------------------
\* The relay, or the network before it, goes down and comes back.
GoDown ==
    /\ up /\ up' = FALSE
    /\ sock' = [s \in Sockets |-> IF sock[s] = "opening" THEN "hanging" ELSE sock[s]]
    /\ UNCHANGED <<prot, object, ws, requests>>

ComeBack == ~up /\ up' = TRUE /\ UNCHANGED <<prot, object, sockets, requests>>

ConnNext ==
    \/ Retry \/ TimeOut \/ GetStatus \/ Command \/ GoDown \/ ComeBack
    \/ \E s \in Sockets : OnOpen(s) \/ OnClose(s)
    \/ \E r \in Requests : HandleStatus(r) \/ Answered(r) \/ Failed(r)

ConnSpec == ConnInit /\ [][ConnNext]_connVars

\* Timers fire, and what was begun ends in one way or the other.
ConnFairness ==
    /\ WF_connVars(Retry) /\ WF_connVars(TimeOut) /\ WF_connVars(GetStatus)
    /\ \A s \in Sockets : WF_connVars(OnOpen(s) \/ OnClose(s))
    /\ \A r \in Requests : WF_connVars(HandleStatus(r) \/ Answered(r) \/ Failed(r))

ConnFairSpec == ConnSpec /\ ConnFairness

-------------------------------------------------------------------------------
\* The fields have their types.
ConnTypeOK ==
    /\ prot \in {"ws", "http"} /\ up \in BOOLEAN /\ connected \in BOOLEAN
    /\ attempts \in Int /\ attempts <= Attempts
    /\ timer \in {"error", "start", "getStatus", "off"}
    /\ icon \in {"none", "error", "connected"}
    /\ sock \in [Sockets -> {"opening", "hanging", "open", "closed"}] /\ ws \in Sockets
    /\ req \in [Requests -> {"none", "status", "command"}]
    /\ request \in Requests \cup {None}

\* Whatever order sockets, timers and answers of old attempts come in, a page that
\* has not used up its attempts has something that goes on: a timer, a poll under
\* way, or a socket that is open when it says it is connected.
NeverStranded ==
    /\ prot = "ws" =>
         /\ connected => \E s \in Sockets : sock[s] = "open"
         /\ ~connected => timer # "off" \/ attempts < 0
    /\ prot = "http" =>
         timer # "off" \/ attempts < 0 \/ \E r \in Requests : req[r] = "status"

\* The indicator shows a connection when there is one, and when there is none only
\* until AJAX polls again.
IndicatorAgrees ==
    /\ connected => icon = "connected"
    /\ icon = "connected" => connected \/ (prot = "http" /\ timer = "getStatus")

\* When the relay stays up, the page ends up connected, unless it has used up its
\* attempts.
Reconnects == <>[]up => <>[](connected \/ attempts < 0)
===============================================================================
