------------------------ MODULE ClientConnectionProofs ------------------------
(***************************************************************************)
(* Proofs about ClientConnection, for any number of sockets and requests   *)
(* and any number of attempts.  The three invariants are inductive         *)
(* together with ObjectsApart: only one of the objects is in use, and a    *)
(* page that waits for its web socket, or for the time to try again, does  *)
(* not take itself for connected.                                          *)
(***************************************************************************)
EXTENDS ClientConnection, TLAPS

\* An object that is not in use has no timer, socket or request, and WSocket has no
\* timer while it is connected.
ObjectsApart ==
    /\ prot = "ws" => timer \in {"error", "start", "off"}
    /\ prot = "ws" /\ connected => timer = "off"
    /\ prot = "ws" => \A r \in Requests : req[r] = "none"
    /\ prot = "http" => timer \in {"getStatus", "off"}
    /\ prot = "http" => \A s \in Sockets : sock[s] = "closed"

IInv == ConnTypeOK /\ ObjectsApart /\ NeverStranded /\ IndicatorAgrees

USE ConnectionAssumption

\* A new socket leaves the others as they are.
LEMMA OpeningType ==
    ASSUME NEW f \in [Sockets -> {"opening", "hanging", "open", "closed"}], NEW s \in Sockets
    PROVE  /\ Opening(s, f) \in [Sockets -> {"opening", "hanging", "open", "closed"}]
           /\ \A q \in Sockets : q # s => Opening(s, f)[q] = f[q]
BY DEF Opening

\* The invariant holds when the page has started to connect.
LEMMA InitInv == ConnInit => IInv
<1> SUFFICES ASSUME ConnInit PROVE IInv
    OBVIOUS
<1>1. ConnTypeOK
    <2>1. NoSockets \in [Sockets -> {"opening", "hanging", "open", "closed"}]
        BY DEF NoSockets
    <2>2. /\ prot \in {"ws", "http"} /\ ws \in Sockets
          /\ timer \in {"error", "start", "getStatus", "off"}
          /\ sock \in [Sockets -> {"opening", "hanging", "open", "closed"}]
        BY <2>1, OpeningType DEF ConnInit
    <2>3. req \in [Requests -> {"none", "status", "command"}] /\ request \in Requests \cup {None}
        BY DEF ConnInit, NoRequests
    <2>4. attempts \in Int /\ attempts <= Attempts /\ icon = "none"
        BY DEF ConnInit
    <2>5. up \in BOOLEAN /\ connected \in BOOLEAN
        BY DEF ConnInit
    <2> QED BY <2>2, <2>3, <2>4, <2>5 DEF ConnTypeOK
<1>2. ObjectsApart
    BY DEF ConnInit, ObjectsApart, NoSockets, NoRequests
<1>3. NeverStranded
    BY DEF ConnInit, NeverStranded
<1>4. IndicatorAgrees
    BY DEF ConnInit, IndicatorAgrees
<1> QED BY <1>1, <1>2, <1>3, <1>4 DEF IInv

\* WSocket.error retries, or its attempts are used up.
LEMMA ErrorStep ==
    ASSUME ConnTypeOK, NEW n \in {1, 2}, Error(n)
    PROVE  /\ attempts' \in Int /\ attempts' <= Attempts
           /\ ~connected' /\ connected' \in BOOLEAN /\ icon' = "error"
           /\ timer' \in {"start", "off"}
           /\ timer' = "off" => attempts' < 0
<1>1. connected' \in BOOLEAN /\ ~connected' /\ icon' = "error"
    BY DEF Error
<1>2. /\ attempts \in Int /\ attempts <= Attempts /\ attempts' = attempts - n
      /\ timer' = IF attempts - n >= 0 THEN "start" ELSE "off"
    BY DEF Error, ConnTypeOK
<1> QED BY <1>1, <1>2

\* What WSocket does: a try, a timeout, a socket that opens or closes.
LEMMA SocketStep ==
    ASSUME IInv,
           \/ Retry \/ TimeOut
           \/ \E s \in Sockets : OnOpen(s) \/ OnClose(s)
    PROVE  IInv'
<1> USE DEF IInv, ObjectsApart, object, sockets, requests
<1>1. CASE Retry
    <2>1. PICK s \in Sockets : Start(s)
        BY <1>1 DEF Retry
    <2>2. /\ prot = "ws" /\ prot' = "ws" /\ timer = "start" /\ timer' = "error" /\ icon' = "none"
          /\ up' = up /\ connected' = connected /\ attempts' = attempts
          /\ sock' = Opening(s, sock) /\ ws' = s /\ req' = req /\ request' = request
        BY <1>1, <2>1 DEF Retry, Start
    <2>3. sock' \in [Sockets -> {"opening", "hanging", "open", "closed"}]
        BY <2>2, OpeningType DEF ConnTypeOK
    <2>4. ConnTypeOK'
        BY <2>2, <2>3 DEF ConnTypeOK
    <2>5. ~connected
        BY <2>2
    <2> QED BY <2>2, <2>4, <2>5 DEF NeverStranded, IndicatorAgrees
<1>2. CASE TimeOut
    <2> USE DEF TimeOut
    <2>1. /\ attempts' \in Int /\ attempts' <= Attempts
          /\ ~connected' /\ connected' \in BOOLEAN /\ icon' = "error"
          /\ timer' \in {"start", "off"} /\ (timer' = "off" => attempts' < 0)
        BY <1>2, ErrorStep
    <2>2. prot' = prot /\ up' = up /\ sock' = sock /\ ws' = ws /\ req' = req /\ request' = request /\ prot = "ws"
        BY <1>2
    <2>3. ConnTypeOK'
        BY <2>1, <2>2 DEF ConnTypeOK
    <2> QED BY <2>1, <2>2, <2>3 DEF NeverStranded, IndicatorAgrees
<1>3. ASSUME NEW s \in Sockets, OnOpen(s) PROVE IInv'
    <2> USE DEF OnOpen
    <2>1. ConnTypeOK'
        BY <1>3 DEF ConnTypeOK
    <2>2. prot = "ws"
        BY <1>3 DEF ConnTypeOK
    <2>3. /\ sock'[s] = "open" /\ prot' = "ws" /\ connected' /\ timer' = "off"
          /\ icon' = "connected" /\ req' = req
        BY <1>3, <2>2 DEF ConnTypeOK
    <2> QED BY <2>1, <2>2, <2>3 DEF NeverStranded, IndicatorAgrees
<1>4. ASSUME NEW s \in Sockets, OnClose(s) PROVE IInv'
    <2> USE DEF OnClose
    <2>1. PICK n \in {1, 2} : Error(n)
        BY <1>4
    <2>2. /\ attempts' \in Int /\ attempts' <= Attempts
          /\ ~connected' /\ connected' \in BOOLEAN /\ icon' = "error"
          /\ timer' \in {"start", "off"} /\ (timer' = "off" => attempts' < 0)
        BY <2>1, ErrorStep
    <2>3. /\ prot' = prot /\ up' = up /\ ws' = ws /\ req' = req /\ request' = request
          /\ sock' = [sock EXCEPT ![s] = "closed"] /\ sock[s] # "closed"
        BY <1>4
    <2>4. ConnTypeOK'
        BY <2>2, <2>3 DEF ConnTypeOK
    <2>5. prot = "ws"
        BY <2>3 DEF ConnTypeOK
    <2> QED BY <2>2, <2>3, <2>4, <2>5 DEF NeverStranded, IndicatorAgrees
<1> QED BY <1>1, <1>2, <1>3, <1>4

\* A request that is sent leaves the others under way.
LEMMA SendStep ==
    ASSUME ConnTypeOK, NEW r \in Requests, NEW what \in {"status", "command"}, Send(r, what)
    PROVE  /\ req' \in [Requests -> {"none", "status", "command"}] /\ request' \in Requests
           /\ req'[r] = what
           /\ \A q \in Requests : req[q] = "status" => q = r \/ req'[q] = "status"
           /\ req[r] = "none"
           /\ icon' = IF connected THEN icon ELSE "none"
           /\ UNCHANGED <<prot, up, connected, attempts, sock, ws>>
BY DEF ConnTypeOK, Send, sockets

\* What AJAX does: polls, commands, answers and failures.
LEMMA RequestStep ==
    ASSUME IInv,
           \/ GetStatus \/ Command
           \/ \E r \in Requests : HandleStatus(r) \/ Answered(r) \/ Failed(r)
    PROVE  IInv'
<1> USE DEF IInv, ObjectsApart, object, sockets, requests
<1>1. CASE GetStatus
    <2>1. PICK r \in Requests : Send(r, "status")
        BY <1>1 DEF GetStatus
    <2>2. prot = "http" /\ timer = "getStatus" /\ timer' = "off"
        BY <1>1 DEF GetStatus
    <2>3. /\ req' \in [Requests -> {"none", "status", "command"}] /\ request' \in Requests
          /\ req'[r] = "status" /\ icon' = IF connected THEN icon ELSE "none"
          /\ UNCHANGED <<prot, up, connected, attempts, sock, ws>>
        BY <2>1, SendStep
    <2>4. ConnTypeOK'
        BY <2>2, <2>3 DEF ConnTypeOK
    <2> QED BY <2>2, <2>3, <2>4 DEF NeverStranded, IndicatorAgrees
<1>2. CASE Command
    <2>1. PICK r \in Requests : Send(r, "command")
        BY <1>2 DEF Command
    <2>2. prot = "http" /\ timer' = timer
        BY <1>2 DEF Command
    <2>3. /\ req' \in [Requests -> {"none", "status", "command"}] /\ request' \in Requests
          /\ \A q \in Requests : req[q] = "status" => req'[q] = "status"
          /\ icon' = IF connected THEN icon ELSE "none"
          /\ UNCHANGED <<prot, up, connected, attempts, sock, ws>>
        BY <2>1, SendStep
    <2>4. ConnTypeOK'
        BY <2>2, <2>3 DEF ConnTypeOK
    <2> QED BY <2>2, <2>3, <2>4 DEF NeverStranded, IndicatorAgrees
<1>3. ASSUME NEW r \in Requests, HandleStatus(r) PROVE IInv'
    <2>1. prot = "http" /\ prot' = "http"
        BY <1>3 DEF HandleStatus, ConnTypeOK
    <2>2. /\ req' \in [Requests -> {"none", "status", "command"}]
          /\ timer' = "getStatus" /\ connected' = TRUE /\ up' = up /\ request' = request
          /\ sock' = sock /\ ws' = ws
        BY <1>3 DEF HandleStatus, ConnTypeOK
    <2>3. attempts' \in Int /\ attempts' <= Attempts
        BY <1>3 DEF HandleStatus, ConnTypeOK
    <2>4. icon' = "connected"
        BY <1>3 DEF HandleStatus, IndicatorAgrees
    <2>5. ConnTypeOK'
        BY <2>1, <2>2, <2>3, <2>4 DEF ConnTypeOK
    <2> QED BY <2>1, <2>2, <2>4, <2>5 DEF NeverStranded, IndicatorAgrees
<1>4. ASSUME NEW r \in Requests, Answered(r) PROVE IInv'
    <2>1. /\ prot = "http" /\ req[r] = "command" /\ req' = [req EXCEPT ![r] = "none"]
          /\ UNCHANGED <<prot, up, connected, attempts, timer, icon, request, sock, ws>>
        BY <1>4 DEF Answered, ConnTypeOK
    <2>2. ConnTypeOK'
        BY <2>1 DEF ConnTypeOK
    <2>3. \A q \in Requests : req[q] = "status" => req'[q] = "status"
        BY <2>1 DEF ConnTypeOK
    <2> QED BY <2>1, <2>2, <2>3 DEF NeverStranded, IndicatorAgrees
<1>5. ASSUME NEW r \in Requests, Failed(r) PROVE IInv'
    <2>1. /\ prot = "http" /\ attempts' = attempts - 1 /\ connected' = FALSE
          /\ UNCHANGED <<prot, up, request, sock, ws>>
        BY <1>5 DEF Failed, ConnTypeOK
    <2>2. req' \in [Requests -> {"none", "status", "command"}]
        BY <1>5 DEF Failed, ConnTypeOK
    <2>3. attempts' \in Int /\ attempts' <= Attempts
        BY <2>1 DEF ConnTypeOK
    <2>4. \/ timer' = "getStatus" /\ icon' = icon
          \/ timer' = "off" /\ icon' = "error" /\ attempts <= 0
        BY <1>5 DEF Failed
    <2>5. timer' = "off" => attempts' < 0
        BY <2>1, <2>4 DEF ConnTypeOK
    <2>6. ConnTypeOK'
        BY <2>1, <2>2, <2>3, <2>4 DEF ConnTypeOK
    <2> QED BY <2>1, <2>4, <2>5, <2>6 DEF NeverStranded, IndicatorAgrees
<1> QED BY <1>1, <1>2, <1>3, <1>4, <1>5

\* The network takes no socket from the page that is open: the page has to notice.
LEMMA NetworkStep ==
    ASSUME IInv, GoDown \/ ComeBack
    PROVE  IInv'
<1> USE DEF IInv, ObjectsApart, object, sockets, requests
<1>1. CASE GoDown
    <2>1. /\ sock' = [s \in Sockets |-> IF sock[s] = "opening" THEN "hanging" ELSE sock[s]]
          /\ UNCHANGED <<prot, connected, attempts, timer, icon, ws, req, request>>
          /\ up' = FALSE
        BY <1>1 DEF GoDown
    <2>2. /\ sock' \in [Sockets -> {"opening", "hanging", "open", "closed"}]
          /\ \A s \in Sockets : sock[s] \in {"open", "closed"} => sock'[s] = sock[s]
        BY <2>1 DEF ConnTypeOK
    <2>3. ConnTypeOK'
        BY <2>1, <2>2 DEF ConnTypeOK
    <2> QED BY <2>1, <2>2, <2>3 DEF NeverStranded, IndicatorAgrees
<1>2. CASE ComeBack
    <2>1. /\ UNCHANGED <<prot, connected, attempts, timer, icon, sock, ws, req, request>>
          /\ up' = TRUE
        BY <1>2 DEF ComeBack
    <2>2. ConnTypeOK'
        BY <2>1 DEF ConnTypeOK
    <2> QED BY <2>1, <2>2 DEF NeverStranded, IndicatorAgrees
<1> QED BY <1>1, <1>2

\* Every step keeps the invariant.
LEMMA StepKeeps == IInv /\ [ConnNext]_connVars => IInv'
<1> SUFFICES ASSUME IInv, [ConnNext]_connVars PROVE IInv'
    OBVIOUS
<1>1. CASE ConnNext
    BY <1>1, SocketStep, RequestStep, NetworkStep DEF ConnNext
<1>2. CASE UNCHANGED connVars
    BY <1>2 DEF connVars, object, sockets, requests, IInv, ObjectsApart,
                ConnTypeOK, NeverStranded, IndicatorAgrees
<1> QED BY <1>1, <1>2

LEMMA Invariance == ConnSpec => []IInv
    BY InitInv, StepKeeps, PTL DEF ConnSpec

\* The fields of the connection objects have their types, for any bound on attempts.
THEOREM ConnTypeCorrect == ConnSpec => []ConnTypeOK
<1>1. IInv => ConnTypeOK
    BY DEF IInv
<1> QED BY <1>1, Invariance, PTL

\* However sockets, answers and timers of old attempts come in, WSocket and AJAX go on
\* until their attempts are used up.
THEOREM GoesOn == ConnSpec => []NeverStranded
<1>1. IInv => NeverStranded
    BY DEF IInv
<1> QED BY <1>1, Invariance, PTL

\* The ConnectionIndicator shows a connection exactly when the object has one, but for
\* AJAX between a failure and its next poll.
THEOREM IndicatorShowsConnection == ConnSpec => []IndicatorAgrees
<1>1. IInv => IndicatorAgrees
    BY DEF IInv
<1> QED BY <1>1, Invariance, PTL

===============================================================================
