---------------------------------- MODULE Relay ---------------------------------
(***************************************************************************)
(* The relay (api_server.py) between web clients and the dogs of one user, *)
(* with the other end of its connections (dog.py).  The I/O loop calls one *)
(* handler after the other, so that a handler is one step.  A dog connects *)
(* once in its life; what is on its way is lost with its connection.       *)
(*                                                                         *)
(* From tornado the model takes that writing to a closed stream raises     *)
(* IOError, and that a stream that nobody reads from keeps its data.       *)
(***************************************************************************)
EXTENDS Naturals, Sequences, Functions

CONSTANTS
    Conns,      \* connections of dogs
    Pages,      \* HTTP requests
    Sockets,    \* web sockets
    None,       \* no dog
    MaxSent     \* bound: commands of one web socket

ASSUME RelayAssumption ==
    /\ Pages \cap Sockets = {}
    /\ None \notin Conns
    /\ MaxSent \in Nat

VARIABLES
    dogs,       \* dogs[username]: the registered connection
    dog,        \* of each connection, the Dog: stream, reading, active_handlers
    process,    \* of each connection, the process behind it: the commands that
                \* it has not read, its threads, what it has written, whether it
                \* still reads
    nbr,        \* the last number that was assigned
    numbers,    \* the number of each client's handler
    client,     \* the state of each client
    sent,       \* how many commands of each client were written
    ran,        \* history: the commands that were run, one after the other
    got         \* history: who got the answers of which commands

clients == <<nbr, numbers, client, sent, got>>
vars == <<dogs, dog, process, ran, clients>>

Clients == Pages \cup Sockets

\* A command as it is on its way.  A push has the number 0, which no client has.
Push == [nbr |-> 0]
Message(c, n, k) == [nbr |-> n, command |-> <<c, k>>]
Messages == [nbr : Nat \ {0}, command : Clients \X Nat]

\* A connection that is closed, and a Dog that nobody can reach any more.
Closed == [stream |-> "closed", reading |-> FALSE, handlers |-> {}]
Ended == [wire |-> <<>>, threads |-> {}, back |-> <<>>, listening |-> FALSE]

Init ==
    /\ dogs = None
    /\ dog = [d \in Conns |-> [stream |-> "new", reading |-> FALSE, handlers |-> {}]]
    /\ process = [d \in Conns |-> Ended]
    /\ nbr = 0
    /\ numbers = [c \in Clients |-> 0]
    /\ client = [c \in Clients |-> "new"]
    /\ sent = [c \in Clients |-> 0]
    /\ ran = <<>> /\ got = {}

-------------------------------------------------------------------------------
(* Dogs. *)

\* Variant of Disconnected for the checks: the web sockets stay open.
DisconnectedNobody(d, states) == states

\* handler.disconnect() of all handlers: an HTTP client is left to its timeout.
Disconnected(d, states) ==
    [c \in Clients |-> IF c \in dog[d].handlers \cap Sockets THEN "gone" ELSE states[c]]

\* connection_ready.  The first thing it reads is the username.
Accept(d) ==
    /\ dog[d].stream = "new"
    /\ dog' = [dog EXCEPT ![d].stream = "accepted"]
    /\ process' = [process EXCEPT ![d].listening = TRUE]
    /\ UNCHANGED <<dogs, ran, clients>>

\* Variant of SetUsername for the checks: the other dog is only replaced.
SetUsernameOnly(d) ==
    /\ dog[d].stream = "accepted"
    /\ dogs' = d
    /\ dog' = [dog EXCEPT ![d].stream = "open"]
    /\ UNCHANGED <<process, ran, clients>>

\* A dog with the same name is destroyed.
SetUsername(d) ==
    /\ dog[d].stream = "accepted"
    /\ dogs' = d
    /\ dog' = [x \in Conns |-> CASE x = d -> [dog[x] EXCEPT !.stream = "open"]
                                 [] x = dogs -> Closed
                                 [] OTHER -> dog[x]]
    /\ process' = [x \in Conns |-> IF x = dogs THEN Ended ELSE process[x]]
    /\ client' = IF dogs = None THEN client ELSE Disconnected(dogs, client)
    /\ UNCHANGED <<nbr, numbers, sent, ran, got>>

\* The connection breaks: nobody is told, the dog stays registered.
Lose(d) ==
    /\ dog[d].stream \in {"accepted", "open"}
    /\ dog' = [dog EXCEPT ![d].stream = "closed"]
    /\ process' = [process EXCEPT ![d] = Ended]
    /\ UNCHANGED <<dogs, ran, clients>>

\* A command of c is written, and what the dog sends is read.
Written(d, c, number, handlers, states) ==
    /\ dog[d].stream = "open"
    /\ dog' = [dog EXCEPT ![d] = [stream |-> "open", reading |-> TRUE, handlers |-> handlers]]
    /\ process' = [process EXCEPT ![d].wire = Append(@, Message(c, number, sent[c] + 1))]
    /\ sent' = [sent EXCEPT ![c] = @ + 1]
    /\ client' = states
    /\ UNCHANGED dogs

\* Dog.destroy after a command that could not be written: the stream is closed, or
\* the text of the command has no encoding, and then a dog that is alive is cut off.
Destroyed(d, states) ==
    /\ dog' = [dog EXCEPT ![d] = Closed]
    /\ process' = [process EXCEPT ![d] = Ended]
    /\ dogs' = None
    /\ client' = Disconnected(d, states)
    /\ UNCHANGED sent

\* Dog.send_command for the handler of c, its number, all handlers of the dog and
\* the states of clients.
SendCommand(d, c, number, handlers, states) ==
    Written(d, c, number, handlers, states) \/ Destroyed(d, states)

-------------------------------------------------------------------------------
(* Clients. *)

\* Variant of AssignNbr for the checks: the first client gets the number of a push.
AssignNbrAfter == nbr

\* assign_nbr
AssignNbr == nbr + 1

\* HTTPHandler.get and WSHandler.open without a dog: one is never answered, the
\* other closed.
FindNoDog(c) ==
    /\ client[c] = "new"
    /\ dogs = None
    /\ client' = [client EXCEPT ![c] = IF c \in Pages THEN "ignored" ELSE "gone"]
    /\ IF c \in Pages THEN UNCHANGED <<nbr, numbers>>
       ELSE nbr' = AssignNbr /\ numbers' = [numbers EXCEPT ![c] = AssignNbr]
    /\ UNCHANGED <<dogs, dog, process, ran, sent, got>>

\* A new client finds the dog and gets a number.
Find(c) ==
    /\ client[c] = "new"
    /\ dogs # None
    /\ nbr' = AssignNbr
    /\ numbers' = [numbers EXCEPT ![c] = AssignNbr]

\* HTTPHandler.get of a command
Get(h) ==
    /\ Find(h)
    /\ SendCommand(dogs, h, AssignNbr, dog[dogs].handlers \cup {h},
                   [client EXCEPT ![h] = "waiting"])
    /\ UNCHANGED <<ran, got>>

\* HTTPHandler.get of an album's picture, which the relay looks up itself
GetAlbumArt(h) ==
    /\ Find(h)
    /\ dog' = [dog EXCEPT ![dogs].handlers = @ \cup {h}]
    /\ client' = [client EXCEPT ![h] = "fetching"]
    /\ UNCHANGED <<dogs, process, ran, sent, got>>

\* albumart_callback
ArtFetched(h) ==
    /\ client[h] = "fetching"
    /\ client' = [client EXCEPT ![h] = "done"]
    /\ UNCHANGED <<dogs, dog, process, ran, nbr, numbers, sent, got>>

\* WSHandler.open
Open(w) ==
    /\ Find(w)
    /\ dog' = [dog EXCEPT ![dogs].handlers = @ \cup {w}]
    /\ client' = [client EXCEPT ![w] = "open"]
    /\ UNCHANGED <<dogs, process, ran, sent, got>>

\* WSHandler.on_message
OnMessage(w) ==
    /\ client[w] = "open"
    /\ sent[w] < MaxSent
    /\ dogs # None
    /\ SendCommand(dogs, w, numbers[w], dog[dogs].handlers, client)
    /\ UNCHANGED <<nbr, numbers, ran, got>>

\* A client closes its connection.  Its handler stays where it is.
Leave(c) ==
    /\ client[c] \in {"ignored", "waiting", "fetching", "open"}
    /\ client' = [client EXCEPT ![c] = "gone"]
    /\ UNCHANGED <<dogs, dog, process, ran, nbr, numbers, sent, got>>

-------------------------------------------------------------------------------
(* Answers. *)

\* Variant of Active for the checks: only web sockets.
ActiveSockets(c) == c \in Sockets /\ client[c] # "done"

\* A handler is active until it has finished its answer; a web socket never
\* finishes, nor does the request of a client that has gone.
Active(c) == client[c] # "done"

\* send_result to those that the message is for, of whom some may be gone.
Receivers(d, m) ==
    {c \in dog[d].handlers : /\ Active(c)
                             /\ m.nbr = numbers[c] \/ (c \in Sockets /\ m = Push)
                             /\ client[c] \in {"waiting", "open"}}

\* Variant of CommandCallback for the checks: it does not go on reading.
CommandCallbackOnce(d) ==
    /\ dog[d].stream = "open" /\ dog[d].reading
    /\ process[d].back # <<>>
    /\ LET m == Head(process[d].back)
           receivers == Receivers(d, m)
       IN /\ client' = [c \in Clients |-> IF c \in receivers \cap Pages THEN "done" ELSE client[c]]
          /\ got' = IF m = Push THEN got ELSE got \cup (receivers \X {m.command})
    /\ dog' = [dog EXCEPT ![d].handlers = {c \in @ : Active(c)}, ![d].reading = FALSE]
    /\ process' = [process EXCEPT ![d].back = Tail(@)]
    /\ UNCHANGED <<dogs, nbr, numbers, sent, ran>>

\* Dog.command_callback: an answer goes to the handler with its number, a push to
\* all web sockets.
CommandCallback(d) ==
    /\ dog[d].stream = "open" /\ dog[d].reading
    /\ process[d].back # <<>>
    /\ LET m == Head(process[d].back)
           receivers == Receivers(d, m)
       IN /\ client' = [c \in Clients |-> IF c \in receivers \cap Pages THEN "done" ELSE client[c]]
          /\ got' = IF m = Push THEN got ELSE got \cup (receivers \X {m.command})
    /\ dog' = [dog EXCEPT ![d].handlers = {c \in @ : Active(c)}]
    /\ process' = [process EXCEPT ![d].back = Tail(@)]
    /\ UNCHANGED <<dogs, nbr, numbers, sent, ran>>

-------------------------------------------------------------------------------
(* The process at the other end (dog.py). *)

\* Variant of OnData for the checks: a command that was left to a thread is read again.
OnDataAgain(d, answers, pushes, threaded, listening) ==
    /\ process[d].listening
    /\ process[d].wire # <<>>
    /\ LET m == Head(process[d].wire)
       IN /\ process' = [process EXCEPT
                ![d] = [wire |-> IF threaded THEN @.wire ELSE Tail(@.wire),
                        threads |-> IF threaded THEN @.threads \cup {m} ELSE @.threads,
                        back |-> @.back \o [i \in 1 .. answers |-> m]
                                        \o [i \in 1 .. pushes |-> Push],
                        listening |-> listening]]
          /\ ran' = Append(ran, m.command)
    /\ UNCHANGED <<dogs, dog, clients>>

\* on_data runs the first command, which writes answers and then pushes, or leaves
\* the answer to a thread; it reads on unless an exception went through.
OnData(d, answers, pushes, threaded, listening) ==
    /\ process[d].listening
    /\ process[d].wire # <<>>
    /\ LET m == Head(process[d].wire)
       IN /\ process' = [process EXCEPT
                ![d] = [wire |-> Tail(@.wire),
                        threads |-> IF threaded THEN @.threads \cup {m} ELSE @.threads,
                        back |-> @.back \o [i \in 1 .. answers |-> m]
                                        \o [i \in 1 .. pushes |-> Push],
                        listening |-> listening]]
          /\ ran' = Append(ran, m.command)
    /\ UNCHANGED <<dogs, dog, clients>>

\* removeTrack and seek may answer twice.  What request.push and push_status write
\* counts as one push.
RunCommand(d) == \E answers \in 1 .. 2, pushes \in 0 .. 1 : OnData(d, answers, pushes, FALSE, TRUE)

\* A search, an album or album art.
StartThread(d) == \E pushes \in 0 .. 1 : OnData(d, 0, pushes, TRUE, TRUE)

\* run_command and push_status let all but four kinds of exceptions through.
Raise(d) == \E answers \in 0 .. 1 : OnData(d, answers, 0, FALSE, FALSE)

\* A thread answers, or dies of an exception.
FinishThread(d) ==
    \E m \in process[d].threads, answered \in BOOLEAN :
        /\ process' = [process EXCEPT ![d].threads = @ \ {m},
                                      ![d].back = IF answered THEN Append(@, m) ELSE @]
        /\ UNCHANGED <<dogs, dog, ran, clients>>

-------------------------------------------------------------------------------
DogStep(d) ==
    \/ Accept(d) \/ SetUsername(d) \/ Lose(d) \/ CommandCallback(d)
    \/ RunCommand(d) \/ StartThread(d) \/ Raise(d) \/ FinishThread(d)

ClientStep ==
    \/ \E h \in Pages : Get(h) \/ GetAlbumArt(h) \/ ArtFetched(h)
    \/ \E w \in Sockets : Open(w) \/ OnMessage(w)
    \/ \E c \in Clients : FindNoDog(c) \/ Leave(c)

Next == ClientStep \/ \E d \in Conns : DogStep(d)

Spec == Init /\ [][Next]_vars

\* The I/O loop of the relay handles what has arrived.  Nothing else need happen.
FairSpec == Spec /\ \A d \in Conns : WF_vars(CommandCallback(d))

-------------------------------------------------------------------------------
\* The tables and streams hold what they are for; who waits for an answer or is
\* served has a number that was assigned.
RelayTypeOK ==
    /\ dogs \in Conns \cup {None}
    /\ dog \in [Conns -> [stream : {"new", "accepted", "open", "closed"},
                          reading : BOOLEAN,
                          handlers : SUBSET Clients]]
    /\ process \in [Conns -> [wire : Seq(Messages), threads : SUBSET Messages,
                              back : Seq(Messages \cup {Push}),
                              listening : BOOLEAN]]
    /\ nbr \in Nat
    /\ numbers \in [Clients -> 0 .. nbr]
    /\ client \in [Clients -> {"new", "ignored", "waiting", "fetching", "done", "open", "gone"}]
    /\ sent \in [Clients -> Nat]
    /\ \A c \in Clients : client[c] \in {"waiting", "open"} => numbers[c] # 0

\* At most one dog of a user is connected and named, and it is the registered one:
\* one that was replaced is cut off before its commands and answers can mix.
OneDog == \A d \in Conns : dog[d].stream = "open" => dogs = d

\* A web socket that is open is listed by the dog that its commands go to: when a
\* dog is replaced or destroyed, none stays behind with a dog that is gone.
SocketsServed ==
    \A w \in Sockets : client[w] = "open" => dogs # None /\ w \in dog[dogs].handlers

\* While a request is on its way its handler stays listed by the dog that has the
\* request, whatever cleaning up other answers do.
WaitersListed ==
    \A d \in Conns, h \in Pages :
        /\ client[h] = "waiting"
        /\ \E m \in Range(process[d].wire) \cup process[d].threads
                      \cup Range(process[d].back) : m.nbr = numbers[h]
        => h \in dog[d].handlers

\* Every command runs at most once and is answered to nobody but its client.
asked == UNION {{c} \X (1 .. sent[c]) : c \in Clients}
Call == INSTANCE RemoteCall
CallSpec == Call!Spec

\* An answer that a connected dog has written reaches the client if it waits.
AnswerArrives ==
    \A d \in Conns, h \in Pages :
        (client[h] = "waiting" /\ \E m \in Range(process[d].back) : m.nbr = numbers[h])
            ~> client[h] # "waiting" \/ dog[d].stream = "closed"
===============================================================================
