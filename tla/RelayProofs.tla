------------------------------ MODULE RelayProofs ------------------------------
(***************************************************************************)
(* Theorems about Relay, for any number of connections and clients.        *)
(***************************************************************************)
EXTENDS Relay, TLAPS

States == {"new", "ignored", "waiting", "fetching", "done", "open", "gone"}

\* The parts of RelayTypeOK.
DogType ==
    /\ dogs \in Conns \cup {None}
    /\ dog \in [Conns -> [stream : {"new", "accepted", "open", "closed"},
                          reading : BOOLEAN,
                          handlers : SUBSET Clients]]
ProcessType ==
    process \in [Conns -> [wire : Seq(Messages), threads : SUBSET Messages,
                           back : Seq(Messages \cup {Push}),
                           listening : BOOLEAN]]
ClientType ==
    /\ nbr \in Nat
    /\ numbers \in [Clients -> 0 .. nbr]
    /\ client \in [Clients -> States]
    /\ sent \in [Clients -> Nat]
    /\ \A c \in Clients : client[c] \in {"waiting", "open"} => numbers[c] # 0

\* A number belongs to one client, who got it with its first step.
Numbered ==
    /\ \A c, e \in Clients : numbers[c] = numbers[e] /\ numbers[c] # 0 => c = e
    /\ \A c \in Clients : client[c] = "new" => numbers[c] = 0

\* Messages with the number of the client whose command they carry or answer: those
\* that no dog has read yet, and those that were run.
Known == {m \in Messages : /\ m.nbr = numbers[m.command[1]]
                           /\ m.command[2] \in 1 .. sent[m.command[1]]}
Pending == {m \in Known : m.command \notin Range(ran)}
Handled == {m \in Known : m.command \in Range(ran)}

Processes == [wire : Seq(Pending), threads : SUBSET Handled,
              back : Seq(Handled \cup {Push}), listening : BOOLEAN]

\* No command is on its way twice.
Distinct ==
    \A d, e \in Conns : \A i \in 1 .. Len(process[d].wire), j \in 1 .. Len(process[e].wire) :
        process[d].wire[i].command = process[e].wire[j].command => d = e /\ i = j

RanSent ==
    /\ ran \in Seq(Clients \X Nat)
    /\ \A x \in Range(ran) : x \in Clients \X Nat /\ x[2] \in 1 .. sent[x[1]]

Traffic == process \in [Conns -> Processes] /\ Distinct /\ RanSent

IInv == DogType /\ ClientType /\ OneDog /\ SocketsServed /\ Numbered /\ Traffic

LEMMA RangeOfAppend ==
    ASSUME NEW S, NEW s \in Seq(S), NEW x \in S
    PROVE  /\ Append(s, x) \in Seq(S) /\ Append(s, x) # s
           /\ Range(Append(s, x)) = Range(s) \cup {x}
<1>1. Append(s, x) \in Seq(S) /\ Len(Append(s, x)) = Len(s) + 1 /\ Len(s) \in Nat
  OBVIOUS
<1>2. /\ DOMAIN Append(s, x) = 1 .. Len(s) + 1 /\ DOMAIN s = 1 .. Len(s)
      /\ \A i \in 1 .. Len(s) : Append(s, x)[i] = s[i]
      /\ Append(s, x)[Len(s) + 1] = x
  OBVIOUS
<1>3. Append(s, x) # s
  BY <1>1
<1>4. \A y \in Range(Append(s, x)) : y \in Range(s) \cup {x}
  BY <1>1, <1>2 DEF Range
<1>5. \A y \in Range(s) \cup {x} : y \in Range(Append(s, x))
  BY <1>1, <1>2 DEF Range
<1> QED BY <1>1, <1>3, <1>4, <1>5

LEMMA Types == RelayTypeOK <=> DogType /\ ProcessType /\ ClientType
  BY DEF RelayTypeOK, DogType, ProcessType, ClientType, States

LEMMA Initially == Init => IInv
<1> SUFFICES ASSUME Init PROVE IInv
  OBVIOUS
<1>1. DogType /\ ClientType
  BY DEF Init, DogType, ClientType, States
<1>2. Traffic
  BY DEF Init, Traffic, Processes, Distinct, RanSent, Ended, Range
<1>3. OneDog /\ SocketsServed /\ Numbered
  BY DEF Init, OneDog, SocketsServed, Numbered, Clients
<1> QED BY <1>1, <1>2, <1>3 DEF IInv

-------------------------------------------------------------------------------
(* Clients. *)

LEMMA ClientsKept == IInv /\ [Next]_vars => ClientType' /\ Numbered'
<1> SUFFICES ASSUME IInv, [Next]_vars PROVE ClientType' /\ Numbered'
  OBVIOUS
<1> USE DEF IInv, ClientType, States, Numbered
<1>1. ASSUME NEW h \in Pages, Get(h) PROVE ClientType' /\ Numbered'
  BY <1>1 DEF Get, Find, AssignNbr, SendCommand, Written, Destroyed, Disconnected, Clients
<1>2. ASSUME NEW h \in Pages, GetAlbumArt(h) \/ ArtFetched(h) PROVE ClientType' /\ Numbered'
  BY <1>2 DEF GetAlbumArt, ArtFetched, Find, AssignNbr, Clients
<1>3. ASSUME NEW w \in Sockets, Open(w) \/ OnMessage(w) PROVE ClientType' /\ Numbered'
  <2>1. CASE Open(w)
    BY <2>1 DEF Open, Find, AssignNbr, Clients
  <2>2. CASE OnMessage(w)
    BY <2>2 DEF OnMessage, SendCommand, Written, Destroyed, Disconnected, Clients
  <2> QED BY <1>3, <2>1, <2>2
<1>4. ASSUME NEW c \in Clients, FindNoDog(c) \/ Leave(c) PROVE ClientType' /\ Numbered'
  BY <1>4 DEF FindNoDog, Leave, AssignNbr
<1>5. ASSUME NEW d \in Conns, DogStep(d) PROVE ClientType' /\ Numbered'
  <2>1. CASE SetUsername(d)
    BY <2>1 DEF SetUsername, Disconnected
  <2>2. CASE CommandCallback(d)
    BY <2>2 DEF CommandCallback, Receivers
  <2>3. CASE UNCHANGED clients
    BY <2>3 DEF clients
  <2> QED
    BY <1>5, <2>1, <2>2, <2>3 DEF DogStep, Accept, Lose, RunCommand, StartThread, Raise,
        OnData, FinishThread
<1>6. CASE UNCHANGED vars
  BY <1>6 DEF vars, clients
<1> QED BY <1>1, <1>2, <1>3, <1>4, <1>5, <1>6 DEF Next, ClientStep
-------------------------------------------------------------------------------
(* Dogs. *)

LEMMA SendKeepsType ==
    ASSUME DogType, NEW d \in Conns, NEW c, NEW number, NEW handlers \in SUBSET Clients,
           NEW states, SendCommand(d, c, number, handlers, states)
    PROVE  DogType'
<1>1. CASE Written(d, c, number, handlers, states)
  <2>1. /\ dogs' = dogs
        /\ dog' = [dog EXCEPT ![d] = [stream |-> "open", reading |-> TRUE, handlers |-> handlers]]
    BY <1>1 DEF Written
  <2> QED BY <2>1 DEF DogType
<1>2. CASE Destroyed(d, states)
  <2>1. dogs' = None /\ dog' = [dog EXCEPT ![d] = Closed]
    BY <1>2 DEF Destroyed
  <2> QED BY <2>1 DEF DogType, Closed
<1> QED BY <1>1, <1>2 DEF SendCommand

LEMMA DogKept == IInv /\ [Next]_vars => DogType'
<1> SUFFICES ASSUME DogType, [Next]_vars PROVE DogType'
  BY DEF IInv
<1> USE DEF DogType
<1>1. ASSUME NEW h \in Pages, Get(h) PROVE DogType'
  <2>1. dogs \in Conns /\ dog[dogs].handlers \cup {h} \in SUBSET Clients
    BY <1>1 DEF Get, Find, Clients
  <2>2. SendCommand(dogs, h, AssignNbr, dog[dogs].handlers \cup {h},
                    [client EXCEPT ![h] = "waiting"])
    BY <1>1 DEF Get
  <2> HIDE DEF DogType
  <2> QED BY <2>1, <2>2, SendKeepsType
<1>2. ASSUME NEW h \in Pages, GetAlbumArt(h) \/ ArtFetched(h) PROVE DogType'
  BY <1>2 DEF GetAlbumArt, ArtFetched, Find, Clients
<1>3. ASSUME NEW w \in Sockets, Open(w) PROVE DogType'
  BY <1>3 DEF Open, Find, Clients
<1>4. ASSUME NEW w \in Sockets, OnMessage(w) PROVE DogType'
  <2>1. dogs \in Conns /\ dog[dogs].handlers \in SUBSET Clients
    BY <1>4 DEF OnMessage
  <2>2. SendCommand(dogs, w, numbers[w], dog[dogs].handlers, client)
    BY <1>4 DEF OnMessage
  <2> HIDE DEF DogType
  <2> QED BY <2>1, <2>2, SendKeepsType
<1>5. ASSUME NEW c \in Clients, FindNoDog(c) \/ Leave(c) PROVE DogType'
  BY <1>5 DEF FindNoDog, Leave
<1>6. ASSUME NEW d \in Conns, DogStep(d) PROVE DogType'
  <2>1. CASE Accept(d) \/ Lose(d)
    BY <2>1 DEF Accept, Lose
  <2>2. CASE SetUsername(d)
    <3>1. \A x \in Conns : dog'[x] \in [stream : {"new", "accepted", "open", "closed"},
                                        reading : BOOLEAN, handlers : SUBSET Clients]
      BY <2>2 DEF SetUsername, Closed
    <3> QED BY <2>2, <3>1 DEF SetUsername
  <2>3. CASE CommandCallback(d)
    <3>1. {c \in dog[d].handlers : Active(c)} \in SUBSET Clients
      OBVIOUS
    <3> QED BY <2>3, <3>1 DEF CommandCallback
  <2>4. CASE UNCHANGED <<dogs, dog>>
    BY <2>4
  <2> QED
    BY <1>6, <2>1, <2>2, <2>3, <2>4 DEF DogStep, RunCommand, StartThread, Raise, OnData,
        FinishThread
<1>7. CASE UNCHANGED vars
  BY <1>7 DEF vars
<1> QED BY <1>1, <1>2, <1>3, <1>4, <1>5, <1>6, <1>7 DEF Next, ClientStep

\* A dog gets its name when the one before it is closed, or none is registered.
LEMMA OneDogKept == IInv /\ [Next]_vars => OneDog'
<1> SUFFICES ASSUME DogType, OneDog, [Next]_vars PROVE OneDog'
  BY DEF IInv
<1> USE DEF DogType, OneDog
<1>1. ASSUME NEW h \in Pages, Get(h) PROVE OneDog'
  BY <1>1 DEF Get, Find, SendCommand, Written, Destroyed, Closed
<1>2. ASSUME NEW h \in Pages, GetAlbumArt(h) \/ ArtFetched(h) PROVE OneDog'
  BY <1>2 DEF GetAlbumArt, ArtFetched
<1>3. ASSUME NEW w \in Sockets, Open(w) PROVE OneDog'
  BY <1>3 DEF Open
<1>4. ASSUME NEW w \in Sockets, OnMessage(w) PROVE OneDog'
  BY <1>4 DEF OnMessage, SendCommand, Written, Destroyed, Closed
<1>5. ASSUME NEW c \in Clients, FindNoDog(c) \/ Leave(c) PROVE OneDog'
  BY <1>5 DEF FindNoDog, Leave
<1>6. ASSUME NEW d \in Conns, DogStep(d) PROVE OneDog'
  <2>1. CASE Accept(d) \/ Lose(d) \/ CommandCallback(d)
    BY <2>1 DEF Accept, Lose, CommandCallback
  <2>2. CASE SetUsername(d)
    BY <2>2 DEF SetUsername, Closed
  <2>3. CASE UNCHANGED <<dogs, dog>>
    BY <2>3
  <2> QED
    BY <1>6, <2>1, <2>2, <2>3 DEF DogStep, RunCommand, StartThread, Raise, OnData, FinishThread
<1>7. CASE UNCHANGED vars
  BY <1>7 DEF vars
<1> QED BY <1>1, <1>2, <1>3, <1>4, <1>5, <1>6, <1>7 DEF Next, ClientStep

\* Whoever unregisters a dog closes the web sockets that it lists, and these are all.
LEMMA SocketsKept == IInv /\ [Next]_vars => SocketsServed'
<1> SUFFICES ASSUME DogType, ClientType, SocketsServed, [Next]_vars PROVE SocketsServed'
  BY DEF IInv
<1> USE RelayAssumption DEF DogType, ClientType, SocketsServed, Clients
<1>1. ASSUME NEW h \in Pages, Get(h) PROVE SocketsServed'
  BY <1>1 DEF Get, Find, SendCommand, Written, Destroyed, Closed, Disconnected
<1>2. ASSUME NEW h \in Pages, GetAlbumArt(h) \/ ArtFetched(h) PROVE SocketsServed'
  BY <1>2 DEF GetAlbumArt, ArtFetched
<1>3. ASSUME NEW w \in Sockets, Open(w) PROVE SocketsServed'
  BY <1>3 DEF Open, Find
<1>4. ASSUME NEW w \in Sockets, OnMessage(w) PROVE SocketsServed'
  BY <1>4 DEF OnMessage, SendCommand, Written, Destroyed, Closed, Disconnected
<1>5. ASSUME NEW c \in Clients, FindNoDog(c) \/ Leave(c) PROVE SocketsServed'
  BY <1>5 DEF FindNoDog, Leave
<1>6. ASSUME NEW d \in Conns, DogStep(d) PROVE SocketsServed'
  <2>1. CASE Accept(d) \/ Lose(d)
    BY <2>1 DEF Accept, Lose, clients
  <2>2. CASE SetUsername(d)
    BY <2>2 DEF SetUsername, Disconnected
  <2>3. CASE CommandCallback(d)
    BY <2>3 DEF CommandCallback, Active
  <2>4. CASE UNCHANGED <<dogs, dog, clients>>
    BY <2>4 DEF clients
  <2> QED
    BY <1>6, <2>1, <2>2, <2>3, <2>4 DEF DogStep, RunCommand, StartThread, Raise, OnData,
        FinishThread
<1>7. CASE UNCHANGED vars
  BY <1>7 DEF vars, clients
<1> QED BY <1>1, <1>2, <1>3, <1>4, <1>5, <1>6, <1>7 DEF Next, ClientStep
-------------------------------------------------------------------------------
(* Messages. *)

\* A number is never taken back.
LEMMA Grow ==
    IInv /\ [Next]_vars =>
        \A c \in Clients : /\ numbers[c] # 0 => numbers'[c] = numbers[c]
                           /\ sent[c] \in Nat /\ sent'[c] \in Nat /\ sent[c] <= sent'[c]
<1> SUFFICES ASSUME ClientType, Numbered, [Next]_vars, NEW c \in Clients
             PROVE  /\ numbers[c] # 0 => numbers'[c] = numbers[c]
                    /\ sent[c] \in Nat /\ sent'[c] \in Nat /\ sent[c] <= sent'[c]
  BY DEF IInv
<1> USE DEF ClientType, Numbered
<1>1. ASSUME NEW h \in Pages, Get(h) \/ GetAlbumArt(h) \/ ArtFetched(h)
      PROVE  /\ numbers[c] # 0 => numbers'[c] = numbers[c]
             /\ sent'[c] \in Nat /\ sent[c] <= sent'[c]
  BY <1>1 DEF Get, GetAlbumArt, ArtFetched, Find, SendCommand, Written, Destroyed, Clients
<1>2. ASSUME NEW w \in Sockets, Open(w) \/ OnMessage(w)
      PROVE  /\ numbers[c] # 0 => numbers'[c] = numbers[c]
             /\ sent'[c] \in Nat /\ sent[c] <= sent'[c]
  BY <1>2 DEF Open, OnMessage, Find, SendCommand, Written, Destroyed, Clients
<1>3. ASSUME NEW e \in Clients, FindNoDog(e) \/ Leave(e)
      PROVE  numbers[c] # 0 => numbers'[c] = numbers[c]
  BY <1>3 DEF FindNoDog, Leave
<1>4. ASSUME NEW e \in Clients, FindNoDog(e) \/ Leave(e)
      PROVE  sent' = sent
  BY <1>4 DEF FindNoDog, Leave
<1>5. ASSUME NEW d \in Conns, DogStep(d)
      PROVE  numbers' = numbers /\ sent' = sent
  BY <1>5 DEF DogStep, Accept, SetUsername, Lose, CommandCallback, RunCommand, StartThread,
        Raise, OnData, FinishThread, clients
<1>6. CASE UNCHANGED vars
  BY <1>6 DEF vars, clients
<1>7. sent[c] \in Nat
  OBVIOUS
<1> QED BY <1>1, <1>2, <1>3, <1>4, <1>5, <1>6, <1>7 DEF Next, ClientStep

LEMMA KnownGrows == IInv /\ [Next]_vars => Known \subseteq Known'
<1> SUFFICES ASSUME IInv, [Next]_vars, NEW m \in Known PROVE m \in Known'
  OBVIOUS
<1>1. /\ m \in Messages /\ m.nbr # 0 /\ m.command[1] \in Clients /\ m.command[2] \in Nat
      /\ m.nbr = numbers[m.command[1]] /\ m.command[2] \in 1 .. sent[m.command[1]]
  BY DEF Known, Messages
<1>2. numbers'[m.command[1]] = m.nbr /\ m.command[2] \in 1 .. sent'[m.command[1]]
  BY <1>1, Grow
<1> QED BY <1>1, <1>2 DEF Known

LEMMA Retyped ==
    ASSUME NEW S, NEW T, NEW s \in Seq(S), \A i \in 1 .. Len(s) : s[i] \in T
    PROVE  s \in Seq(T)
  OBVIOUS

\* What was run stays run: while nothing is run, the messages stay what they are.
LEMMA ProcessesGrow ==
    ASSUME IInv, [Next]_vars, ran' = ran
    PROVE  Pending \subseteq Pending' /\ Handled \subseteq Handled' /\ Processes \subseteq Processes'
<1>1. Pending \subseteq Pending' /\ Handled \subseteq Handled'
  BY KnownGrows DEF Pending, Handled
<1>2. Seq(Pending) \subseteq Seq(Pending')
  BY <1>1, Retyped
<1>3. Seq(Handled \cup {Push}) \subseteq Seq(Handled' \cup {Push})
  BY <1>1, Retyped
<1> QED BY <1>1, <1>2, <1>3 DEF Processes, Push

LEMMA RanSentKept ==
    ASSUME IInv, [Next]_vars, ran' = ran
    PROVE  RanSent'
  BY Grow DEF IInv, Traffic, RanSent

\* Steps that put no message on a wire and run no command.
LEMMA OffWire ==
    ASSUME IInv, [Next]_vars, ran' = ran, process' \in [Conns -> Processes'],
           \A d \in Conns : process'[d].wire \in {process[d].wire, <<>>}
    PROVE  Traffic'
<1> USE DEF IInv, Traffic
<1>1. Distinct'
  <2> SUFFICES ASSUME NEW d \in Conns, NEW e \in Conns,
                      NEW i \in 1 .. Len(process'[d].wire), NEW j \in 1 .. Len(process'[e].wire),
                      process'[d].wire[i].command = process'[e].wire[j].command
               PROVE  d = e /\ i = j
    BY DEF Distinct
  <2>1. process'[d].wire = process[d].wire /\ process'[e].wire = process[e].wire
    OBVIOUS
  <2> QED BY <2>1 DEF Distinct
<1> QED BY <1>1, RanSentKept

\* A new command has a number that no command of its client had before.
LEMMA SendKeeps ==
    ASSUME IInv, [Next]_vars, ran' = ran, NEW d \in Conns, NEW c \in Clients, NEW number,
           NEW handlers, NEW states, SendCommand(d, c, number, handlers, states),
           number = numbers'[c], number \in Nat \ {0}
    PROVE  Traffic'
<1> DEFINE m == Message(c, number, sent[c] + 1)
<1> USE DEF IInv, Traffic
<1>1. CASE Destroyed(d, states)
  <2>1. process' = [process EXCEPT ![d] = Ended]
    BY <1>1 DEF Destroyed
  <2>2. Ended \in Processes' /\ Ended.wire = <<>>
    BY DEF Ended, Processes
  <2>3. process' \in [Conns -> Processes']
    <3> HIDE DEF Traffic
    <3>1. process \in [Conns -> Processes']
      BY ProcessesGrow DEF Traffic
    <3> QED BY <2>1, <2>2, <3>1
  <2>4. \A e \in Conns : process'[e].wire \in {process[e].wire, <<>>}
    BY <2>1, <2>2
  <2> QED BY <2>3, <2>4, OffWire
<1>2. CASE Written(d, c, number, handlers, states)
  <2>1. /\ process' = [process EXCEPT ![d].wire = Append(@, m)]
        /\ sent' = [sent EXCEPT ![c] = @ + 1]
    BY <1>2 DEF Written
  <2>2. sent[c] \in Nat /\ sent'[c] = sent[c] + 1
    BY <2>1 DEF ClientType
  <2>3. m.nbr = number /\ m.command[1] = c /\ m.command[2] = sent[c] + 1 /\ m \in Messages
    BY <2>2 DEF Message, Messages
  <2>4. m.command \notin Range(ran)
    BY <2>2, <2>3 DEF RanSent
  <2>5. m \in Pending'
    BY <2>2, <2>3, <2>4 DEF Pending, Known
  <2>6. process[d].wire \in Seq(Pending')
    <3>1. process[d].wire \in Seq(Pending)
      BY DEF Processes
    <3> QED BY <3>1, ProcessesGrow, Retyped
  <2>7. process' \in [Conns -> Processes']
    <3>1. Append(process[d].wire, m) \in Seq(Pending')
      BY <2>5, <2>6
    <3> HIDE DEF m
    <3> QED BY <2>1, <3>1, ProcessesGrow DEF Processes
  <2>8. \A e \in Conns : \A i \in 1 .. Len(process[e].wire) :
            process[e].wire[i].command # m.command
    <3> SUFFICES ASSUME NEW e \in Conns, NEW i \in 1 .. Len(process[e].wire)
                 PROVE  process[e].wire[i].command # m.command
      OBVIOUS
    <3>1. process[e].wire[i] \in Known
      <4>1. process[e].wire \in Seq(Pending)
        BY DEF Processes
      <4> QED BY <4>1 DEF Pending
    <3> QED BY <2>2, <2>3, <3>1 DEF Known
  <2>9. Distinct'
    <3> HIDE DEF m
    <3> SUFFICES ASSUME NEW x \in Conns, NEW y \in Conns,
                        NEW i \in 1 .. Len(process'[x].wire),
                        NEW j \in 1 .. Len(process'[y].wire),
                        process'[x].wire[i].command = process'[y].wire[j].command
                 PROVE  x = y /\ i = j
      BY DEF Distinct
    <3>1. \A e \in Conns : process[e].wire \in Seq(Pending)
      BY DEF Processes
    <3>2. \A e \in Conns : process'[e].wire =
                IF e = d THEN Append(process[e].wire, m) ELSE process[e].wire
      BY <2>1 DEF Processes
    <3>3. ASSUME NEW e \in Conns, NEW k \in 1 .. Len(process'[e].wire)
          PROVE  \/ /\ k \in 1 .. Len(process[e].wire)
                    /\ process'[e].wire[k] = process[e].wire[k]
                 \/ /\ e = d /\ k = Len(process[d].wire) + 1
                    /\ process'[e].wire[k] = m
      <4>1. process[e].wire \in Seq(Pending)
        BY <3>1
      <4>2. CASE e = d
        <5>1. process'[e].wire = Append(process[e].wire, m)
          BY <3>2, <4>2
        <5> QED BY <3>3, <4>1, <4>2, <5>1
      <4>3. CASE e # d
        <5>1. process'[e].wire = process[e].wire
          BY <3>2, <4>3
        <5> QED BY <3>3, <5>1
      <4> QED BY <4>2, <4>3
    <3>4. CASE i \in 1 .. Len(process[x].wire) /\ process'[x].wire[i] = process[x].wire[i]
      <4>1. process[x].wire[i].command # m.command
        BY <2>8, <3>4
      <4>2. j \in 1 .. Len(process[y].wire) /\ process'[y].wire[j] = process[y].wire[j]
        BY <3>3, <3>4, <4>1
      <4> QED BY <3>4, <4>2 DEF Distinct
    <3>5. CASE x = d /\ i = Len(process[d].wire) + 1 /\ process'[x].wire[i] = m
      BY <2>8, <3>3, <3>5
    <3> QED BY <3>3, <3>4, <3>5
  <2> QED BY <2>7, <2>9, RanSentKept
<1> QED BY <1>1, <1>2 DEF SendCommand

\* The command that is run is no longer on any wire.
LEMMA RunKeeps ==
    ASSUME IInv, [Next]_vars, NEW d \in Conns, NEW answers \in 0 .. 2, NEW pushes \in 0 .. 1,
           NEW threaded \in BOOLEAN, NEW listening \in BOOLEAN,
           OnData(d, answers, pushes, threaded, listening)
    PROVE  Traffic'
<1> DEFINE m == Head(process[d].wire)
<1> USE DEF IInv, Traffic
<1>1. /\ process[d] \in Processes
      /\ process[d].wire \in Seq(Pending) /\ process[d].wire # <<>>
      /\ process[d].threads \subseteq Handled
      /\ process[d].back \in Seq(Handled \cup {Push})
  BY DEF OnData, Processes
<1>2. m = process[d].wire[1] /\ 1 \in 1 .. Len(process[d].wire) /\ m \in Pending
  BY <1>1
<1>3. /\ ran' \in Seq(Clients \X Nat) /\ Range(ran') = Range(ran) \cup {m.command}
      /\ sent' = sent /\ numbers' = numbers
  <2>1. ran' = Append(ran, m.command) /\ sent' = sent /\ numbers' = numbers
    BY DEF OnData, clients
  <2>2. m.command \in Clients \X Nat
    BY <1>2 DEF Pending, Known, Messages
  <2>3. ran \in Seq(Clients \X Nat)
    BY DEF RanSent
  <2> HIDE DEF m
  <2> QED BY <2>1, <2>2, <2>3, RangeOfAppend
<1>4. Known' = Known /\ m \in Handled' /\ Handled \subseteq Handled'
  BY <1>2, <1>3 DEF Known, Handled, Pending
<1>5. \A e \in Conns : \A i \in 1 .. Len(process[e].wire) :
        ~ (e = d /\ i = 1) => process[e].wire[i] \in Pending'
  <2> SUFFICES ASSUME NEW e \in Conns, NEW i \in 1 .. Len(process[e].wire), ~ (e = d /\ i = 1)
               PROVE  process[e].wire[i] \in Pending'
    OBVIOUS
  <2>1. process[e].wire[i] \in Pending
    BY DEF Processes
  <2>2. process[e].wire[i].command # m.command
    BY <1>2 DEF Distinct
  <2> QED BY <2>1, <2>2, <1>3, <1>4 DEF Pending
<1> DEFINE newBack == process[d].back \o [i \in 1 .. answers |-> m] \o [i \in 1 .. pushes |-> Push]
           newThreads == IF threaded THEN process[d].threads \cup {m} ELSE process[d].threads
<1>6. process' = [process EXCEPT ![d] = [wire |-> Tail(process[d].wire), threads |-> newThreads,
                                         back |-> newBack, listening |-> listening]]
  BY DEF OnData
<1>7. newThreads \subseteq Handled'
  BY <1>1, <1>4
<1>8. newBack \in Seq(Handled' \cup {Push})
  <2>1. process[d].back \in Seq(Handled' \cup {Push})
    BY <1>1, <1>4, Retyped
  <2>2. /\ [i \in 1 .. answers |-> m] \in Seq(Handled' \cup {Push})
        /\ [i \in 1 .. pushes |-> Push] \in Seq(Handled' \cup {Push})
    BY <1>4
  <2> QED BY <2>1, <2>2
<1>9. Tail(process[d].wire) \in Seq(Pending')
  <2>1. \A i \in 1 .. Len(Tail(process[d].wire)) :
            /\ i + 1 \in 1 .. Len(process[d].wire) /\ i + 1 # 1
            /\ Tail(process[d].wire)[i] = process[d].wire[i + 1]
    BY <1>1
  <2>2. Tail(process[d].wire) \in Seq(Pending)
    BY <1>1
  <2>3. \A i \in 1 .. Len(Tail(process[d].wire)) : Tail(process[d].wire)[i] \in Pending'
    BY <1>5, <2>1
  <2> QED BY <2>2, <2>3, Retyped
<1>10. process' \in [Conns -> Processes']
  <2>1. ASSUME NEW e \in Conns, e # d PROVE process[e] \in Processes'
    <3>1. process[e].wire \in Seq(Pending) /\ process[e].threads \subseteq Handled
          /\ process[e].back \in Seq(Handled \cup {Push}) /\ process[e] \in Processes
      BY DEF Processes
    <3>2. process[e].wire \in Seq(Pending')
      BY <1>5, <2>1, <3>1, Retyped
    <3>3. process[e].threads \subseteq Handled'
      BY <1>4, <3>1
    <3>4. process[e].back \in Seq(Handled' \cup {Push})
      BY <1>4, <3>1, Retyped
    <3> QED BY <3>1, <3>2, <3>3, <3>4 DEF Processes, Push
  <2> HIDE DEF newBack, newThreads
  <2>2. [wire |-> Tail(process[d].wire), threads |-> newThreads,
         back |-> newBack, listening |-> listening] \in Processes'
    BY <1>7, <1>8, <1>9 DEF Processes, Push
  <2> QED BY <1>6, <2>1, <2>2
<1>11. Distinct'
  <2> HIDE DEF newBack, newThreads
  <2>1. \A e \in Conns : process'[e].wire =
            IF e = d THEN Tail(process[e].wire) ELSE process[e].wire
    BY <1>6
  <2>2. ASSUME NEW e \in Conns, NEW i \in 1 .. Len(process'[e].wire)
        PROVE  \E k \in 1 .. Len(process[e].wire) :
                    k = (IF e = d THEN i + 1 ELSE i) /\ process'[e].wire[i] = process[e].wire[k]
    <3>1. CASE e = d
      <4>1. process'[e].wire = Tail(process[d].wire)
        BY <2>1, <3>1
      <4> QED BY <1>1, <2>2, <3>1, <4>1
    <3>2. CASE e # d
      <4>1. process'[e].wire = process[e].wire
        BY <2>1, <3>2
      <4> QED BY <2>2, <3>2, <4>1
    <3> QED BY <3>1, <3>2
  <2> SUFFICES ASSUME NEW x \in Conns, NEW y \in Conns,
                      NEW i \in 1 .. Len(process'[x].wire),
                      NEW j \in 1 .. Len(process'[y].wire),
                      process'[x].wire[i].command = process'[y].wire[j].command
               PROVE  x = y /\ i = j
    BY DEF Distinct
  <2>3. PICK k \in 1 .. Len(process[x].wire) :
            k = (IF x = d THEN i + 1 ELSE i) /\ process'[x].wire[i] = process[x].wire[k]
    BY <2>2
  <2>4. PICK l \in 1 .. Len(process[y].wire) :
            l = (IF y = d THEN j + 1 ELSE j) /\ process'[y].wire[j] = process[y].wire[l]
    BY <2>2
  <2>5. x = y /\ k = l
    BY <2>3, <2>4 DEF Distinct
  <2> QED BY <2>3, <2>4, <2>5
<1>12. RanSent'
  BY <1>2, <1>3 DEF RanSent, Pending, Known, Messages
<1> QED BY <1>10, <1>11, <1>12

\* The thread's answer is for the command that it was started for.
LEMMA FinishKeeps ==
    ASSUME IInv, [Next]_vars, NEW d \in Conns, FinishThread(d)
    PROVE  Traffic'
<1> USE DEF IInv, Traffic
<1>1. ran' = ran
  BY DEF FinishThread
<1>2. PICK m \in process[d].threads, answered \in BOOLEAN :
        process' = [process EXCEPT ![d].threads = @ \ {m},
                                   ![d].back = IF answered THEN Append(@, m) ELSE @]
  BY DEF FinishThread
<1>3. process[d] \in Processes' /\ m \in Handled'
  BY <1>1, ProcessesGrow DEF Processes
<1>4. Append(process[d].back, m) \in Seq(Handled' \cup {Push})
  <2>1. process[d].back \in Seq(Handled' \cup {Push})
    BY <1>3 DEF Processes, Push
  <2> QED BY <1>3, <2>1
<1>5. process' \in [Conns -> Processes']
  BY <1>1, <1>2, <1>3, <1>4, ProcessesGrow DEF Processes, Push
<1>6. \A e \in Conns : process'[e].wire = process[e].wire
  BY <1>2
<1> QED BY <1>1, <1>5, <1>6, OffWire

LEMMA CallbackKeeps ==
    ASSUME IInv, [Next]_vars, NEW d \in Conns, CommandCallback(d)
    PROVE  Traffic'
<1> USE DEF IInv, Traffic
<1>1. ran' = ran /\ process' = [process EXCEPT ![d].back = Tail(@)]
  BY DEF CommandCallback
<1>2. process[d] \in Processes' /\ process[d].back # <<>>
  BY <1>1, ProcessesGrow DEF CommandCallback
<1>3. Tail(process[d].back) \in Seq(Handled' \cup {Push})
  <2>1. process[d].back \in Seq(Handled' \cup {Push})
    BY <1>2 DEF Processes, Push
  <2> QED BY <1>2, <2>1
<1>4. process' \in [Conns -> Processes']
  BY <1>1, <1>2, <1>3, ProcessesGrow DEF Processes, Push
<1>5. \A e \in Conns : process'[e].wire = process[e].wire
  BY <1>1
<1> QED BY <1>1, <1>4, <1>5, OffWire

LEMMA TrafficKept == IInv /\ [Next]_vars => Traffic'
<1> SUFFICES ASSUME IInv, [Next]_vars PROVE Traffic'
  OBVIOUS
<1>1. ASSUME process' = process, ran' = ran PROVE Traffic'
  BY <1>1, ProcessesGrow, OffWire DEF IInv, Traffic
<1>2. ASSUME NEW h \in Pages, Get(h) PROVE Traffic'
  <2>1. /\ SendCommand(dogs, h, AssignNbr, dog[dogs].handlers \cup {h},
                       [client EXCEPT ![h] = "waiting"])
        /\ dogs \in Conns /\ h \in Clients
        /\ AssignNbr = numbers'[h] /\ AssignNbr \in Nat \ {0} /\ ran' = ran
    BY <1>2 DEF Get, Find, IInv, DogType, ClientType, AssignNbr, Clients
  <2> QED BY <2>1, SendKeeps
<1>3. ASSUME NEW w \in Sockets, OnMessage(w) PROVE Traffic'
  <2>1. /\ SendCommand(dogs, w, numbers[w], dog[dogs].handlers, client)
        /\ dogs \in Conns /\ w \in Clients
        /\ numbers[w] = numbers'[w] /\ numbers[w] \in Nat \ {0} /\ ran' = ran
    BY <1>3 DEF OnMessage, IInv, DogType, ClientType, Clients
  <2> QED BY <2>1, SendKeeps
<1>4. ASSUME NEW d \in Conns, Accept(d) \/ SetUsername(d) \/ Lose(d) PROVE Traffic'
  <2>1. ran' = ran
    BY <1>4 DEF Accept, SetUsername, Lose
  <2>2. \A x \in Conns : process'[x] \in {process[x], Ended, [process[x] EXCEPT !.listening = TRUE]}
    BY <1>4 DEF Accept, SetUsername, Lose, IInv, Traffic
  <2>3. process' \in [Conns -> Processes']
    <3>1. ASSUME NEW x \in Conns PROVE process'[x] \in Processes'
      <4>1. process[x] \in Processes'
        BY <2>1, ProcessesGrow DEF IInv, Traffic
      <4>2. Ended \in Processes'
        BY DEF Ended, Processes
      <4>3. [process[x] EXCEPT !.listening = TRUE] \in Processes'
        BY <4>1 DEF Processes
      <4> QED BY <2>2, <4>1, <4>2, <4>3
    <3>2. process' = [x \in Conns |-> process'[x]]
      BY <1>4 DEF Accept, SetUsername, Lose, IInv, Traffic
    <3> QED BY <3>1, <3>2
  <2>4. \A x \in Conns : process'[x].wire \in {process[x].wire, <<>>}
    <3>1. ASSUME NEW x \in Conns PROVE [process[x] EXCEPT !.listening = TRUE].wire = process[x].wire
      BY DEF IInv, Traffic, Processes
    <3>2. Ended.wire = <<>>
      BY DEF Ended
    <3> SUFFICES ASSUME NEW x \in Conns PROVE process'[x].wire \in {process[x].wire, <<>>}
      OBVIOUS
    <3>3. CASE process'[x] = process[x] \/ process'[x] = Ended
      BY <3>2, <3>3
    <3>4. CASE process'[x] = [process[x] EXCEPT !.listening = TRUE]
      BY <3>1, <3>4
    <3> QED BY <2>2, <3>3, <3>4
  <2> QED BY <2>1, <2>3, <2>4, OffWire
<1>5. ASSUME NEW d \in Conns, RunCommand(d) \/ StartThread(d) \/ Raise(d) PROVE Traffic'
  <2>1. CASE RunCommand(d)
    <3>1. PICK answers \in 1 .. 2, pushes \in 0 .. 1 : OnData(d, answers, pushes, FALSE, TRUE)
      BY <2>1 DEF RunCommand
    <3>2. answers \in 0 .. 2
      OBVIOUS
    <3> QED BY <3>1, <3>2, RunKeeps
  <2>2. CASE StartThread(d)
    <3>1. PICK pushes \in 0 .. 1 : OnData(d, 0, pushes, TRUE, TRUE)
      BY <2>2 DEF StartThread
    <3>2. 0 \in 0 .. 2
      OBVIOUS
    <3> QED BY <3>1, <3>2, RunKeeps
  <2>3. CASE Raise(d)
    <3>1. PICK answers \in 0 .. 1 : OnData(d, answers, 0, FALSE, FALSE)
      BY <2>3 DEF Raise
    <3>2. answers \in 0 .. 2 /\ 0 \in 0 .. 1
      OBVIOUS
    <3> QED BY <3>1, <3>2, RunKeeps
  <2> QED BY <1>5, <2>1, <2>2, <2>3
<1>6. CASE UNCHANGED vars
  BY <1>1, <1>6 DEF vars
<1>7. ASSUME NEW h \in Pages, GetAlbumArt(h) \/ ArtFetched(h) PROVE Traffic'
  BY <1>1, <1>7 DEF GetAlbumArt, ArtFetched
<1>8. ASSUME NEW w \in Sockets, Open(w) PROVE Traffic'
  BY <1>1, <1>8 DEF Open
<1>9. ASSUME NEW c \in Clients, FindNoDog(c) \/ Leave(c) PROVE Traffic'
  BY <1>1, <1>9 DEF FindNoDog, Leave
<1> QED
  BY <1>2, <1>3, <1>4, <1>5, <1>6, <1>7, <1>8, <1>9, FinishKeeps, CallbackKeeps
  DEF Next, ClientStep, DogStep

-------------------------------------------------------------------------------
(* Theorems. *)

THEOREM RelayInvariance == Spec => []IInv
<1>1. IInv /\ [Next]_vars => IInv'
  BY ClientsKept, DogKept, OneDogKept, SocketsKept, TrafficKept DEF IInv
<1> QED BY Initially, <1>1, PTL DEF Spec

\* The tables of the relay and the streams of the dogs hold what they are for, and
\* nobody waits for an answer without a number.
THEOREM RelayTypeCorrect == Spec => []RelayTypeOK
<1>1. IInv => RelayTypeOK
  <2> SUFFICES ASSUME IInv PROVE ProcessType
    BY Types DEF IInv
  <2>1. ASSUME NEW d \in Conns
        PROVE  process[d] \in [wire : Seq(Messages), threads : SUBSET Messages,
                               back : Seq(Messages \cup {Push}), listening : BOOLEAN]
    <3>1. /\ process[d].wire \in Seq(Pending) /\ process[d].threads \subseteq Handled
          /\ process[d].back \in Seq(Handled \cup {Push}) /\ process[d] \in Processes
      BY DEF IInv, Traffic, Processes
    <3>2. Pending \subseteq Messages /\ Handled \subseteq Messages
      BY DEF Pending, Handled, Known
    <3>3. process[d].wire \in Seq(Messages) /\ process[d].back \in Seq(Messages \cup {Push})
      BY <3>1, <3>2, Retyped
    <3> QED BY <3>1, <3>2, <3>3 DEF Processes, Push
  <2> QED BY <2>1 DEF ProcessType, IInv, Traffic
<1> QED BY <1>1, RelayInvariance, PTL

\* At most one dog of a user is connected and named, the registered one, however many
\* connect and whenever their connections break.
THEOREM OnlyOneDog == Spec => []OneDog
BY RelayInvariance, PTL DEF IInv

\* No web socket stays open with a dog that was replaced or destroyed.
THEOREM NoSocketForgotten == Spec => []SocketsServed
BY RelayInvariance, PTL DEF IInv

-------------------------------------------------------------------------------
(* Relay implements RemoteCall. *)

LEMMA Asked ==
    /\ \A x \in asked : x = <<x[1], x[2]>> /\ x[1] \in Clients /\ x[2] \in 1 .. sent[x[1]]
    /\ \A c \in Clients : \A k \in 1 .. sent[c] : <<c, k>> \in asked
  BY DEF asked

LEMMA SendAsks ==
    ASSUME ClientType, NEW d \in Conns, NEW c \in Clients, NEW number, NEW handlers,
           NEW states, SendCommand(d, c, number, handlers, states), UNCHANGED <<ran, got>>
    PROVE  asked' = asked \/ \E x \in asked' : Call!Ask(x)
<1>1. CASE Destroyed(d, states)
  BY <1>1 DEF Destroyed, asked
<1>2. CASE Written(d, c, number, handlers, states)
  <2>1. sent' = [sent EXCEPT ![c] = @ + 1] /\ sent[c] \in Nat /\ sent'[c] = sent[c] + 1
    BY <1>2 DEF Written, ClientType
  <2> DEFINE x == <<c, sent[c] + 1>>
  <2>2. x \notin asked
    BY <2>1, Asked
  <2>3. \A e \in Clients : {e} \X (1 .. sent'[e]) =
            ({e} \X (1 .. sent[e])) \cup (IF e = c THEN {x} ELSE {})
    <3> SUFFICES ASSUME NEW e \in Clients
                 PROVE  {e} \X (1 .. sent'[e]) =
                            ({e} \X (1 .. sent[e])) \cup (IF e = c THEN {x} ELSE {})
      OBVIOUS
    <3>1. CASE e = c
      <4>1. 1 .. sent'[c] = (1 .. sent[c]) \cup {sent[c] + 1}
        BY <2>1
      <4> QED BY <3>1, <4>1
    <3>2. CASE e # c
      BY <2>1, <3>2 DEF ClientType
    <3> QED BY <3>1, <3>2
  <2>4. asked' = asked \cup {x}
    <3> HIDE DEF x
    <3> QED BY <2>3 DEF asked
  <2> QED BY <2>2, <2>4 DEF Call!Ask
<1> QED BY <1>1, <1>2 DEF SendCommand

LEMMA DataRuns ==
    ASSUME IInv, NEW d \in Conns, NEW answers, NEW pushes, NEW threaded, NEW listening,
           OnData(d, answers, pushes, threaded, listening)
    PROVE  asked' = asked /\ \E x \in asked : Call!Run(x)
<1> DEFINE m == Head(process[d].wire)
<1>1. m \in Pending
  <2>1. process[d].wire \in Seq(Pending) /\ process[d].wire # <<>>
    BY DEF IInv, Traffic, Processes, OnData
  <2> QED BY <2>1
<1>2. m.command = <<m.command[1], m.command[2]>> /\ m.command[1] \in Clients
      /\ m.command[2] \in 1 .. sent[m.command[1]] /\ m.command \notin Range(ran)
  BY <1>1 DEF Pending, Known, Messages
<1>3. m.command \in asked
  BY <1>2, Asked
<1>4. ran' = Append(ran, m.command) /\ sent' = sent /\ got' = got
  BY DEF OnData, clients
<1>5. asked' = asked
  BY <1>4 DEF asked
<1> HIDE DEF m
<1> QED BY <1>2, <1>3, <1>4, <1>5 DEF Call!Run, Call!Range, Range

\* The number of an answer is the one of its client, and no one else has it.
LEMMA CallbackAnswers ==
    ASSUME IInv, NEW d \in Conns, CommandCallback(d)
    PROVE  /\ asked' = asked /\ ran' = ran
           /\ got' = got \/ \E x \in Range(ran) : Call!Answer(x)
<1> DEFINE m == Head(process[d].back)
<1>1. sent' = sent /\ ran' = ran
      /\ got' = IF m = Push THEN got ELSE got \cup (Receivers(d, m) \X {m.command})
  BY DEF CommandCallback
<1>2. asked' = asked
  BY <1>1 DEF asked
<1>3. CASE m = Push
  BY <1>1, <1>2, <1>3
<1>4. CASE m # Push
  <2>1. m \in Handled
    <3>1. process[d].back \in Seq(Handled \cup {Push}) /\ process[d].back # <<>>
      BY DEF IInv, Traffic, Processes, CommandCallback
    <3> QED BY <1>4, <3>1
  <2>2. /\ m.nbr # 0 /\ m.command[1] \in Clients /\ m.command \in Range(ran)
        /\ m.nbr = numbers[m.command[1]]
    BY <2>1 DEF Handled, Known, Messages
  <2>3. Receivers(d, m) \subseteq {m.command[1]}
    <3>1. dog[d].handlers \subseteq Clients
      BY DEF IInv, DogType
    <3>2. ASSUME NEW c \in Receivers(d, m) PROVE c = m.command[1]
      <4>1. c \in Clients /\ numbers[c] = m.nbr
        BY <1>4, <3>1, <3>2 DEF Receivers
      <4> QED BY <2>2, <4>1 DEF IInv, Numbered
    <3> QED BY <3>2
  <2> HIDE DEF m
  <2>4. CASE Receivers(d, m) = {}
    BY <1>1, <1>2, <1>4, <2>4
  <2>5. CASE Receivers(d, m) = {m.command[1]}
    <3>1. got' = got \cup {<<m.command[1], m.command>>}
      BY <1>1, <1>4, <2>5
    <3> QED BY <1>1, <1>2, <2>2, <3>1 DEF Call!Answer, Call!Range, Range
  <2> QED BY <2>3, <2>4, <2>5
<1> QED BY <1>3, <1>4

\* Every command is run at most once, and its answer reaches nobody but the client who
\* sent it: the numbers keep clients apart, and the streams keep commands from being
\* run again, whatever breaks.
THEOREM AnswersOnlyCallers == Spec => CallSpec
<1>1. Init => Call!Init
  <2> SUFFICES ASSUME Init PROVE asked = {}
    BY DEF Init, Call!Init
  <2>1. \A c \in Clients : {c} \X (1 .. sent[c]) = {}
    BY DEF Init
  <2> QED BY <2>1 DEF asked
<1>2. IInv /\ [Next]_vars => [Call!Next]_<<asked, ran, got>>
  <2> SUFFICES ASSUME IInv, [Next]_vars
               PROVE  Call!Next \/ UNCHANGED <<asked, ran, got>>
    OBVIOUS
  <2> USE DEF Call!Next
  <2>1. ASSUME UNCHANGED <<sent, ran, got>> PROVE UNCHANGED <<asked, ran, got>>
    BY <2>1 DEF asked
  <2>2. ASSUME NEW h \in Pages, Get(h) PROVE Call!Next \/ UNCHANGED <<asked, ran, got>>
    <3>1. /\ SendCommand(dogs, h, AssignNbr, dog[dogs].handlers \cup {h},
                         [client EXCEPT ![h] = "waiting"])
          /\ dogs \in Conns /\ h \in Clients /\ ClientType /\ UNCHANGED <<ran, got>>
      BY <2>2 DEF Get, Find, IInv, DogType, Clients
    <3> QED BY <3>1, SendAsks
  <2>3. ASSUME NEW w \in Sockets, OnMessage(w)
        PROVE  Call!Next \/ UNCHANGED <<asked, ran, got>>
    <3>1. /\ SendCommand(dogs, w, numbers[w], dog[dogs].handlers, client)
          /\ dogs \in Conns /\ w \in Clients /\ ClientType /\ UNCHANGED <<ran, got>>
      BY <2>3 DEF OnMessage, IInv, DogType, Clients
    <3> QED BY <3>1, SendAsks
  <2>4. ASSUME NEW d \in Conns, RunCommand(d) \/ StartThread(d) \/ Raise(d) PROVE Call!Next
    BY <2>4, DataRuns DEF RunCommand, StartThread, Raise
  <2>5. ASSUME NEW d \in Conns, CommandCallback(d)
        PROVE  Call!Next \/ UNCHANGED <<asked, ran, got>>
    BY <2>5, CallbackAnswers DEF Call!Range, Range
  <2>6. ASSUME NEW d \in Conns, Accept(d) \/ SetUsername(d) \/ Lose(d) \/ FinishThread(d)
        PROVE  UNCHANGED <<asked, ran, got>>
    BY <2>1, <2>6 DEF Accept, SetUsername, Lose, FinishThread, clients
  <2>7. ASSUME NEW c \in Clients,
               GetAlbumArt(c) \/ ArtFetched(c) \/ Open(c) \/ FindNoDog(c) \/ Leave(c)
        PROVE  UNCHANGED <<asked, ran, got>>
    BY <2>1, <2>7 DEF GetAlbumArt, ArtFetched, Open, FindNoDog, Leave
  <2>8. CASE UNCHANGED vars
    BY <2>1, <2>8 DEF vars, clients
  <2>9. Pages \subseteq Clients /\ Sockets \subseteq Clients
    BY DEF Clients
  <2> HIDE DEF Call!Next
  <2> QED
    BY <2>2, <2>3, <2>4, <2>5, <2>6, <2>7, <2>8, <2>9 DEF Next, ClientStep, DogStep
<1> QED BY <1>1, <1>2, RelayInvariance, PTL DEF Spec, CallSpec, Call!Spec

-------------------------------------------------------------------------------
(* Who waits is listed. *)

Underway(d) == Range(process[d].wire) \cup process[d].threads \cup Range(process[d].back)

\* Nothing is on its way on a connection that is not open.
Idle == \A d \in Conns : dog[d].stream # "open" => Underway(d) = {}

LEMMA EmptyRange ==
    ASSUME NEW S, NEW s \in Seq(S), Range(s) = {}
    PROVE  s = <<>>
<1>1. ASSUME s # <<>> PROVE FALSE
  <2>1. 1 \in DOMAIN s
    BY <1>1
  <2> QED BY <2>1 DEF Range
<1> QED BY <1>1

LEMMA IdleKept == IInv /\ Idle /\ [Next]_vars => Idle'
<1> SUFFICES ASSUME IInv, Idle, [Next]_vars, NEW x \in Conns, dog'[x].stream # "open"
             PROVE  Underway(x)' = {}
  BY DEF Idle
<1>1. ASSUME UNCHANGED <<dog, process>> PROVE Underway(x)' = {}
  BY <1>1 DEF Idle, Underway
<1>2. ASSUME NEW d \in Conns, NEW c, NEW number, NEW handlers, NEW states,
             SendCommand(d, c, number, handlers, states)
      PROVE  Underway(x)' = {}
  <2>1. CASE Destroyed(d, states)
    <3>1. CASE x = d
      <4>1. process'[x] = Ended
        BY <2>1, <3>1 DEF Destroyed, IInv, Traffic
      <4> QED BY <4>1 DEF Underway, Ended, Range
    <3>2. CASE x # d
      <4>1. dog[x].stream # "open" /\ process'[x] = process[x]
        BY <2>1, <3>2 DEF Destroyed, IInv, DogType, Traffic
      <4> QED BY <4>1 DEF Idle, Underway
    <3> QED BY <3>1, <3>2
  <2>2. CASE Written(d, c, number, handlers, states)
    <3>1. x # d /\ dog'[x] = dog[x] /\ process'[x] = process[x]
      BY <2>2 DEF Written, IInv, DogType, Traffic
    <3> QED BY <3>1 DEF Idle, Underway
  <2> QED BY <1>2, <2>1, <2>2 DEF SendCommand
<1>3. ASSUME NEW h \in Pages, Get(h) PROVE Underway(x)' = {}
  BY <1>2, <1>3 DEF Get, Find, IInv, DogType
<1>4. ASSUME NEW w \in Sockets, OnMessage(w) PROVE Underway(x)' = {}
  BY <1>2, <1>4 DEF OnMessage, IInv, DogType
<1>5. ASSUME NEW h \in Clients, GetAlbumArt(h) \/ Open(h) PROVE Underway(x)' = {}
  <2>1. dog[x].stream # "open" /\ process' = process
    BY <1>5 DEF GetAlbumArt, Open, Find, IInv, DogType
  <2> QED BY <2>1 DEF Idle, Underway
<1>6. ASSUME NEW c \in Clients, ArtFetched(c) \/ FindNoDog(c) \/ Leave(c) PROVE Underway(x)' = {}
  BY <1>1, <1>6 DEF ArtFetched, FindNoDog, Leave
<1>7. ASSUME NEW d \in Conns, Accept(d) \/ SetUsername(d) \/ Lose(d) PROVE Underway(x)' = {}
  <2>1. CASE process'[x] = Ended
    BY <2>1 DEF Underway, Ended, Range
  <2>2. CASE process'[x] # Ended
    <3>1. /\ dog[x].stream # "open"
          /\ process'[x] \in {process[x], [process[x] EXCEPT !.listening = TRUE]}
      BY <1>7, <2>2 DEF Accept, SetUsername, Lose, IInv, DogType, Traffic
    <3>2. /\ process'[x].wire = process[x].wire /\ process'[x].threads = process[x].threads
          /\ process'[x].back = process[x].back
      BY <3>1 DEF IInv, Traffic, Processes
    <3> QED BY <3>1, <3>2 DEF Idle, Underway
  <2> QED BY <2>1, <2>2
<1>8. ASSUME NEW d \in Conns,
             CommandCallback(d) \/ RunCommand(d) \/ StartThread(d) \/ Raise(d) \/ FinishThread(d)
      PROVE  Underway(x)' = {}
  <2>1. dog[x].stream # "open"
    BY <1>8 DEF CommandCallback, RunCommand, StartThread, Raise, OnData, FinishThread, IInv, DogType
  <2>2. process[x].wire = <<>> /\ process[x].threads = {} /\ process[x].back = <<>>
    <3>1. process[x].wire \in Seq(Pending) /\ process[x].back \in Seq(Handled \cup {Push})
      BY DEF IInv, Traffic, Processes
    <3>2. Range(process[x].wire) = {} /\ process[x].threads = {} /\ Range(process[x].back) = {}
      BY <2>1 DEF Idle, Underway
    <3> QED BY <3>1, <3>2, EmptyRange
  <2>3. x # d
    BY <1>8, <2>1, <2>2 DEF CommandCallback, RunCommand, StartThread, Raise, OnData, FinishThread
  <2>4. process'[x] = process[x]
    BY <1>8, <2>3 DEF CommandCallback, RunCommand, StartThread, Raise, OnData, FinishThread,
        IInv, Traffic
  <2> QED BY <2>1, <2>4 DEF Idle, Underway
<1>9. CASE UNCHANGED vars
  BY <1>1, <1>9 DEF vars
<1>10. Pages \subseteq Clients /\ Sockets \subseteq Clients
  BY DEF Clients
<1> QED
  BY <1>3, <1>4, <1>5, <1>6, <1>7, <1>8, <1>9, <1>10 DEF Next, ClientStep, DogStep

\* What is under way has a number that was assigned, or is a push.
LEMMA UnderwayNumbered ==
    ASSUME IInv, NEW d \in Conns, NEW m \in Underway(d)
    PROVE  m = Push \/ m.nbr \in 1 .. nbr
<1>1. /\ process[d].wire \in Seq(Pending) /\ process[d].threads \subseteq Handled
      /\ process[d].back \in Seq(Handled \cup {Push})
  BY DEF IInv, Traffic, Processes
<1>2. m = Push \/ m \in Known
  BY <1>1 DEF Underway, Range, Pending, Handled
<1>3. m \in Known => m.nbr # 0 /\ m.nbr \in 0 .. nbr
  BY DEF Known, Messages, IInv, ClientType
<1>4. m.nbr \in 0 .. nbr /\ m.nbr # 0 => m.nbr \in 1 .. nbr
  BY DEF IInv, ClientType
<1> QED BY <1>2, <1>3, <1>4

\* Steps that send no command.
LEMMA NothingSent ==
    ASSUME IInv, WaitersListed,
           \A d \in Conns : Underway(d)' \subseteq Underway(d) \cup {Push},
           \A h \in Pages : client'[h] = "waiting"
                            => client[h] = "waiting" /\ numbers'[h] = numbers[h],
           \A d \in Conns : \A h \in Pages :
                client'[h] = "waiting" /\ h \in dog[d].handlers
                    => h \in dog'[d].handlers \/ Underway(d)' = {}
    PROVE  WaitersListed'
<1> SUFFICES ASSUME NEW d \in Conns, NEW h \in Pages, client'[h] = "waiting",
                    NEW m \in Underway(d)', m.nbr = numbers'[h]
             PROVE  h \in dog'[d].handlers
  BY DEF WaitersListed, Underway
<1>1. client[h] = "waiting" /\ m.nbr = numbers[h] /\ numbers[h] # 0
  BY DEF IInv, ClientType, Clients
<1>2. m \in Underway(d)
  BY <1>1 DEF Push
<1>3. h \in dog[d].handlers
  BY <1>1, <1>2 DEF WaitersListed, Underway
<1> QED BY <1>3

LEMMA SendKeepsListed ==
    ASSUME IInv, Numbered', WaitersListed, Idle,
           NEW d \in Conns, NEW c \in Clients, NEW handlers, NEW states,
           SendCommand(d, c, numbers'[c], handlers, states),
           dog[d].handlers \subseteq handlers, c \in Pages => c \in handlers,
           \A h \in Pages : client'[h] = "waiting" =>
                \/ client[h] = "waiting" /\ numbers'[h] = numbers[h]
                \/ h = c /\ numbers'[h] = nbr + 1
    PROVE  WaitersListed'
<1> DEFINE new == Message(c, numbers'[c], sent[c] + 1)
<1> SUFFICES ASSUME NEW e \in Conns, NEW h \in Pages, client'[h] = "waiting",
                    NEW m \in Underway(e)', m.nbr = numbers'[h]
             PROVE  h \in dog'[e].handlers
  BY DEF WaitersListed, Underway
<1>1. ASSUME m \in Underway(e) PROVE h \in dog[e].handlers /\ dog[e].stream = "open"
  <2>1. dog[e].stream = "open"
    BY <1>1 DEF Idle
  <2>2. CASE client[h] = "waiting" /\ numbers'[h] = numbers[h]
    BY <1>1, <2>1, <2>2 DEF WaitersListed, Underway
  <2>3. CASE h = c /\ numbers'[h] = nbr + 1
    <3>1. m.nbr = nbr + 1 /\ nbr \in Nat
      BY <2>3 DEF IInv, ClientType
    <3> QED BY <1>1, <3>1, UnderwayNumbered DEF Push
  <2> QED BY <2>2, <2>3
<1>2. CASE Destroyed(d, states)
  <2>1. process' = [process EXCEPT ![d] = Ended] /\ dog' = [dog EXCEPT ![d] = Closed]
    BY <1>2 DEF Destroyed
  <2>2. e # d
    <3>1. process'[d] = Ended
      BY <2>1 DEF IInv, Traffic
    <3>2. Underway(d)' = {}
      BY <3>1 DEF Underway, Ended, Range
    <3> QED BY <3>2
  <2>3. m \in Underway(e)
    <3>1. process'[e] = process[e]
      BY <2>1, <2>2 DEF IInv, Traffic
    <3> QED BY <3>1 DEF Underway
  <2> QED BY <1>1, <2>1, <2>2, <2>3 DEF IInv, DogType
<1>3. CASE Written(d, c, numbers'[c], handlers, states)
  <2>1. /\ dog' = [dog EXCEPT ![d] =
                    [stream |-> "open", reading |-> TRUE, handlers |-> handlers]]
        /\ process' = [process EXCEPT ![d].wire = Append(@, new)]
    BY <1>3 DEF Written
  <2>2. CASE m \in Underway(e)
    BY <1>1, <2>1, <2>2 DEF IInv, DogType
  <2>3. CASE m \notin Underway(e)
    <3>1. e = d /\ m = new
      <4> HIDE DEF new
      <4>1. e = d
        BY <2>1, <2>3 DEF Underway, IInv, Traffic
      <4>2. /\ process'[d].wire = Append(process[d].wire, new)
            /\ process'[d].threads = process[d].threads /\ process'[d].back = process[d].back
        BY <2>1 DEF IInv, Traffic, Processes
      <4>3. process[d].wire \in Seq(Pending)
        BY DEF IInv, Traffic, Processes
      <4>4. Range(Append(process[d].wire, new)) \subseteq Range(process[d].wire) \cup {new}
        BY <4>3 DEF Range
      <4> QED BY <2>3, <4>1, <4>2, <4>4 DEF Underway
    <3>2. m.nbr = numbers'[c]
      BY <3>1 DEF Message
    <3>3. numbers'[h] # 0
      <4>1. CASE client[h] = "waiting" /\ numbers'[h] = numbers[h]
        BY <4>1 DEF IInv, ClientType, Clients
      <4>2. CASE numbers'[h] = nbr + 1
        BY <4>2 DEF IInv, ClientType
      <4> QED BY <4>1, <4>2
    <3>4. h = c
      BY <3>2, <3>3 DEF Numbered, Clients
    <3> QED BY <2>1, <3>1, <3>4 DEF IInv, DogType
  <2> QED BY <2>2, <2>3
<1> QED BY <1>2, <1>3 DEF SendCommand

\* What a dog reads it answers, if at all; what it answers is taken off once.
LEMMA DogMoves ==
    ASSUME IInv, NEW d \in Conns,
           CommandCallback(d) \/ RunCommand(d) \/ StartThread(d) \/ Raise(d) \/ FinishThread(d),
           NEW e \in Conns
    PROVE  Underway(e)' \subseteq Underway(e) \cup {Push}
<1>1. /\ process[e].wire \in Seq(Pending) /\ process[e].back \in Seq(Handled \cup {Push})
      /\ process[d] \in Processes
  BY DEF IInv, Traffic, Processes
<1>2. CASE e # d
  <2>1. process'[e] = process[e]
    BY <1>2 DEF CommandCallback, RunCommand, StartThread, Raise, OnData, FinishThread,
        IInv, Traffic
  <2> QED BY <2>1 DEF Underway
<1>3. CASE e = d /\ CommandCallback(d)
  <2>1. /\ process'[e].wire = process[e].wire /\ process'[e].threads = process[e].threads
        /\ process'[e].back = Tail(process[e].back) /\ process[e].back # <<>>
    BY <1>3 DEF CommandCallback, IInv, Traffic, Processes
  <2>2. Range(Tail(process[e].back)) \subseteq Range(process[e].back)
    BY <1>1, <2>1 DEF Range
  <2> QED BY <2>1, <2>2 DEF Underway
<1>4. CASE e = d /\ FinishThread(d)
  <2>1. PICK m \in process[e].threads, answered \in BOOLEAN :
            process' = [process EXCEPT ![e].threads = @ \ {m},
                                       ![e].back = IF answered THEN Append(@, m) ELSE @]
    BY <1>4 DEF FinishThread
  <2>2. /\ process'[e].wire = process[e].wire /\ process'[e].threads \subseteq process[e].threads
        /\ process'[e].back \in {process[e].back, Append(process[e].back, m)}
    BY <2>1 DEF IInv, Traffic, Processes
  <2>3. Range(Append(process[e].back, m)) \subseteq Range(process[e].back) \cup {m}
    BY <1>1 DEF Range
  <2>4. Range(process'[e].back) \subseteq Range(process[e].back) \cup {m}
    BY <2>2, <2>3
  <2>5. m \in process[e].threads
    BY <2>1
  <2> QED BY <2>2, <2>4, <2>5 DEF Underway
<1>5. ASSUME e = d, NEW answers \in 0 .. 2, NEW pushes \in 0 .. 1, NEW threaded \in BOOLEAN,
             NEW listening \in BOOLEAN, OnData(d, answers, pushes, threaded, listening)
      PROVE  Underway(e)' \subseteq Underway(e) \cup {Push}
  <2> DEFINE m == Head(process[e].wire)
             s == [i \in 1 .. answers |-> m]
             p == [i \in 1 .. pushes |-> Push]
  <2>1. /\ process[e].wire # <<>> /\ process'[e].wire = Tail(process[e].wire)
        /\ process'[e].threads \subseteq process[e].threads \cup {m}
        /\ process'[e].back = process[e].back \o s \o p
    BY <1>5 DEF OnData, IInv, Traffic, Processes
  <2>2. m \in Range(process[e].wire) /\ Range(Tail(process[e].wire)) \subseteq Range(process[e].wire)
    BY <1>1, <2>1 DEF Range
  <2>3. Range(process[e].back \o s \o p) \subseteq Range(process[e].back) \cup {m, Push}
    <3>1. s \in Seq({m}) /\ p \in Seq({Push})
      OBVIOUS
    <3> DEFINE T == Range(process[e].back) \cup {m, Push}
    <3>2. process[e].back \in Seq(T)
      BY <1>1, Retyped DEF Range
    <3>3. s \in Seq(T) /\ p \in Seq(T)
      BY <3>1, Retyped
    <3>4. process[e].back \o s \o p \in Seq(T)
      <4> HIDE DEF T, s, p
      <4> QED BY <3>2, <3>3
    <3>5. \A q \in Seq(T) : Range(q) \subseteq T
      <4> HIDE DEF T, s, p
      <4> QED BY DEF Range
    <3> QED BY <3>4, <3>5
  <2> HIDE DEF m, s, p
  <2> QED BY <2>1, <2>2, <2>3 DEF Underway
<1>6. CASE e = d /\ RunCommand(d)
  <2>1. PICK answers \in 1 .. 2, pushes \in 0 .. 1 : OnData(d, answers, pushes, FALSE, TRUE)
    BY <1>6 DEF RunCommand
  <2>2. answers \in 0 .. 2
    OBVIOUS
  <2> QED BY <1>5, <1>6, <2>1, <2>2
<1>7. CASE e = d /\ StartThread(d)
  <2>1. PICK pushes \in 0 .. 1 : OnData(d, 0, pushes, TRUE, TRUE)
    BY <1>7 DEF StartThread
  <2>2. 0 \in 0 .. 2
    OBVIOUS
  <2> QED BY <1>5, <1>7, <2>1, <2>2
<1>8. CASE e = d /\ Raise(d)
  <2>1. PICK answers \in 0 .. 1 : OnData(d, answers, 0, FALSE, FALSE)
    BY <1>8 DEF Raise
  <2>2. answers \in 0 .. 2 /\ 0 \in 0 .. 1
    OBVIOUS
  <2> QED BY <1>5, <1>8, <2>1, <2>2
<1> QED BY <1>2, <1>3, <1>4, <1>6, <1>7, <1>8

LEMMA ListedKept == IInv /\ Idle /\ WaitersListed /\ [Next]_vars => WaitersListed'
<1> SUFFICES ASSUME IInv, Idle, WaitersListed, [Next]_vars PROVE WaitersListed'
  OBVIOUS
<1>1. Numbered'
  BY ClientsKept
<1>2. Pages \subseteq Clients /\ Sockets \subseteq Clients
  BY DEF Clients
<1>3. ASSUME NEW h \in Pages, Get(h) PROVE WaitersListed'
  <2> DEFINE handlers == dog[dogs].handlers \cup {h}
             states == [client EXCEPT ![h] = "waiting"]
  <2>1. /\ dogs \in Conns /\ h \in Clients /\ numbers'[h] = AssignNbr
        /\ SendCommand(dogs, h, numbers'[h], handlers, states)
    BY <1>3 DEF Get, Find, IInv, DogType, ClientType, Clients
  <2>2. \A g \in Pages : client'[g] = "waiting" =>
            \/ client[g] = "waiting" /\ numbers'[g] = numbers[g]
            \/ g = h /\ numbers'[g] = nbr + 1
    BY <1>2, <1>3, <2>1 DEF Get, Find, SendCommand, Written, Destroyed, Disconnected, AssignNbr, IInv, ClientType
  <2>3. dog[dogs].handlers \subseteq handlers /\ h \in handlers
    OBVIOUS
  <2> HIDE DEF handlers, states
  <2> QED BY <1>1, <2>1, <2>2, <2>3, SendKeepsListed
<1>4. ASSUME NEW w \in Sockets, OnMessage(w) PROVE WaitersListed'
  <2>1. /\ dogs \in Conns /\ w \in Clients /\ w \notin Pages /\ numbers' = numbers
        /\ SendCommand(dogs, w, numbers'[w], dog[dogs].handlers, client)
    BY <1>4, RelayAssumption DEF OnMessage, IInv, DogType, Clients
  <2>2. \A g \in Pages : client'[g] = "waiting" => client[g] = "waiting"
    BY <1>2, <2>1 DEF SendCommand, Written, Destroyed, Disconnected
  <2> QED BY <1>1, <2>1, <2>2, SendKeepsListed
<1>5. ASSUME UNCHANGED process PROVE \A d \in Conns : Underway(d)' \subseteq Underway(d) \cup {Push}
  BY <1>5 DEF Underway
<1>6. ASSUME NEW c \in Clients,
             GetAlbumArt(c) \/ ArtFetched(c) \/ Open(c) \/ FindNoDog(c) \/ Leave(c)
      PROVE  WaitersListed'
  <2>1. /\ process' = process
        /\ \A h \in Pages : client'[h] = "waiting"
                            => client[h] = "waiting" /\ numbers'[h] = numbers[h]
        /\ \A d \in Conns : dog[d].handlers \subseteq dog'[d].handlers
    BY <1>2, <1>6 DEF GetAlbumArt, ArtFetched, Open, FindNoDog, Leave, Find, IInv, DogType, ClientType
  <2> QED BY <1>5, <2>1, NothingSent
<1>7. ASSUME NEW d \in Conns, Accept(d) \/ SetUsername(d) \/ Lose(d) PROVE WaitersListed'
  <2>1. \A h \in Pages : client'[h] = "waiting" => client[h] = "waiting" /\ numbers'[h] = numbers[h]
    BY <1>2, <1>7 DEF Accept, SetUsername, Lose, Disconnected, clients
  <2>2. ASSUME NEW e \in Conns
        PROVE  \/ Underway(e)' = {}
               \/ Underway(e)' = Underway(e) /\ dog'[e].handlers = dog[e].handlers
    <3>1. CASE process'[e] = Ended
      BY <3>1 DEF Underway, Ended, Range
    <3>2. CASE process'[e] # Ended
      <4>1. /\ dog'[e].handlers = dog[e].handlers
            /\ process'[e] \in {process[e], [process[e] EXCEPT !.listening = TRUE]}
        BY <1>7, <3>2 DEF Accept, SetUsername, Lose, IInv, DogType, Traffic
      <4>2. /\ process'[e].wire = process[e].wire /\ process'[e].threads = process[e].threads
            /\ process'[e].back = process[e].back
        BY <4>1 DEF IInv, Traffic, Processes
      <4> QED BY <4>1, <4>2 DEF Underway
    <3> QED BY <3>1, <3>2
  <2> QED BY <2>1, <2>2, NothingSent
<1>8. ASSUME NEW d \in Conns,
             CommandCallback(d) \/ RunCommand(d) \/ StartThread(d) \/ Raise(d) \/ FinishThread(d)
      PROVE  WaitersListed'
  <2>1. CASE CommandCallback(d)
    <3>1. \A h \in Pages : client'[h] = "waiting" => client[h] = "waiting" /\ numbers'[h] = numbers[h]
      <4>1. numbers' = numbers /\ client' = [c \in Clients |->
                IF c \in Receivers(d, Head(process[d].back)) \cap Pages THEN "done" ELSE client[c]]
        BY <2>1 DEF CommandCallback
      <4> QED BY <1>2, <4>1
    <3>2. \A e \in Conns : \A h \in Pages :
              client[h] = "waiting" /\ h \in dog[e].handlers => h \in dog'[e].handlers
      <4>1. dog' = [dog EXCEPT ![d].handlers = {c \in @ : Active(c)}]
        BY <2>1 DEF CommandCallback
      <4> QED BY <4>1 DEF Active, IInv, DogType
    <3> QED BY <1>8, <3>1, <3>2, DogMoves, NothingSent
  <2>2. CASE ~ CommandCallback(d)
    <3>1. dog' = dog /\ client' = client /\ numbers' = numbers
      BY <1>8, <2>2 DEF RunCommand, StartThread, Raise, OnData, FinishThread, clients
    <3> QED BY <1>8, <3>1, DogMoves, NothingSent
  <2> QED BY <2>1, <2>2
<1>9. CASE UNCHANGED vars
  BY <1>9 DEF vars, clients, WaitersListed
<1> QED
  BY <1>2, <1>3, <1>4, <1>6, <1>7, <1>8, <1>9 DEF Next, ClientStep, DogStep

\* Cleaning up after one answer never drops the handler of a request under way.
THEOREM WaitersStayListed == Spec => []WaitersListed
<1>1. Init => Idle /\ WaitersListed
  <2> SUFFICES ASSUME Init, NEW d \in Conns PROVE Underway(d) = {}
    BY DEF Idle, WaitersListed, Underway
  <2> QED BY DEF Init, Underway, Ended, Range
<1>2. IInv /\ Idle /\ WaitersListed /\ [Next]_vars => (Idle /\ WaitersListed)'
  BY IdleKept, ListedKept
<1> QED BY <1>1, <1>2, RelayInvariance, PTL DEF Spec
===============================================================================
