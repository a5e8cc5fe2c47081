---------------------------- MODULE SqlSessions ----------------------------
(***************************************************************************)
(* The connections of the SQLite-backed exchange: the client program       *)
(* (client_account.cpp, a main thread and a listener), and in the server   *)
(* the acceptor, a detached thread per connection and the registry through *)
(* which any thread pushes a notification to a client (server.cpp).  What  *)
(* a command does to the market is in SqlServer; here it is only a reason  *)
(* to push.  The sockets are the kernel's: a stream each way, a descriptor *)
(* in the server, and a peer that may be gone.                             *)
(***************************************************************************)
EXTENDS Integers, Sequences, FiniteSets, FiniteSetsExt, SequencesExt

CONSTANTS
  Programs,      \* a program is started once
  Clients,
  Nobody,        \* the client id -1
  Owners,        \* who may start the programs
  MaxEvents      \* bound: commands typed, and trades made outside a session

ASSUME SessionsAssumption ==
  /\ IsFiniteSet(Programs) /\ "market" \notin Programs
  /\ Nobody \notin Clients
  /\ Owners \subseteq [Programs -> Clients \cup {Nobody}]
  /\ MaxEvents \in Nat

VARIABLES
  owner,       \* whose name and password the program is given, Nobody's if they are wrong
  program,     \* where the main thread of the program is
  isRunning,   \* is_running
  listener,    \* listen_to_server: "none", "reading", "ended"
  clientId,    \* the client_id the program believes to have
  up, down,    \* the two streams of its connection, message by message
  shut,        \* programs that have shut their socket down
  fd,          \* the server's descriptor of the connection, 0 when there is none
  session,     \* the thread of the connection: where it is, current_client_id
  registry,    \* client_sockets: client -> descriptor, 0 when there is none
  todo, hand,  \* thread -> clients to notify; what it has looked up (a set)
  acceptor,    \* accept_clients
  closed,      \* shutdown_flag
  alive,       \* the server's process
  events,
  raced        \* ghost: clients with two sessions at once, or a push outliving one

server == <<fd, session, registry, todo, hand, acceptor, closed, alive>>
programs == <<owner, program, isRunning, listener, clientId, shut>>
vars == <<programs, up, down, server, events, raced>>

Threads == Programs \cup {"market"}
NoFd == 0
NoSession == [at |-> "none", client |-> Nobody]

Message(kind, client) == [kind |-> kind, client |-> client, meant |-> {}]

\* The program whose connection has descriptor n (a set).
Holder(n) == {p \in Programs : n # NoFd /\ fd[p] = n}

\* The server's end of the connection is closed: the program reads 0.
HungUp(p) == ~alive \/ session[p].at = "ended"

-----------------------------------------------------------------------------
\* The client program

\* It connects when the server listens, and asks at once.  The connection that
\* finds out, which says nothing, is left out.
Launch(p) ==
  /\ program[p] = "off" /\ alive
  /\ program' = [program EXCEPT ![p] = "auth"]
  /\ up' = [up EXCEPT ![p] = <<Message("auth", Nobody)>>]
  /\ UNCHANGED <<owner, isRunning, listener, clientId, shut, down, server, events>>

\* The process ends, and its socket with it.
EndProgram(p) ==
  /\ program' = [program EXCEPT ![p] = "ended"]
  /\ shut' = shut \cup {p}

\* What is neither a success nor a failure is taken for a success, with no id.
Authenticated(p) ==
  /\ program[p] = "auth" /\ down[p] # <<>>
  /\ Head(down[p]).kind # "refused"
  /\ clientId' = [clientId EXCEPT ![p] =
       IF Head(down[p]).kind = "welcome" THEN owner[p] ELSE Nobody]
  /\ up' = [up EXCEPT ![p] = Append(@, Message("connected", clientId'[p]))]
  /\ down' = [down EXCEPT ![p] = Tail(@)]
  /\ program' = [program EXCEPT ![p] = "open"]
  /\ listener' = [listener EXCEPT ![p] = "reading"]
  /\ UNCHANGED <<owner, isRunning, shut, server, events>>

Turned(p) ==
  /\ program[p] = "auth"
  /\ IF down[p] = <<>> THEN HungUp(p) ELSE Head(down[p]).kind = "refused"
  /\ EndProgram(p)
  /\ UNCHANGED <<owner, isRunning, listener, clientId, up, down, server, events>>

\* listen_to_server: one read, and is_running is looked at before the next.
Listen(p) ==
  /\ listener[p] = "reading"
  /\ \/ /\ down[p] # <<>>
        /\ down' = [down EXCEPT ![p] = Tail(@)]
        /\ listener' = [listener EXCEPT ![p] = IF isRunning[p] THEN @ ELSE "ended"]
        /\ UNCHANGED isRunning
     \/ /\ down[p] = <<>>
        /\ HungUp(p) \/ p \in shut
        /\ listener' = [listener EXCEPT ![p] = "ended"]
        /\ isRunning' = [isRunning EXCEPT ![p] = FALSE]
        /\ UNCHANGED down
  /\ UNCHANGED <<owner, program, clientId, shut, up, server, events>>

\* A line is sent as it is typed, with the id put before it.  "exit " with a
\* blank is sent; the word alone is not.
Type(p) ==
  /\ program[p] = "open" /\ isRunning[p]
  /\ events < MaxEvents
  /\ events' = events + 1
  /\ \E kind \in {"order", "exit"} :
       up' = [up EXCEPT ![p] = Append(@, Message(kind, clientId[p]))]
  /\ UNCHANGED <<programs, down, server>>

\* SIGPIPE is not ignored here: a line for a server that is gone ends the program.
BrokenPipe(p) ==
  /\ program[p] = "open" /\ isRunning[p] /\ HungUp(p)
  /\ EndProgram(p)
  /\ listener' = [listener EXCEPT ![p] = "ended"]
  /\ UNCHANGED <<owner, isRunning, clientId, up, down, server, events>>

UserExits(p) ==
  /\ program[p] = "open" /\ isRunning[p]
  /\ isRunning' = [isRunning EXCEPT ![p] = FALSE]
  /\ UNCHANGED <<owner, program, listener, clientId, shut, up, down, server, events>>

\* Slip: the socket is closed and not shut down, and the listener stays in read().
LeaveByClose(p) ==
  /\ program[p] = "open" /\ ~isRunning[p]
  /\ program' = [program EXCEPT ![p] = "joining"]
  /\ UNCHANGED <<owner, isRunning, listener, clientId, shut, up, down, server, events>>

\* shutdown() wakes the listener.
Leave(p) ==
  /\ program[p] = "open" /\ ~isRunning[p]
  /\ program' = [program EXCEPT ![p] = "joining"]
  /\ shut' = shut \cup {p}
  /\ UNCHANGED <<owner, isRunning, listener, clientId, up, down, server, events>>

Join(p) ==
  /\ program[p] = "joining" /\ listener[p] = "ended"
  /\ EndProgram(p)
  /\ UNCHANGED <<owner, isRunning, listener, clientId, up, down, server, events>>

-----------------------------------------------------------------------------
\* The server

\* select() and accept().  The loop looks at shutdown_flag when it is done with
\* one; a descriptor is the lowest that is free.
Accept(p) ==
  /\ alive /\ acceptor = "waiting"
  /\ program[p] # "off" /\ session[p] = NoSession
  /\ fd' = [fd EXCEPT ![p] = Min({n \in 1 .. Cardinality(Programs) : Holder(n) = {}})]
  /\ session' = [session EXCEPT ![p].at = "read"]
  /\ acceptor' = IF closed THEN "ended" ELSE "waiting"
  /\ UNCHANGED <<programs, up, down, registry, todo, hand, closed, alive, events>>

\* The timeout of select().
StopAccepting ==
  /\ alive /\ closed
  /\ acceptor' = "ended"
  /\ acceptor = "waiting"
  /\ UNCHANGED <<programs, up, down, fd, session, registry, todo, hand, closed, alive, events>>

\* Back to the head of the loop of handle_client.
LoopHead(at) == [at EXCEPT !.at = IF closed THEN "ending" ELSE "read"]

RegisterClientSocket(client, n) ==
  registry' = IF client = Nobody THEN registry ELSE [registry EXCEPT ![client] = n]

UnregisterClientSocket(client) == RegisterClientSocket(client, NoFd)

\* One read takes what has arrived, which may be several messages: what stands
\* behind the one that is recognised is lost, and two orders are none.
Read(p, messages) ==
  /\ alive /\ session[p].at = "read"
  /\ up' = [up EXCEPT ![p] = SubSeq(@, Len(messages) + 1, Len(@))]
  /\ UNCHANGED <<programs, fd, hand, acceptor, closed, alive, events>>

Mentions(messages, kind) == \E i \in DOMAIN messages : messages[i].kind = kind

Authenticate(p, messages) ==
  /\ Read(p, messages)
  /\ Head(messages).kind = "auth"
  /\ down' = [down EXCEPT ![p] =
       Append(@, Message(IF owner[p] # Nobody /\ Len(messages) = 1 THEN "welcome" ELSE "refused",
                         Nobody))]
  /\ session' = [session EXCEPT ![p] = LoopHead(@)]
  /\ UNCHANGED <<registry, todo>>

Connected(p, messages) ==
  /\ Read(p, messages)
  /\ Head(messages).kind # "auth" /\ Mentions(messages, "connected")
  /\ LET client == Head(messages).client
     IN  /\ RegisterClientSocket(client, fd[p])
         /\ session' = [session EXCEPT ![p] = LoopHead([@ EXCEPT !.client = client])]
  /\ UNCHANGED <<down, todo>>

ExitKeyword(p, messages) ==
  /\ Read(p, messages)
  /\ ~Mentions(messages, "connected") /\ Mentions(messages, "exit")
  /\ session' = [session EXCEPT ![p].at = "ending"]
  /\ UNCHANGED <<down, registry, todo>>

\* Whom an order that is taken trades with, and for whom.
Parties == {<<>>} \cup (Clients \X Clients)

\* An order may be refused, and is if no client sent it; of several that are read as
\* one the first may still make sense.  One that is taken is acknowledged by a push,
\* and may trade at once.
PlaceOrder(p, messages) ==
  /\ Read(p, messages)
  /\ \A i \in DOMAIN messages : messages[i].kind = "order"
  /\ \/ session' = [session EXCEPT ![p] = LoopHead(@)] /\ UNCHANGED todo
     \/ /\ Head(messages).client # Nobody
        /\ session' = [session EXCEPT ![p].at = "serve"]
        /\ \E parties \in Parties :
             todo' = [todo EXCEPT ![p] = <<Head(messages).client>> \o parties]
  /\ UNCHANGED <<down, registry>>

Served(p) ==
  /\ alive /\ session[p].at = "serve"
  /\ todo[p] = <<>> /\ hand[p] = {}
  /\ session' = [session EXCEPT ![p] = LoopHead(@)]
  /\ UNCHANGED <<programs, up, down, fd, registry, todo, hand, acceptor, closed, alive, events>>

\* Or a reset, which overtakes what the program has sent.
EndOfStream(p) ==
  /\ alive /\ session[p].at = "read"
  /\ (up[p] = <<>> /\ p \in shut) \/ program[p] = "ended"
  /\ session' = [session EXCEPT ![p].at = "ending"]
  /\ UNCHANGED <<programs, up, down, fd, registry, todo, hand, acceptor, closed, alive, events>>

\* Slip: the descriptor is closed before it leaves the registry.
CloseFirst(p) ==
  /\ alive /\ session[p].at = "ending"
  /\ fd' = [fd EXCEPT ![p] = NoFd]
  /\ session' = [session EXCEPT ![p].at = "ended"]
  /\ UNCHANGED <<programs, up, down, registry, todo, hand, acceptor, closed, alive, events>>

\* The entry is erased whichever connection it names.
Unregister(p) ==
  /\ alive /\ session[p].at = "ending"
  /\ UnregisterClientSocket(session[p].client)
  /\ session' = [session EXCEPT ![p].at = "closing"]
  /\ UNCHANGED <<programs, up, down, fd, todo, hand, acceptor, closed, alive, events>>

Close(p) ==
  /\ alive /\ session[p].at = "closing"
  /\ fd' = [fd EXCEPT ![p] = NoFd]
  /\ session' = [session EXCEPT ![p].at = "ended"]
  /\ UNCHANGED <<programs, up, down, registry, todo, hand, acceptor, closed, alive, events>>

-----------------------------------------------------------------------------
\* Pushes

\* The fixing or the watcher trades: the buyer is told, then the seller.
Trade ==
  /\ alive /\ todo["market"] = <<>> /\ hand["market"] = {}
  /\ events < MaxEvents
  /\ events' = events + 1
  /\ \E b, s \in Clients : todo' = [todo EXCEPT !["market"] = <<b, s>>]
  /\ UNCHANGED <<programs, up, down, fd, session, registry, hand, acceptor, closed, alive>>

\* Slip: the entry is taken out of the registry, and not only read.
LookUpAndErase(t) ==
  /\ alive /\ todo[t] # <<>> /\ hand[t] = {}
  /\ LET client == Head(todo[t])
         n == registry[client]
     IN  /\ hand' = [hand EXCEPT ![t] = IF n = NoFd THEN {}
                       ELSE {[client |-> client, fd |-> n, to |-> Holder(n)]}]
         /\ registry' = [registry EXCEPT ![client] = NoFd]
  /\ todo' = [todo EXCEPT ![t] = Tail(@)]
  /\ UNCHANGED <<programs, up, down, fd, session, acceptor, closed, alive, events>>

\* send_to_client takes the descriptor under the mutex of the registry ...
LookUp(t) ==
  /\ alive /\ todo[t] # <<>> /\ hand[t] = {}
  /\ LET client == Head(todo[t])
         n == registry[client]
     IN  hand' = [hand EXCEPT ![t] = IF n = NoFd THEN {}
                    ELSE {[client |-> client, fd |-> n, to |-> Holder(n)]}]
  /\ todo' = [todo EXCEPT ![t] = Tail(@)]
  /\ UNCHANGED <<programs, up, down, fd, session, registry, acceptor, closed, alive, events>>

\* ... and uses it without.  Whoever has the descriptor by then gets the message.
Push(t) ==
  /\ alive
  /\ \E push \in hand[t] : \E p \in Holder(push.fd) :
       down' = IF p \in shut THEN down ELSE
                 [down EXCEPT ![p] = Append(@, [kind |-> "push", client |-> push.client,
                                                meant |-> push.to])]
  /\ hand' = [hand EXCEPT ![t] = {}]
  /\ UNCHANGED <<programs, up, fd, session, registry, todo, acceptor, closed, alive, events>>

\* A send() that fails: the descriptor is closed, or its peer is gone.
PushFails(t) ==
  /\ alive
  /\ \E push \in hand[t] :
       /\ Holder(push.fd) \subseteq shut
       /\ UnregisterClientSocket(push.client)
  /\ hand' = [hand EXCEPT ![t] = {}]
  /\ UNCHANGED <<programs, up, down, fd, session, todo, acceptor, closed, alive, events>>

-----------------------------------------------------------------------------

\* market_session ends.
CloseMarket ==
  /\ alive /\ ~closed
  /\ closed' = TRUE
  /\ UNCHANGED <<programs, up, down, fd, session, registry, todo, hand, acceptor, alive, events>>

\* main waits for the market, the watcher and the acceptor, not for the detached
\* sessions.
Exit ==
  /\ alive /\ closed /\ acceptor = "ended"
  /\ todo["market"] = <<>> /\ hand["market"] = {}
  /\ alive' = FALSE
  /\ UNCHANGED <<programs, up, down, fd, session, registry, todo, hand, acceptor, closed, events>>

Init ==
  /\ owner \in Owners
  /\ program = [p \in Programs |-> "off"]
  /\ isRunning = [p \in Programs |-> TRUE]
  /\ listener = [p \in Programs |-> "none"]
  /\ clientId = [p \in Programs |-> Nobody]
  /\ up = [p \in Programs |-> <<>>] /\ down = [p \in Programs |-> <<>>]
  /\ shut = {}
  /\ fd = [p \in Programs |-> NoFd]
  /\ session = [p \in Programs |-> NoSession]
  /\ registry = [c \in Clients |-> NoFd]
  /\ todo = [t \in Threads |-> <<>>] /\ hand = [t \in Threads |-> {}]
  /\ acceptor = "waiting" /\ closed = FALSE /\ alive = TRUE
  /\ events = 0
  /\ raced = {}

MainThread(p) == Authenticated(p) \/ Turned(p) \/ Leave(p) \/ Join(p)

Program(p) ==
  Launch(p) \/ MainThread(p) \/ Listen(p) \/ Type(p) \/ BrokenPipe(p) \/ UserExits(p)

HandleClient(p) ==
  \/ \E n \in 1 .. Len(up[p]) :
       LET messages == SubSeq(up[p], 1, n)
       IN  \/ Authenticate(p, messages) \/ Connected(p, messages)
           \/ ExitKeyword(p, messages) \/ PlaceOrder(p, messages)
  \/ Served(p) \/ EndOfStream(p) \/ Unregister(p) \/ Close(p)

AcceptClients == StopAccepting \/ \E p \in Programs : Accept(p)

SendToClient(t) == LookUp(t) \/ Push(t) \/ PushFails(t)

\* The sessions whose client is c, from CLIENT_CONNECTED to close().
SessionsOf(c) == {p \in Programs : session[p].client = c /\ fd[p] # NoFd}

Racing ==
  {c \in Clients :
     \/ Cardinality(SessionsOf(c)) > 1
     \/ \E t \in Threads : \E push \in hand[t] : push.client = c /\ Holder(push.fd) # push.to}

Watched == raced' = raced \cup Racing'

Next ==
  /\ \/ \E p \in Programs : Program(p) \/ HandleClient(p)
     \/ \E t \in Threads : SendToClient(t)
     \/ AcceptClients \/ Trade \/ CloseMarket \/ Exit
  /\ Watched

\* While a thread of a program or of the server can go on, one does; nothing they do
\* can be repeated for ever, so none is kept from its turn.  Nobody has to start a
\* program, to type or to trade, and the market may stay open.
Running ==
  \/ \E p \in Programs : MainThread(p) \/ Listen(p) \/ HandleClient(p)
  \/ \E t \in Threads : SendToClient(t)
  \/ AcceptClients \/ Exit

Fairness == WF_vars(Running /\ Watched)

Spec == Init /\ [][Next]_vars /\ Fairness

-----------------------------------------------------------------------------

\* send_to_client reads the descriptor under the registry's mutex and sends without
\* it.  A push reaches another client's program only if the connection it was looked
\* up for was closed in between and its descriptor given to another: whatever else
\* the sessions, the acceptor and the pushing threads do, the registry never names a
\* descriptor that is not of a session of that client.
PushesReachTheirClient ==
  \A p \in Programs : \A i \in DOMAIN down[p] :
    LET message == down[p][i]
    IN  message.kind = "push" /\ p \in message.meant => message.client = owner[p]

\* "registry mapping a connected client's id to its live socket fd" (server.cpp:9).
\* A session erases its client's entry whichever connection it names, and so does a
\* push that fails; still, a client that never has two sessions at once, and no push
\* that outlives one, is reachable from CLIENT_CONNECTED to the end of its session.
ReachableUnlessRaced ==
  \A p \in Programs : \A c \in Clients \ raced :
    alive /\ p \in SessionsOf(c) \ shut /\ session[p].at \in {"read", "serve"} => registry[c] = fd[p]

\* The client's program ends when its user leaves, although its listener is blocked
\* in read(), and when the server exits, whatever it was waiting for.
ProgramsEnd ==
  \A p \in Programs :
    ~isRunning[p] \/ (~alive /\ program[p] # "off") ~> program[p] = "ended"
=============================================================================
