---------------------------- MODULE Connections ----------------------------
(***************************************************************************)
(* A WebSocket connection (api/ws_handler.go): its reader, its writer, the *)
(* conversions it started, and the broadcasts to the administrators        *)
(* (services/websocket_manager.go).  All of them send to one channel of    *)
(* Cap messages, which only the connection's writer empties and nobody     *)
(* ever closes.  What a conversion does is in ConvertedFiles.              *)
(***************************************************************************)
EXTENDS Integers, Sequences

CONSTANTS
    Conns,     \* connections
    Admins,    \* those of administrators
    Convs,     \* conversions
    Cap,       \* capacity of notifyChan
    MaxOther,  \* bound on the pings and broadcasts
    Pong, Event

ASSUME ConnectionsAssumption ==
    /\ Admins \subseteq Conns
    /\ Cap \in Nat \ {0} /\ MaxOther \in Nat
    /\ Pong \notin Convs /\ Event \notin Convs

VARIABLES
    live,      \* live[c]: the network connection is open
    clients,   \* the connections the manager knows
    reader,    \* reader[c]: where the reader goroutine is
    writer,    \* writer[c]: where the writer loop is
    queue,     \* queue[c]: notifyChan
    hand,      \* hand[c]: the message being written
    conv,      \* conv[v]: where conversion v is, and for whom
    others,    \* pings and broadcasts so far
    told       \* conversions whose result was written to the client

vars == <<live, clients, reader, writer, queue, hand, conv, others, told>>

Conv(at, c) == [at |-> at, conn |-> c]
Messages    == Convs \cup {Pong, Event}

TypeOK ==
    /\ live \in [Conns -> BOOLEAN] /\ clients \subseteq Conns
    /\ reader \in [Conns -> {"off", "read", "pong", "left"}]
    /\ writer \in [Conns -> {"off", "select", "write", "unregister", "left"}]
    /\ queue \in [Conns -> Seq(Messages)] /\ \A c \in Conns : Len(queue[c]) <= Cap
    /\ hand \in [Conns -> Messages]
    /\ conv \in [Convs -> [at : {"idle", "work", "send", "done"}, conn : Conns]]
    /\ others \in 0..MaxOther
    /\ told \subseteq Convs

Init ==
    /\ live = [c \in Conns |-> FALSE] /\ clients = {}
    /\ reader = [c \in Conns |-> "off"] /\ writer = [c \in Conns |-> "off"]
    /\ queue = [c \in Conns |-> <<>>] /\ hand = [c \in Conns |-> Pong]
    /\ conv \in [Convs -> {Conv("idle", c) : c \in Conns}]
    /\ others = 0 /\ told = {}

------------------------------------------------------------------------------
Room(c)    == Len(queue[c]) < Cap
Send(c, m) == queue' = [queue EXCEPT ![c] = Append(@, m)]

\* UnifiedWebSocketHandler, to the loop of the writer.
Connect(c) ==
    /\ writer[c] = "off"
    /\ live' = [live EXCEPT ![c] = TRUE]
    /\ clients' = clients \cup {c}
    /\ reader' = [reader EXCEPT ![c] = "read"]
    /\ writer' = [writer EXCEPT ![c] = "select"]
    /\ UNCHANGED <<queue, hand, conv, others, told>>

\* The client goes away, or the network does.
HangUp(c) ==
    /\ live[c]
    /\ live' = [live EXCEPT ![c] = FALSE]
    /\ UNCHANGED <<clients, reader, writer, queue, hand, conv, others, told>>

\* The reader: a ping, which it answers through the channel ...
ReadPing(c) ==
    /\ reader[c] = "read" /\ live[c] /\ others < MaxOther
    /\ others' = others + 1
    /\ reader' = [reader EXCEPT ![c] = "pong"]
    /\ UNCHANGED <<live, clients, writer, queue, hand, conv, told>>

SendPong(c) ==
    /\ reader[c] = "pong" /\ Room(c)
    /\ Send(c, Pong)
    /\ reader' = [reader EXCEPT ![c] = "read"]
    /\ UNCHANGED <<live, clients, writer, hand, conv, others, told>>

\* ... a request, which it leaves to a goroutine ...
ReadRequest(c, v) ==
    /\ reader[c] = "read" /\ live[c] /\ conv[v] = Conv("idle", c)
    /\ conv' = [conv EXCEPT ![v] = Conv("work", c)]
    /\ UNCHANGED <<live, clients, reader, writer, queue, hand, others, told>>

\* ... or the end, when it closes quit.
ReadEnd(c) ==
    /\ reader[c] = "read" /\ ~live[c]
    /\ reader' = [reader EXCEPT ![c] = "left"]
    /\ UNCHANGED <<live, clients, writer, queue, hand, conv, others, told>>

\* handleConversionRequest: converted or failed, there is a result to send ...
Converted(v) ==
    /\ conv[v].at = "work"
    /\ conv' = [conv EXCEPT ![v] = Conv("send", @.conn)]
    /\ UNCHANGED <<live, clients, reader, writer, queue, hand, others, told>>

\* Mutant: the goroutine gives up on a full channel.
SendOrDrop(v) ==
    /\ conv[v].at = "send"
    /\ IF Room(conv[v].conn) THEN Send(conv[v].conn, v) ELSE UNCHANGED queue
    /\ conv' = [conv EXCEPT ![v] = Conv("done", @.conn)]
    /\ UNCHANGED <<live, clients, reader, writer, hand, others, told>>

\* ... which waits for room.
SendResult(v) ==
    /\ conv[v].at = "send" /\ Room(conv[v].conn)
    /\ Send(conv[v].conn, v)
    /\ conv' = [conv EXCEPT ![v] = Conv("done", @.conn)]
    /\ UNCHANGED <<live, clients, reader, writer, hand, others, told>>

\* The writer's three cases.
Take(c) ==
    /\ writer[c] = "select" /\ queue[c] # <<>>
    /\ hand' = [hand EXCEPT ![c] = Head(queue[c])]
    /\ queue' = [queue EXCEPT ![c] = Tail(@)]
    /\ writer' = [writer EXCEPT ![c] = "write"]
    /\ UNCHANGED <<live, clients, reader, conv, others, told>>

WriterAt(c, place) == writer' = [writer EXCEPT ![c] = place]

\* A write succeeds, or fails within five seconds and ends the loop.
WriteMessage(c) ==
    /\ writer[c] = "write"
    /\ \/ /\ live[c] /\ WriterAt(c, "select")
          /\ told' = told \cup ({hand[c]} \cap Convs)
       \/ WriterAt(c, "unregister") /\ UNCHANGED told
    /\ hand' = [hand EXCEPT ![c] = Pong]
    /\ UNCHANGED <<live, clients, reader, queue, conv, others>>

\* Every thirty seconds; an answered ping changes nothing.
PingFails(c) ==
    /\ writer[c] = "select" /\ WriterAt(c, "unregister")
    /\ UNCHANGED <<live, clients, reader, queue, hand, conv, others, told>>

\* Mutant: the loop has no case for quit.
QuitNever(c) ==
    /\ writer[c] = "select" /\ reader[c] = "left" /\ live[c]
    /\ WriterAt(c, "unregister")
    /\ UNCHANGED <<live, clients, reader, queue, hand, conv, others, told>>

Quit(c) ==
    /\ writer[c] = "select" /\ reader[c] = "left"
    /\ WriterAt(c, "unregister")
    /\ UNCHANGED <<live, clients, reader, queue, hand, conv, others, told>>

\* The deferred calls: UnregisterClient, then the connection is closed.
Unregister(c) ==
    /\ writer[c] = "unregister" /\ WriterAt(c, "left")
    /\ clients' = clients \ {c}
    /\ live' = [live EXCEPT ![c] = FALSE]
    /\ UNCHANGED <<reader, queue, hand, conv, others, told>>

\* BroadcastToAdmins: to the registered clients whose channel has room, under
\* the read lock, which it never waits with.
Broadcast ==
    /\ others < MaxOther
    /\ others' = others + 1
    /\ queue' = [c \in Conns |-> IF c \in clients \cap Admins /\ Room(c)
                                 THEN Append(queue[c], Event) ELSE queue[c]]
    /\ UNCHANGED <<live, clients, reader, writer, hand, conv, told>>

Next ==
    \/ \E c \in Conns :
        \/ Connect(c) \/ HangUp(c) \/ ReadPing(c) \/ SendPong(c) \/ ReadEnd(c)
        \/ Take(c) \/ WriteMessage(c) \/ PingFails(c) \/ Quit(c) \/ Unregister(c)
        \/ \E v \in Convs : ReadRequest(c, v)
    \/ \E v \in Convs : Converted(v) \/ SendResult(v)
    \/ Broadcast

\* The writer chooses among its cases at random, so none is passed over for
\* ever, and those waiting to send to a channel are served in turn.  How long
\* a conversion takes is not assumed: kindlegen runs without a time limit.
Fairness ==
    /\ \A c \in Conns : /\ WF_vars(WriteMessage(c)) /\ WF_vars(Unregister(c))
                        /\ WF_vars(ReadEnd(c)) /\ SF_vars(SendPong(c))
                        /\ SF_vars(Take(c)) /\ SF_vars(Quit(c))
    /\ \A v \in Convs : SF_vars(SendResult(v))

Spec == Init /\ [][Next]_vars /\ Fairness

------------------------------------------------------------------------------
(* Properties.                                                             *)

\* The result of a conversion is written to the client that asked, or its
\* connection has come to an end, however many others wait for the channel.
AnswersArrive ==
    \A v \in Convs : conv[v].at = "send" ~> v \in told \/ writer[conv[v].conn] = "left"

\* A closed connection leaves no goroutine behind, and a conversion that has
\* its result ends, but for those that wait for room in the channel of a
\* writer that is gone.
Abandoned(c) == writer[c] = "left" /\ ~Room(c)
ReaderEnds(c) ==
    writer[c] # "off" /\ ~live[c] ~>
        writer[c] = "left" /\ (reader[c] = "left" \/ (reader[c] = "pong" /\ ~Room(c)))
GoroutinesEnd ==
    /\ []TypeOK
    /\ \A v \in Convs : conv[v].at = "send" ~> conv[v].at = "done" \/ Abandoned(conv[v].conn)
    /\ \A c \in Conns : ReaderEnds(c)

==============================================================================
