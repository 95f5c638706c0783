--------------------------- MODULE CommandChannel ---------------------------
(***************************************************************************)
(* The channel between the server's broker and one connector: the requests *)
(* a HostConnectorBroker awaits (apps/web/lib/agents/connector/broker.ts), *)
(* the command stream and the scheduler of the connector (apps/connector/  *)
(* src/client.ts, command-scheduler.ts) and the answers in its journal,    *)
(* which the server gets in order (ConnectorDelivery proves it).           *)
(*                                                                         *)
(* Connection epochs are UUIDs: the n-th drawn is n.  A request is named   *)
(* by what it asks, for whom and in which epoch: no request is sent twice  *)
(* for one purpose over one connection.                                    *)
(***************************************************************************)
EXTENDS Integers, Sequences, FiniteSets, SequencesExt

VARIABLES
    link,      \* the connection, as the connector and the server see it
    wire,      \* commands of the connection the connector has not read
    lanes,     \* those it has read and not started
    running,   \* those it has started and not answered
    journal,   \* its answers the server has not processed
    pending    \* the requests the server awaits

channel == <<link, wire, lanes, running, journal, pending>>

Lanes == {"session", "git", "workspace"}
Limit == [session |-> 4, git |-> 2, workspace |-> 4]

\* connectorCommandLane()
Lane(command) ==
    CASE command.type \in {"open", "subscribe", "unsubscribe"} -> "session"
      [] command.type = "watch"   -> "git"
      [] command.type = "unwatch" -> "workspace"

Command(type, for, after) ==
    [type |-> type, for |-> for, after |-> after, epoch |-> link.channel]

Sync(epoch) == [type |-> "sync", epoch |-> epoch]

Online == link.channel # 0

ChannelInit ==
    /\ link = [up |-> FALSE, channel |-> 0, drawn |-> 0, grace |-> FALSE]
    /\ wire = <<>> /\ lanes = [l \in Lanes |-> <<>>]
    /\ running = {} /\ journal = <<>> /\ pending = {}

\* What the server sends over a connection that is lost, noticed or not, is
\* lost as well.
Sent(commands) == IF Online /\ link.up THEN wire \o commands ELSE wire

\* Every request there still is a trace of.
Commands == {c \in pending \cup running \cup ToSet(wire)
                   \cup UNION {ToSet(lanes[l]) : l \in Lanes}
                   \cup {a.to : a \in ToSet(journal)} : c.type # "sync"}

\* request()
Ask(command) ==
    /\ wire' = Sent(<<command>>)
    /\ pending' = pending \cup {command}
    /\ UNCHANGED <<link, lanes, running, journal>>

\* A request whose answer nobody awaits.
Tell(command) ==
    /\ wire' = Sent(<<command>>)
    /\ UNCHANGED <<link, lanes, running, journal, pending>>

Idle == running = {} /\ \A l \in Lanes : lanes[l] = <<>>

\* openCommandStream(): a request goes to its lane ...
Read ==
    /\ wire # <<>> /\ Head(wire).type # "sync"
    /\ wire' = Tail(wire)
    /\ lanes' = [lanes EXCEPT ![Lane(Head(wire))] = Append(@, Head(wire))]
    /\ UNCHANGED <<link, running, journal, pending>>

\* ... and a sync waits until every lane has drained.
ReadSync ==
    /\ wire # <<>> /\ Head(wire).type = "sync" /\ Idle
    /\ wire' = Tail(wire)
    /\ UNCHANGED <<link, lanes, running, journal, pending>>

\* A lane starts its commands in order; one that awaits nothing is over at
\* once, and nobody waits for its answer.
Start(command, awaits) ==
    /\ lanes[Lane(command)] # <<>> /\ Head(lanes[Lane(command)]) = command
    /\ Cardinality({c \in running : Lane(c) = Lane(command)}) < Limit[Lane(command)]
    /\ lanes' = [lanes EXCEPT ![Lane(command)] = Tail(@)]
    /\ running' = IF awaits THEN running \cup {command} ELSE running
    /\ UNCHANGED <<link, wire, journal, pending>>

\* dispatch(): the answer is journalled.
Answer(command, ok, data) ==
    /\ command \in running
    /\ running' = running \ {command}
    /\ journal' = Append(journal, [to |-> command, ok |-> ok, data |-> data])
    /\ UNCHANGED <<link, wire, lanes, pending>>

\* accept() of an answer; `told` are the commands it makes the broker send.
Accept(told) ==
    /\ journal # <<>>
    /\ journal' = Tail(journal)
    /\ pending' = pending \ {Head(journal).to}
    /\ wire' = Sent(told)
    /\ UNCHANGED <<link, lanes, running>>

Awaited == Head(journal).to \in pending

\* The 180 seconds of a request are over.
Expire(command) ==
    /\ command \in pending
    /\ pending' = pending \ {command}
    /\ UNCHANGED <<link, wire, lanes, running, journal>>

-----------------------------------------------------------------------------
(* The connection.                                                         *)

\* It breaks; the connector may have read some more commands.
Lose ==
    /\ link.up
    /\ link' = [link EXCEPT !.up = FALSE]
    /\ \E n \in 0 .. Len(wire) : wire' = SubSeq(wire, 1, n)
    /\ UNCHANGED <<lanes, running, journal, pending>>

\* The server notices.
Unregister ==
    /\ Online /\ ~link.up
    /\ link' = [link EXCEPT !.channel = 0, !.grace = TRUE]
    /\ UNCHANGED <<wire, lanes, running, journal, pending>>

\* scheduleDisconnect(): what is awaited fails once the grace is over.
GraceOver ==
    /\ link.grace
    /\ link' = [link EXCEPT !.grace = FALSE]
    /\ pending' = {}
    /\ UNCHANGED <<wire, lanes, running, journal>>

\* register(): the connector is back, perhaps before the server has noticed
\* that it was gone.  What is awaited fails, `asked` is asked anew, `told` told.
Register(asked, told) ==
    LET epoch == link.drawn + 1
    IN  /\ ~link.up /\ wire = <<>>
        /\ link' = [up |-> TRUE, channel |-> epoch, drawn |-> epoch,
                    grace |-> FALSE]
        /\ pending' = ToSet(asked)
        /\ wire' = <<Sync(epoch)>> \o asked \o told
        /\ UNCHANGED <<lanes, running, journal>>

\* The connector process dies: the journal stays.
Die ==
    /\ link' = [link EXCEPT !.up = FALSE]
    /\ wire' = <<>> /\ lanes' = [l \in Lanes |-> <<>>] /\ running' = {}
    /\ UNCHANGED <<journal, pending>>

\* The server process is replaced: the connection breaks, and the new broker
\* awaits nothing and has never heard of the connector.
Replaced ==
    /\ link' = [link EXCEPT !.up = FALSE, !.channel = 0, !.grace = FALSE]
    /\ \E n \in 0 .. Len(wire) : wire' = SubSeq(wire, 1, n)
    /\ pending' = {}
    /\ UNCHANGED <<lanes, running, journal>>
=============================================================================
