--------------------------- MODULE CommandLedger ---------------------------
(***************************************************************************)
(* How a command a user gives to an agent session is carried out at most   *)
(* once: the broker's pending requests and their replay on reconnection    *)
(* (apps/web/lib/agents/connector/broker.ts), the command stream and its   *)
(* barriers (apps/connector/src/client.ts), the session lane of the        *)
(* scheduler (command-scheduler.ts), the per-session serialization and the *)
(* write-ahead command ledger (daemon.ts runCommand(), state.ts).          *)
(*                                                                         *)
(* A request is one HTTP request of a browser; several may carry the same  *)
(* command (the same clientMessageId).  Answers travel over the durable    *)
(* lane of ConnectorDelivery, here a queue on the connector's disk.        *)
(***************************************************************************)
EXTENDS Integers, Sequences, FiniteSets, SequencesExt

CONSTANTS
    Requests, Commands, Sessions,
    CommandOf,      \* the command a request carries
    SessionOf,      \* the session a command is for
    LaneLimit,      \* slots of the session lane: 4 in the code
    MaxExits,       \* bound on the connector's exits, by crash or by stop
    MaxDisconnects, \* bound on the connections lost
    MaxRestarts,    \* bound on the server's restarts
    MaxStops        \* bound on the workspaces deleted

ASSUME LedgerAssumption ==
    /\ IsFiniteSet(Requests)
    /\ CommandOf \in [Requests -> Commands]
    /\ SessionOf \in [Commands -> Sessions]
    /\ LaneLimit \in Nat \ {0}
    /\ MaxExits \in Nat /\ MaxDisconnects \in Nat
    /\ MaxRestarts \in Nat /\ MaxStops \in Nat

VARIABLES
    \* The server.
    verdict,      \* of a request: "pending" in the broker, or its answer
    channel,      \* the broker has a channel for the connector
    active,       \* sessions in the database
    stopping,     \* sessions whose stop request is pending
    listed,       \* the active sessions read for a channel being opened
    \* The connection, as the connector sees it.
    connected,
    stream,       \* commands received or under way to the connector
    \* The connector process.
    phase,        \* "up", "draining" (client.stop()) or "down"
    lane,         \* requests waiting for a slot
    busy,         \* slots in use
    owner,        \* per session, the request runCommand() works on, or NoJob
    behind,       \* per session, requests behind it in the promise chain
    \* The connector's disk.
    ledger,       \* the commands table: "none", "pending", "done", "refused"
    answers,      \* responses journaled and not yet acknowledged
    \* History, and the counters behind the bounds.
    attempts,     \* provider actions begun, per command
    settled,      \* commands whose provider action has succeeded
    purged,       \* times a command's ledger entry was deleted
    counts

serverVars == <<verdict, channel, active, stopping, listed>>
link       == <<connected, stream>>
process    == <<phase, lane, busy, owner, behind>>
store      == <<ledger, answers>>
history    == <<attempts, settled, purged>>
vars       == <<serverVars, link, process, store, history, counts>>

NoJob  == [stage |-> "none"]

Session(r) == SessionOf[CommandOf[r]]

Execute(r)     == [kind |-> "request", request |-> r]
StopSession(s) == [kind |-> "stop", session |-> s]
Sync(S)        == [kind |-> "sync", sessions |-> S]

Init ==
    /\ verdict = [r \in Requests |-> "none"]
    /\ channel = FALSE /\ active = Sessions /\ stopping = {} /\ listed = {}
    /\ connected = FALSE /\ stream = <<>>
    /\ phase = "up" /\ lane = <<>> /\ busy = 0
    /\ owner = [s \in Sessions |-> NoJob] /\ behind = [s \in Sessions |-> <<>>]
    /\ ledger = [c \in Commands |-> "none"] /\ answers = <<>>
    /\ attempts = [c \in Commands |-> 0] /\ settled = {}
    /\ purged = [c \in Commands |-> 0]
    /\ counts = [exits |-> 0, disconnects |-> 0, restarts |-> 0, stops |-> 0]

-----------------------------------------------------------------------------
(* The server.                                                             *)

Sent(command) == IF connected THEN Append(stream, command) ELSE stream

\* request() of a session command; a browser may repeat the same command.
Ask(r) ==
    /\ verdict[r] = "none" /\ Session(r) \in active
    /\ IF channel
         THEN /\ verdict' = [verdict EXCEPT ![r] = "pending"]
              /\ stream' = Sent(Execute(r))
         ELSE /\ verdict' = [verdict EXCEPT ![r] = "offline"]
              /\ UNCHANGED stream
    /\ UNCHANGED <<channel, active, stopping, listed, connected, process, store,
                   history, counts>>

\* The 180 seconds of a request are over.
TimesOut(r) ==
    /\ verdict[r] = "pending"
    /\ verdict' = [verdict EXCEPT ![r] = "unknown"]
    /\ UNCHANGED <<channel, active, stopping, listed, link, process, store,
                   history, counts>>

\* Deleting a workspace asks the connector to stop its sessions and deletes
\* the row whatever comes of that.
AskStop(s) ==
    /\ s \in active \ stopping /\ counts.stops < MaxStops
    /\ counts' = [counts EXCEPT !.stops = @ + 1]
    /\ IF channel
         THEN /\ stopping' = stopping \cup {s}
              /\ stream' = Sent(StopSession(s))
              /\ UNCHANGED active
         ELSE active' = active \ {s} /\ UNCHANGED <<stopping, stream>>
    /\ UNCHANGED <<verdict, channel, listed, connected, process, store,
                   history>>

\* The stop request fails: its time is over, or the disconnect grace is.
StopGivesUp(s) ==
    /\ s \in stopping
    /\ stopping' = stopping \ {s} /\ active' = active \ {s}
    /\ UNCHANGED <<verdict, channel, listed, link, process, store,
                   history, counts>>

\* A response event reaches accept(); without a pending request it is ignored.
\* The connector may lose the acknowledgement and send it again.
Deliver(acknowledged) ==
    /\ phase = "up" /\ answers # <<>>
    /\ LET a == Head(answers)
       IN  IF a.kind = "stopped"
             THEN /\ stopping' = stopping \ {a.session}
                  /\ active' = IF a.session \in stopping
                                 THEN active \ {a.session} ELSE active
                  /\ UNCHANGED verdict
             ELSE /\ verdict' = IF verdict[a.request] = "pending"
                                  THEN [verdict EXCEPT ![a.request] = a.kind]
                                  ELSE verdict
                  /\ UNCHANGED <<stopping, active>>
    /\ IF acknowledged THEN answers' = Tail(answers) ELSE UNCHANGED answers
    /\ UNCHANGED <<channel, listed, link, process, ledger, history, counts>>

\* The channel route reads the active sessions before it registers.
OpenChannel ==
    /\ phase = "up" /\ ~connected /\ stream = <<>> /\ listed = {}
    /\ listed' = {active}
    /\ UNCHANGED <<verdict, channel, active, stopping, link, process,
                   store, history, counts>>

\* A mistake: nothing is sent again.
PendingForgotten == {}

Pending   == {r \in Requests : verdict[r] = "pending"}
Orders(S) == {q \in [1 .. Cardinality(S) -> S] :
                  \A r \in S : \E i \in DOMAIN q : q[i] = r}

\* register(): sync first, then every pending command again, in an order
\* left open; pending stop requests are rejected.
Register ==
    /\ channel' = TRUE /\ connected' = TRUE
    /\ \E S \in listed, q \in Orders(Pending) :
           stream' = <<Sync(S)>> \o [i \in DOMAIN q |-> Execute(q[i])]
    /\ active' = active \ stopping /\ stopping' = {}
    /\ listed' = {}
    /\ UNCHANGED <<verdict, process, store, history, counts>>

\* The server sees that a stream has ended.  Ledger-protected requests
\* survive the disconnect grace.
Unregister ==
    /\ channel /\ ~connected
    /\ channel' = FALSE
    /\ UNCHANGED <<verdict, active, stopping, listed, link, process,
                   store, history, counts>>

\* The server process is replaced: who waited sees a broken connection.
ServerRestart ==
    /\ counts.restarts < MaxRestarts
    /\ counts' = [counts EXCEPT !.restarts = @ + 1]
    /\ verdict' = [r \in Requests |->
                       IF verdict[r] = "pending" THEN "lost" ELSE verdict[r]]
    /\ channel' = FALSE /\ stopping' = {} /\ listed' = {}
    /\ connected' = FALSE /\ stream' \in Prefixes(stream)
    /\ UNCHANGED <<active, process, store, history>>

-----------------------------------------------------------------------------
(* The connection.                                                         *)

\* What the connector has already buffered, it still handles.
Disconnect ==
    /\ connected /\ counts.disconnects < MaxDisconnects
    /\ counts' = [counts EXCEPT !.disconnects = @ + 1]
    /\ connected' = FALSE /\ stream' \in Prefixes(stream)
    /\ UNCHANGED <<serverVars, process, store, history>>

-----------------------------------------------------------------------------
(* The connector's command stream and scheduler.                           *)

Running == phase \in {"up", "draining"}

Queued(r) == [behind EXCEPT ![Session(r)] = Append(@, r)]

\* enqueue() pumps: a free slot means that nothing waits for one.  A closed
\* scheduler drops the command.
ReadRequest ==
    /\ Running /\ stream # <<>> /\ Head(stream).kind = "request"
    /\ stream' = Tail(stream)
    /\ LET r == Head(stream).request
       IN  IF phase = "draining" THEN UNCHANGED <<lane, busy, behind>>
           ELSE IF busy < LaneLimit
             THEN busy' = busy + 1 /\ behind' = Queued(r) /\ UNCHANGED lane
             ELSE lane' = Append(lane, r) /\ UNCHANGED <<busy, behind>>
    /\ UNCHANGED <<serverVars, connected, phase, owner, store, history, counts>>

\* The condition of a barrier.  A mistake: commands in the daemon's hands do
\* not count.
LaneEmpty == lane = <<>>
Idle      == busy = 0 /\ lane = <<>>

\* The sessions and, with them, their ledger entries are deleted.
Purge(S) ==
    LET gone == {c \in Commands : SessionOf[c] \in S}
    IN  /\ ledger' = [c \in Commands |-> IF c \in gone THEN "none" ELSE ledger[c]]
        /\ purged' = [c \in Commands |->
                          IF c \in gone /\ ledger[c] # "none"
                            THEN purged[c] + 1 ELSE purged[c]]

\* sync and the stop requests wait until the scheduler is idle.
ReadBarrier ==
    /\ Running /\ stream # <<>> /\ Idle
    /\ LET b == Head(stream)
       IN  \/ /\ b.kind = "sync"
              /\ Purge(Sessions \ b.sessions)
              /\ UNCHANGED answers
           \/ /\ b.kind = "stop"
              /\ Purge({b.session})
              /\ answers' = Append(answers, [kind |-> "stopped",
                                             session |-> b.session])
    /\ stream' = Tail(stream)
    /\ UNCHANGED <<serverVars, connected, process, attempts, settled, counts>>

-----------------------------------------------------------------------------
(* runCommand(), one command of a session at a time.                       *)

Job(r, stage, answer) == [request |-> r, stage |-> stage, answer |-> answer]

At(s, stage) == Running /\ owner[s].stage = stage

Answering(s, answer) ==
    owner' = [owner EXCEPT ![s] = Job(owner[s].request, "answering", answer)]

Moves(s, stage) == owner' = [owner EXCEPT ![s].stage = stage]

\* The write-ahead entry and its outcome.  Mistakes: neither is written, or
\* only the outcome is not.
Unbegun(c)             == UNCHANGED ledger
Begun(c)               == ledger' = [ledger EXCEPT ![c] = "pending"]
Unrecorded(c, outcome) == UNCHANGED ledger
Recorded(c, outcome)   == ledger' = [ledger EXCEPT ![c] = outcome]

\* beginCommand(): the write-ahead entry, or what an earlier one says.
Begin(s) ==
    /\ At(s, "none") /\ behind[s] # <<>>
    /\ LET r == Head(behind[s])
           c == CommandOf[r]
           answer == IF ledger[c] = "pending" THEN "unknown" ELSE ledger[c]
       IN  IF ledger[c] = "none"
             THEN /\ Begun(c)
                  /\ owner' = [owner EXCEPT ![s] = Job(r, "opening", "none")]
             ELSE /\ owner' = [owner EXCEPT ![s] = Job(r, "answering", answer)]
                  /\ UNCHANGED ledger
    /\ behind' = [behind EXCEPT ![s] = Tail(@)]
    /\ UNCHANGED <<serverVars, link, phase, lane, busy, answers, history, counts>>

\* The runtime does not open: nothing was attempted, and the ledger says so.
OpenFails(s) ==
    /\ At(s, "opening")
    /\ Recorded(CommandOf[owner[s].request], "refused")
    /\ Answering(s, "refused")
    /\ UNCHANGED <<serverVars, link, phase, lane, busy, behind, answers, history,
                   counts>>

\* attemptedProviderAction = true, and the provider gets the command.
Act(s) ==
    /\ At(s, "opening")
    /\ attempts' = [attempts EXCEPT ![CommandOf[owner[s].request]] = @ + 1]
    /\ Moves(s, "acting")
    /\ UNCHANGED <<serverVars, link, phase, lane, busy, behind, store, settled,
                   purged, counts>>

ActionSucceeds(s) ==
    /\ At(s, "acting")
    /\ settled' = settled \cup {CommandOf[owner[s].request]}
    /\ Moves(s, "acted")
    /\ UNCHANGED <<serverVars, link, phase, lane, busy, behind, store, attempts,
                   purged, counts>>

\* A mistake: an error after the attempt is reported as a refusal.
ActionRefused(s) ==
    /\ At(s, "acting") \/ At(s, "acted")
    /\ Answering(s, "refused")
    /\ UNCHANGED <<serverVars, link, phase, lane, busy, behind, store, history,
                   counts>>

\* An error after the attempt: the entry stays pending.
ActionFails(s) ==
    /\ At(s, "acting") \/ At(s, "acted")
    /\ Answering(s, "unknown")
    /\ UNCHANGED <<serverVars, link, phase, lane, busy, behind, store, history,
                   counts>>

\* completeCommand(), before the response is emitted.
Complete(s) ==
    /\ At(s, "acted")
    /\ Recorded(CommandOf[owner[s].request], "done")
    /\ Answering(s, "done")
    /\ UNCHANGED <<serverVars, link, phase, lane, busy, behind, answers, history,
                   counts>>

\* finished() frees the slot and pumps.  Mistakes: the slot is freed twice,
\* kept, or freed while a command waits for it.
FinishedTwice   == busy' = busy - 2 /\ UNCHANGED <<lane, behind>>
FinishedLeaking == UNCHANGED <<busy, lane, behind>>
FinishedIdly    == busy' = busy - 1 /\ UNCHANGED <<lane, behind>>

Finished ==
    IF lane = <<>>
      THEN busy' = busy - 1 /\ UNCHANGED <<lane, behind>>
      ELSE lane' = Tail(lane) /\ behind' = Queued(Head(lane)) /\ UNCHANGED busy

\* dispatch() journals the response.
Respond(s) ==
    /\ At(s, "answering")
    /\ answers' = Append(answers, [kind |-> owner[s].answer,
                                   request |-> owner[s].request])
    /\ owner' = [owner EXCEPT ![s] = NoJob]
    /\ Finished
    /\ UNCHANGED <<serverVars, link, phase, ledger, history, counts>>

-----------------------------------------------------------------------------
(* The life of the connector process.                                      *)

\* client.stop(): the scheduler is closed, then drained.
Stop ==
    /\ phase = "up" /\ counts.exits < MaxExits
    /\ phase' = "draining" /\ lane' = <<>>
    /\ connected' = FALSE /\ stream' \in Prefixes(stream) /\ listed' = {}
    /\ UNCHANGED <<verdict, channel, active, stopping, busy, owner,
                   behind, store, history, counts>>

Ends ==
    /\ phase' = "down" /\ counts' = [counts EXCEPT !.exits = @ + 1]
    /\ lane' = <<>> /\ busy' = 0
    /\ owner' = [s \in Sessions |-> NoJob]
    /\ behind' = [s \in Sessions |-> <<>>]
    /\ connected' = FALSE /\ stream' = <<>> /\ listed' = {}
    /\ UNCHANGED <<verdict, channel, active, stopping, store, history>>

\* daemon.stop() and the stores' close run only once the scheduler is drained.
Drained == phase = "draining" /\ busy = 0 /\ Ends

Crash == Running /\ counts.exits < MaxExits /\ Ends

Start ==
    /\ phase = "down" /\ phase' = "up"
    /\ UNCHANGED <<serverVars, link, lane, busy, owner, behind, store, history,
                   counts>>

-----------------------------------------------------------------------------
Broker ==
    \/ \E r \in Requests : Ask(r) \/ TimesOut(r)
    \/ \E s \in Sessions : AskStop(s) \/ StopGivesUp(s)
    \/ \E acknowledged \in BOOLEAN : Deliver(acknowledged)
    \/ OpenChannel \/ Register \/ Unregister \/ ServerRestart

Daemon ==
    \/ ReadRequest \/ ReadBarrier
    \/ \E s \in Sessions :
           \/ Begin(s) \/ OpenFails(s) \/ Act(s)
           \/ ActionSucceeds(s) \/ ActionFails(s)
           \/ Complete(s) \/ Respond(s)
    \/ Stop \/ Drained \/ Crash \/ Start

Next == Broker \/ Disconnect \/ Daemon

Spec == Init /\ [][Next]_vars

(***************************************************************************)
(* Fairness: the code of both sides runs on, the connector reconnects for  *)
(* ever, answers are delivered in the end (ConnectorDelivery), and the     *)
(* service manager restarts the process.  Timeouts are not relied on.      *)
(* A provider that always settles is a further assumption, ProviderFair.   *)
(***************************************************************************)
CodeFair ==
    /\ WF_vars(Deliver(TRUE)) /\ WF_vars(OpenChannel) /\ WF_vars(Register)
    /\ WF_vars(ReadRequest) /\ WF_vars(ReadBarrier)
    /\ WF_vars(Drained) /\ WF_vars(Start)
    /\ \A s \in Sessions :
           /\ WF_vars(Begin(s)) /\ WF_vars(Act(s) \/ OpenFails(s))
           /\ WF_vars(Complete(s) \/ (At(s, "acted") /\ ActionFails(s)))
           /\ WF_vars(Respond(s))

ProviderFair == \A s \in Sessions : WF_vars(ActionSucceeds(s) \/ ActionFails(s))

FairSpec     == Spec /\ CodeFair /\ ProviderFair
CodeFairSpec == Spec /\ CodeFair

-----------------------------------------------------------------------------
(* Properties.                                                             *)

Stages   == {"opening", "acting", "acted", "answering"}
Answers  == {"done", "refused", "unknown"}
Verdicts == Answers \cup {"none", "pending", "offline", "lost"}

TypeOK ==
    /\ verdict \in [Requests -> Verdicts]
    /\ active \subseteq Sessions /\ stopping \subseteq active
    /\ phase \in {"up", "draining", "down"} /\ busy \in 0 .. LaneLimit
    /\ lane \in Seq(Requests) /\ behind \in [Sessions -> Seq(Requests)]
    /\ \A s \in Sessions :
           \/ owner[s] = NoJob
           \/ /\ owner[s].request \in Requests /\ Session(owner[s].request) = s
              /\ owner[s].stage \in Stages
    /\ ledger \in [Commands -> {"none", "pending", "done", "refused"}]
    /\ attempts \in [Commands -> Nat] /\ purged \in [Commands -> Nat]

\* A command reaches its provider at most once for each time the connector
\* forgot it with its session: neither replay, repeated request, restart nor
\* crash at any point executes it again (state.test.ts:201).
AttemptedOnce == \A c \in Commands : attempts[c] <= 1 + purged[c]

\* The stronger wording without the deletions: docs/development.md:1192, agent
\* commands "must not be automatically replayed when their outcome is unknown".
ExecutedOnce == \A c \in Commands : attempts[c] <= 1

\* A request is answered "done" only if the provider has carried the command
\* out, and "refused" only if it never got it.
HonestVerdicts ==
    \A r \in Requests :
        LET c == CommandOf[r]
        IN  /\ verdict[r] = "done" => c \in settled
            /\ verdict[r] = "refused" => attempts[c] <= purged[c]

\* Receipts come first: an answer in the journal is the ledger's, unless the
\* session has been deleted since.
ReceiptBeforeAnswer ==
    \A i \in DOMAIN answers :
        answers[i].kind \in {"done", "refused"} =>
            LET c == CommandOf[answers[i].request]
            IN  ledger[c] = answers[i].kind \/ purged[c] > 0

\* A deleted session is quiet: no command of a session is being carried out
\* at the moment its ledger entries are deleted.
PurgedWhenQuiet ==
    [][\A c \in Commands :
           purged'[c] > purged[c] => owner[SessionOf[c]] = NoJob]_vars

Slots == UNION {{<<s, i>> : i \in (IF owner[s] = NoJob THEN 1 ELSE 0) ..
                                       Len(behind[s])} : s \in Sessions}

\* The slot counter of the scheduler is the number of commands it has handed
\* to the daemon: no path leaks a slot or frees one twice, and "idle" means
\* that no command is being carried out.
SlotsAccounted == busy = Cardinality(Slots)

\* Commands wait for a slot only while all slots are taken.
LaneWorkConserving == lane # <<>> => busy = LaneLimit

\* Every pending request is answered in the end, without its timeout.
EventuallyAnswered ==
    \A r \in Requests : verdict[r] = "pending" ~> verdict[r] # "pending"

\* stop() comes to an end: daemon.test.ts:1158, "bounds shutdown when an
\* accepted command never settles".
StopEnds == phase = "draining" ~> phase # "draining"
=============================================================================
