------------------------- MODULE ConnectorDelivery -------------------------
(***************************************************************************)
(* How events travel from a Host Connector to the OvertChat server: the    *)
(* connector's flush loop (apps/connector/src/client.ts) over the durable  *)
(* journal (EventJournal) and the bounded live buffer, the HTTP requests   *)
(* in between, and the broker's acceptBatch (apps/web/lib/agents/          *)
(* connector/broker.ts).                                                   *)
(*                                                                         *)
(* A durable payload (response, directory, update, metadata) is named by   *)
(* the order in which it was journaled.  A live payload is a record        *)
(* [key, n]: a session envelope (key = its subscription) or a Git status   *)
(* (key = its watch), n growing over all of them.  Epochs are UUIDs: the   *)
(* n-th one drawn is the number n.                                         *)
(***************************************************************************)
EXTENDS EventJournal, EventFragments, Sequences, FiniteSetsExt, SequencesExt

CONSTANTS
    CursorLimit,    \* notification cursors kept per connector: 8 in the code
    LiveLimit,      \* MAX_BUFFERED_LIVE_EVENTS: 2048 in the code
    Sessions,       \* subscriptions that receive session envelopes
    Watches,        \* Git watches
    LegacyServer,   \* may the server be one that forgets its cursor
    LargeDurable,   \* durable payloads larger than a request
    LargeLive,      \* live payloads larger than a request, by their n
    MaxDurable,     \* bound on the durable payloads emitted
    MaxLive,        \* bound on the live payloads emitted
    MaxExits,       \* bound on the connector's exits, by crash or by stop
    MaxRestarts,    \* bound on the server's restarts, and expired transfers
    MaxLate,        \* bound on the abandoned requests still under way
    MaxEpochs       \* bound on the epochs after which no server forgets

Keys == Sessions \cup Watches

ASSUME DeliveryAssumption ==
    /\ Sessions \cap Watches = {}
    /\ CursorLimit \in Nat \ {0}
    /\ LiveLimit \in Nat \ {0}
    /\ LegacyServer \in BOOLEAN
    /\ LargeDurable \subseteq Nat /\ LargeLive \subseteq Nat
    /\ MaxDurable \in Nat /\ MaxLive \in Nat
    /\ MaxExits \in Nat /\ MaxRestarts \in Nat
    /\ MaxLate \in Nat /\ MaxEpochs \in Nat

VARIABLES
    \* On the connector's disk.
    journal,
    \* The connector process.
    phase,        \* "up", "stopping" (draining after stop()) or "down"
    flight,       \* the request the flush loop awaits, or NoFlight
    preferLive,   \* preferLiveEvents
    liveEpoch,    \* liveEventEpoch
    liveSeq,      \* liveEventSequence
    liveQ,        \* liveEvents
    hints,        \* liveOverflowHints: at most one payload for a key
    \* Between the two, and the server process.
    late,         \* requests the connector gave up, the server may still run
    assembly,     \* the large event of this connector that is being assembled
    cursors,      \* notificationSequences of this connector, oldest first
    \* History, and the counters behind the bounds.
    epochs,       \* UUIDs drawn so far
    emitted,      \* durable payloads journaled so far
    accepted,     \* durable payloads the server has processed
    told,         \* fresh notifications per payload, this server process
    newest,       \* the newest live payload per key, this connector process
    shown,        \* the newest live payload per key the server has processed
    passed,       \* batches of one lane delivered past a waiting other lane
    counts        \* live payloads, exits and restarts so far

disk      == <<journal, emitted>>
lanes     == <<preferLive, liveEpoch, liveSeq, liveQ, hints>>
memory    == <<cursors, accepted, told, shown>>
server    == <<memory, assembly>>
vars      == <<disk, phase, flight, lanes, late, server, epochs, newest,
               passed, counts>>

NoFlight == [kind |-> "none"]
NoAck    == -1

-----------------------------------------------------------------------------
(* The live buffer.                                                        *)

HasLive == liveQ # <<>> \/ DOMAIN hints # {}

\* The flush loop owes the live lane a batch.  A mistake: it never does.
LiveDueNever == FALSE

LiveDue == preferLive /\ HasLive

SetHint(h, p) == [k \in DOMAIN h \cup {p.key} |-> IF k = p.key THEN p ELSE h[k]]

\* The first n payloads of q become hints, one after the other: of those of
\* one key the last stays.
Displaced(q, n, h) ==
    LET Of(k) == {i \in 1 .. n : q[i].key = k}
    IN  [k \in DOMAIN h \cup {q[i].key : i \in 1 .. n} |->
             IF Of(k) = {} THEN h[k] ELSE q[Max(Of(k))]]

\* A mistake: one payload more than the limit is kept.
DisplaceLate(q, h) ==
    LET excess == Len(q) - LiveLimit - 1
    IN  IF excess <= 0
          THEN [queue |-> q, hints |-> h]
          ELSE [queue |-> SubSeq(q, excess + 1, Len(q)),
                hints |-> Displaced(q, excess, h)]

\* enqueue() of a session envelope: append it, then move what exceeds the
\* limit, oldest first, into the hints.
Displace(q, h) ==
    LET excess == Len(q) - LiveLimit
    IN  IF excess <= 0
          THEN [queue |-> q, hints |-> h]
          ELSE [queue |-> SubSeq(q, excess + 1, Len(q)),
                hints |-> Displaced(q, excess, h)]

-----------------------------------------------------------------------------
(* Requests.  `events` maps first..last to payloads; `pos` is the last of  *)
(* them the server has processed.  A request is alive until the server     *)
(* process that runs it dies.  A large event has a request of its own,     *)
(* which stands for its fragments one after the other; `frag` is the one   *)
(* on its way.                                                             *)

Request(kind, epoch, first, last, events) ==
    [kind |-> kind, epoch |-> epoch, first |-> first, last |-> last,
     events |-> events, pos |-> first - 1, frag |-> 0]

LargePayload(kind, p) ==
    IF kind = "durable" THEN p \in LargeDurable ELSE p.n \in LargeLive

IsLarge(r) == LargePayload(r.kind, r.events[r.first])

Id(r) == [key |-> <<r.epoch, r.first>>, digest |-> r.events[r.first]]

\* boundedEventBatch(): a large event travels alone.
Fits(r) ==
    \/ r.first = r.last
    \/ \A s \in r.first .. r.last : ~LargePayload(r.kind, r.events[s])

\* The server can begin to process it: the event is all there.
Whole(r) == IsLarge(r) => Completes(assembly, Id(r), r.frag)

Assembled(r) ==
    IF IsLarge(r) THEN Received(assembly, Id(r), r.frag) ELSE assembly

Launch(request, takenHints, takenQueue) ==
    flight' = [request |-> request, ack |-> NoAck, alive |-> TRUE,
               hints |-> takenHints, queued |-> takenQueue]

\* What becomes of the awaited request when the connector gives it up: the
\* server never sees the rest of it, or still processes it later.  A commit
\* that is under way ends, sooner or later.
Abandon ==
    LET r == flight.request
        committing == /\ flight.alive /\ flight.ack = NoAck
                      /\ IsLarge(r) /\ r.pos = r.last
    IN  \/ /\ UNCHANGED late
           /\ assembly' = IF committing THEN Discarded(assembly, Id(r))
                                        ELSE assembly
        \/ /\ \/ flight.alive /\ r.pos < r.last
              \/ committing
           /\ Cardinality(late) < MaxLate
           /\ late' = late \cup {r}
           /\ UNCHANGED assembly

\* A mistake: the hint of the failed batch replaces a newer one.
RestoreOver ==
    IF flight.request.kind = "live"
      THEN /\ liveQ' = flight.queued \o liveQ
           /\ hints' = [k \in DOMAIN hints \cup DOMAIN flight.hints |->
                            IF k \in DOMAIN flight.hints THEN flight.hints[k]
                                                         ELSE hints[k]]
      ELSE UNCHANGED <<liveQ, hints>>

\* restoreLiveEventBatch(): a hint that arrived meanwhile is kept.
Restore ==
    IF flight.request.kind = "live"
      THEN /\ liveQ' = flight.queued \o liveQ
           /\ hints' = [k \in DOMAIN hints \cup DOMAIN flight.hints |->
                            IF k \in DOMAIN hints THEN hints[k]
                                                  ELSE flight.hints[k]]
      ELSE UNCHANGED <<liveQ, hints>>

-----------------------------------------------------------------------------
(* The connector process.                                                  *)

Init ==
    /\ journal = EmptyJournal(1)
    /\ phase = "up" /\ flight = NoFlight
    /\ preferLive = FALSE /\ liveEpoch = 2 /\ liveSeq = 0
    /\ liveQ = <<>> /\ hints = [k \in {} |-> 0]
    /\ late = {} /\ cursors = <<>> /\ assembly = NoAssembly
    /\ epochs = 2 /\ emitted = 0 /\ accepted = {}
    /\ told = [p \in 1 .. MaxDurable |-> 0]
    /\ newest = [k \in Keys |-> 0] /\ shown = [k \in Keys |-> 0]
    /\ passed = [durable |-> 0, live |-> 0]
    /\ counts = [live |-> 0, exits |-> 0, restarts |-> 0]

\* enqueue() of a durable payload: committed before it returns.  stop()
\* still journals what the daemon answers while it drains.
EmitDurable ==
    /\ phase \in {"up", "stopping"} /\ emitted < MaxDurable
    /\ journal' = Enqueue(journal, emitted + 1)
    /\ emitted' = emitted + 1
    /\ UNCHANGED <<phase, flight, lanes, late, server, epochs, newest, passed,
                   counts>>

NewLive(key) ==
    /\ phase = "up" /\ counts.live < MaxLive
    /\ counts' = [counts EXCEPT !.live = @ + 1]
    /\ newest' = [newest EXCEPT ![key] = counts.live + 1]
    /\ UNCHANGED <<disk, phase, flight, preferLive, liveEpoch, liveSeq, late,
                   server, epochs, passed>>

\* enqueue() of a session envelope.
EmitSession(s) ==
    /\ NewLive(s)
    /\ LET d == Displace(Append(liveQ, [key |-> s, n |-> counts.live + 1]), hints)
       IN  liveQ' = d.queue /\ hints' = d.hints

\* enqueue() of a Git status: only the newest of a watch is kept.
EmitGit(w) ==
    /\ NewLive(w)
    /\ hints' = SetHint(hints, [key |-> w, n |-> counts.live + 1])
    /\ UNCHANGED liveQ

\* flush() takes a durable batch unless a live one is due.
FlushDurable ==
    /\ phase = "up" /\ flight = NoFlight
    /\ ~ LiveDue
    /\ \E last \in BatchEnds(journal) :
           LET r == Request("durable", journal.epoch, journal.acked + 1, last,
                            BatchUpTo(journal, last))
           IN  Fits(r) /\ Launch(r, <<>>, <<>>)
    /\ UNCHANGED <<disk, phase, lanes, late, server, epochs, newest, passed,
                   counts>>

\* takeLiveEventBatch(): hints first, in any order, then the queue.  The
\* byte limit may stop the batch anywhere after its first payload.
FlushLive ==
    /\ phase = "up" /\ flight = NoFlight /\ HasLive
    /\ Pending(journal) = {} \/ preferLive
    /\ \E H \in SUBSET DOMAIN hints, n \in 0 .. Len(liveQ) :
           LET taken    == SubSeq(liveQ, 1, n)
               payloads == [i \in 1 .. Cardinality(H) |->
                                hints[SetToSeq(H)[i]]] \o taken
               size     == Len(payloads)
               r        == Request("live", liveEpoch, liveSeq + 1, liveSeq + size,
                                   [s \in liveSeq + 1 .. liveSeq + size |->
                                        payloads[s - liveSeq]])
           IN  /\ size \in 1 .. BatchLimit
               /\ n > 0 => H = DOMAIN hints
               /\ Fits(r) /\ Launch(r, [k \in H |-> hints[k]], taken)
               /\ hints' = [k \in DOMAIN hints \ H |-> hints[k]]
               /\ liveQ' = SubSeq(liveQ, n + 1, Len(liveQ))
    /\ UNCHANGED <<disk, phase, preferLive, liveEpoch, liveSeq, late, server,
                   epochs, newest, passed, counts>>

\* The answer to a durable batch: the journal's acknowledge().
DurableAcked ==
    LET r == flight.request
        a == flight.ack
    IN  /\ phase = "up" /\ flight # NoFlight /\ a # NoAck
        /\ r.kind = "durable" /\ Accepts(journal, r.epoch, a)
        /\ IF a < journal.acked
             THEN journal' = Rebase(journal, epochs + 1) /\ epochs' = epochs + 1
             ELSE journal' = Acknowledge(journal, a) /\ UNCHANGED epochs
        /\ flight' = NoFlight /\ preferLive' = TRUE
        /\ passed' = [durable |-> IF HasLive THEN passed.durable + 1 ELSE 0,
                      live |-> 0]
        /\ UNCHANGED <<phase, liveEpoch, liveSeq, liveQ, hints, late, server,
                       emitted, newest, counts>>

\* The answer to a live batch; a server that forgot the live cursor makes
\* the connector start a new live epoch and send the batch again.
LiveAcked ==
    LET r == flight.request
        a == flight.ack
    IN  /\ phase = "up" /\ flight # NoFlight /\ a # NoAck /\ r.kind = "live"
        /\ \/ /\ a = r.last
              /\ liveSeq' = a /\ preferLive' = FALSE
              /\ passed' = [live |-> IF Pending(journal) # {}
                                       THEN passed.live + 1 ELSE 0,
                            durable |-> 0]
              /\ UNCHANGED <<liveEpoch, liveQ, hints, epochs>>
           \/ /\ a \in 0 .. r.first - 1
              /\ liveEpoch' = epochs + 1 /\ epochs' = epochs + 1
              /\ liveSeq' = 0
              /\ Restore
              /\ UNCHANGED <<preferLive, passed>>
        /\ flight' = NoFlight
        /\ UNCHANGED <<disk, phase, late, server, newest, counts>>

\* The request fails: the live batch goes back and the loop tries again.
GiveUp ==
    /\ phase = "up" /\ flight # NoFlight
    /\ Abandon /\ Restore
    /\ flight' = NoFlight
    /\ UNCHANGED <<disk, phase, preferLive, liveEpoch, liveSeq, memory, epochs,
                   newest, passed, counts>>

RequestFails   == flight # NoFlight /\ flight.alive /\ GiveUp
ConnectionLost == flight # NoFlight /\ ~flight.alive /\ GiveUp

\* stop(): the awaited request is aborted, and nothing is sent any more.
Stop ==
    /\ phase = "up" /\ counts.exits < MaxExits
    /\ phase' = "stopping"
    /\ IF flight = NoFlight THEN UNCHANGED <<late, assembly, liveQ, hints>>
                            ELSE Abandon /\ Restore
    /\ flight' = NoFlight
    /\ UNCHANGED <<disk, preferLive, liveEpoch, liveSeq, memory, epochs, newest,
                   passed, counts>>

\* The process ends, because it was stopped or killed: the journal stays.
Exit ==
    /\ phase \in {"up", "stopping"} /\ counts.exits < MaxExits
    /\ phase' = "down"
    /\ counts' = [counts EXCEPT !.exits = @ + 1]
    /\ IF flight = NoFlight THEN UNCHANGED <<late, assembly>> ELSE Abandon
    /\ flight' = NoFlight
    /\ UNCHANGED <<disk, lanes, memory, epochs, newest, passed>>

\* A new process opens the journal; the live lane starts anew.
Start ==
    /\ phase = "down" /\ Opens(journal)
    /\ phase' = "up"
    /\ preferLive' = FALSE
    /\ liveEpoch' = epochs + 1 /\ epochs' = epochs + 1
    /\ liveSeq' = 0 /\ liveQ' = <<>> /\ hints' = [k \in {} |-> 0]
    /\ newest' = [k \in Keys |-> 0]
    /\ passed' = [durable |-> 0, live |-> 0]
    /\ UNCHANGED <<disk, flight, late, server, counts>>

-----------------------------------------------------------------------------
(* The server.                                                             *)

CursorOf(epoch) == {i \in DOMAIN cursors : cursors[i].epoch = epoch}

\* Mistakes: the cursors of other epochs count, or the event of the cursor
\* itself is taken for new.
FreshOverall(epoch, s) == \A i \in DOMAIN cursors : s > cursors[i].sequence
FreshAgain(epoch, s)   == \A i \in CursorOf(epoch) : s >= cursors[i].sequence

Fresh(epoch, s) == \A i \in CursorOf(epoch) : s > cursors[i].sequence

\* The cursor an event claims before it is processed.  A Map keeps the place
\* of a key it already has, and the oldest key goes when there are too many.
Claimed(epoch, s) ==
    LET entry == [epoch |-> epoch, sequence |-> s]
        grown == IF CursorOf(epoch) = {}
                   THEN Append(cursors, entry)
                   ELSE [i \in DOMAIN cursors |->
                             IF i \in CursorOf(epoch) THEN entry ELSE cursors[i]]
    IN  IF Len(grown) > CursorLimit THEN Tail(grown) ELSE grown

\* One turn of acceptBatch()'s loop, for the request r.
Process(r) ==
    LET s == r.pos + 1
        p == r.events[s]
    IN  /\ cursors' = IF Fresh(r.epoch, s) THEN Claimed(r.epoch, s) ELSE cursors
        /\ IF r.kind = "durable"
             THEN /\ accepted' = accepted \cup {p}
                  /\ told' = IF Fresh(r.epoch, s)
                               THEN [told EXCEPT ![p] = @ + 1] ELSE told
                  /\ UNCHANGED shown
             ELSE /\ shown' = [shown EXCEPT ![p.key] = IF @ < p.n THEN p.n ELSE @]
                  /\ UNCHANGED <<accepted, told>>

Advanced(r) == [r EXCEPT !.pos = @ + 1]

Awaited == flight # NoFlight /\ flight.alive /\ flight.ack = NoAck

AcceptEvent ==
    /\ Awaited /\ flight.request.pos < flight.request.last
    /\ Whole(flight.request) /\ Process(flight.request)
    /\ assembly' = Assembled(flight.request)
    /\ flight' = [flight EXCEPT !.request = Advanced(@)]
    /\ UNCHANGED <<disk, phase, lanes, late, epochs, newest, passed, counts>>

\* A request the connector gave up arrives, or its handler goes on.
AcceptLate ==
    \E r \in late :
        /\ r.pos < r.last /\ Whole(r) /\ Process(r)
        /\ assembly' = Assembled(r)
        /\ late' = (late \ {r}) \cup
                       (IF r.pos + 1 < r.last \/ IsLarge(r)
                        THEN {Advanced(r)} ELSE {})
        /\ UNCHANGED <<disk, phase, flight, lanes, epochs, newest, passed,
                       counts>>

\* A fragment arrives that does not complete its event, and the connector
\* sends the one the server asks for ...
AcceptFragment ==
    LET r == flight.request
        n == Partial(assembly, Id(r), r.frag)
    IN  /\ Awaited /\ r.pos < r.last /\ ~Whole(r)
        /\ assembly' = Assembled(r)
        /\ GoesOn(r.frag, n)
        /\ flight' = [flight EXCEPT !.request = [r EXCEPT !.frag = n]]
        /\ UNCHANGED <<disk, phase, lanes, late, memory, epochs, newest, passed,
                       counts>>

\* ... or gives up, because it cannot use the answer.
FragmentRefused ==
    LET r == flight.request
    IN  /\ Awaited /\ r.pos < r.last /\ ~Whole(r)
        /\ assembly' = Assembled(r)
        /\ ~GoesOn(r.frag, Partial(assembly, Id(r), r.frag))
        /\ Restore /\ flight' = NoFlight
        /\ UNCHANGED <<disk, phase, preferLive, liveEpoch, liveSeq, late, memory,
                       epochs, newest, passed, counts>>

\* A fragment of a request the connector gave up, and the end of its commit.
AcceptLateFragment ==
    \E r \in late :
        /\ r.pos < r.last /\ ~Whole(r)
        /\ assembly' = Assembled(r) /\ late' = late \ {r}
        /\ UNCHANGED <<disk, phase, flight, lanes, memory, epochs, newest, passed,
                       counts>>

LateCommitted ==
    \E r \in late :
        /\ r.pos = r.last
        /\ assembly' = Discarded(assembly, Id(r)) /\ late' = late \ {r}
        /\ UNCHANGED <<disk, phase, flight, lanes, memory, epochs, newest, passed,
                       counts>>

\* A transfer that has stood still for 60 seconds is dropped.
TransferExpires ==
    /\ assembly # NoAssembly /\ counts.restarts < MaxRestarts
    /\ counts' = [counts EXCEPT !.restarts = @ + 1]
    /\ assembly' = NoAssembly
    /\ UNCHANGED <<disk, phase, flight, lanes, late, memory, epochs, newest,
                   passed>>

Reply ==
    /\ Awaited /\ flight.request.pos = flight.request.last
    /\ flight' = [flight EXCEPT !.ack = flight.request.last]
    /\ assembly' = IF IsLarge(flight.request)
                   THEN Discarded(assembly, Id(flight.request)) ELSE assembly
    /\ UNCHANGED <<disk, phase, lanes, late, memory, epochs, newest, passed,
                   counts>>

\* A server of an older release that lost its cursor refuses the batch by
\* acknowledging zero.
LegacyReply ==
    /\ LegacyServer /\ Awaited /\ ~IsLarge(flight.request)
    /\ flight.request.first > 1 /\ flight.request.pos < flight.request.first
    /\ epochs < MaxEpochs
    /\ flight' = [flight EXCEPT !.ack = 0]
    /\ UNCHANGED <<disk, phase, lanes, late, server, epochs, newest, passed,
                   counts>>

\* The server process is replaced: cursors, unanswered handlers and partial
\* transfers are gone, unless it happens between two fragments of a transfer.
ServerRestart ==
    /\ counts.restarts < MaxRestarts
    /\ counts' = [counts EXCEPT !.restarts = @ + 1]
    /\ cursors' = <<>> /\ assembly' = NoAssembly
    /\ told' = [p \in 1 .. MaxDurable |-> 0]
    /\ late' = {r \in late : r.pos < r.first}
    /\ \/ flight' = IF flight # NoFlight /\ flight.ack = NoAck
                      THEN [flight EXCEPT !.alive = FALSE] ELSE flight
       \/ /\ Awaited /\ flight.request.frag > 0
          /\ flight.request.pos < flight.request.last
          /\ UNCHANGED flight
    /\ UNCHANGED <<disk, phase, lanes, accepted, shown, epochs, newest, passed>>

-----------------------------------------------------------------------------
Connector ==
    \/ EmitDurable
    \/ \E s \in Sessions : EmitSession(s)
    \/ \E w \in Watches : EmitGit(w)
    \/ FlushDurable \/ FlushLive \/ DurableAcked \/ LiveAcked
    \/ RequestFails \/ ConnectionLost \/ Stop \/ Exit \/ Start

Server ==
    \/ AcceptEvent \/ AcceptLate \/ Reply \/ LegacyReply \/ ServerRestart
    \/ AcceptFragment \/ FragmentRefused \/ AcceptLateFragment
    \/ LateCommitted \/ TransferExpires

Next == Connector \/ Server

Spec == Init /\ [][Next]_vars

(***************************************************************************)
(* Fairness.  The flush loop re-arms itself while anything is pending      *)
(* (flush()'s finally), a handler the server has begun runs on, a broken   *)
(* connection is noticed, and the service manager restarts the process.    *)
(* The environment is assumed to stop failing requests at some time: the   *)
(* retry loop has no end, so nothing weaker can promise delivery.          *)
(***************************************************************************)
Fairness ==
    /\ WF_vars(\/ FlushDurable \/ FlushLive
               \/ DurableAcked \/ LiveAcked \/ ConnectionLost)
    /\ WF_vars(AcceptEvent \/ AcceptFragment \/ FragmentRefused \/ Reply)
    /\ WF_vars((Exit /\ phase = "stopping") \/ Start)

FairSpec == Spec /\ Fairness /\ <>[][~RequestFails]_vars

-----------------------------------------------------------------------------
(* Properties.                                                             *)

\* How far payload numbers run ahead of the journal's sequences: only a
\* rebase moves it.
Shift == emitted - journal.next

\* Types, and what is pending is numbered as the payloads were emitted.
TypeOK ==
    /\ emitted \in 0 .. MaxDurable /\ epochs \in Nat
    /\ journal.epoch \in 1 .. epochs /\ journal.next \in 0 .. emitted
    /\ journal.acked \in 0 .. journal.next
    /\ phase \in {"up", "stopping", "down"}
    /\ accepted \subseteq 1 .. emitted
    /\ told \in [1 .. MaxDurable -> Nat]
    /\ \A r \in late : r.kind \in {"durable", "live"}

\* Whenever the process dies, the next one can open the journal it left:
\* sequences are contiguous and agree with the metadata row (state.ts
\* open()), through enqueue, acknowledgement and rebase.
JournalOpens == Opens(journal)

\* A durable payload is deleted from the journal only after the server has
\* processed it: a crash of either side, a lost answer or a rebase loses none.
NoEventLost ==
    \A p \in 1 .. emitted :
        p \in accepted \/ \E s \in Pending(journal) : journal.events[s] = p

\* The journal's rows hold the newest payloads, in the order of emission,
\* under whatever sequences a rebase gave them.
PendingInOrder == \A s \in Pending(journal) : journal.events[s] = s + Shift

\* The server sees a payload for the first time only when it has seen all
\* earlier ones, although requests are retried, abandoned and overtaken.
AcceptedInOrder == \E n \in 0 .. emitted : accepted = 1 .. n

\* acceptBatch() claims the notification cursor before it processes an
\* event: while one server process lives, a retry never notifies twice - not
\* even one that overtakes another - as long as no cursor had to be dropped
\* (the map has never been full) and no older server made the journal rebase.
NotifiedOnce ==
    journal.epoch = 1 /\ Len(cursors) < CursorLimit =>
        \A p \in 1 .. MaxDurable : told[p] <= 1

\* The first time the server processes a payload is never taken for a retry:
\* a status transition is not swallowed by the cursor.
FirstAcceptanceNotifies ==
    [][\A p \in accepted' \ accepted : told'[p] > told[p]]_<<accepted, told>>

\* flush() alternates: while both lanes have something to send, at most one
\* delivered batch of a lane passes the other by.
LanesAlternate == passed.durable <= 1 /\ passed.live <= 1

Held(key) ==
    LET InFlight == IF flight = NoFlight THEN {} ELSE
                    {flight.request.events[s] :
                        s \in flight.request.first .. flight.request.last}
        queued   == {liveQ[i] : i \in DOMAIN liveQ}
        hinted   == {hints[k] : k \in DOMAIN hints}
        live     == IF flight # NoFlight /\ flight.request.kind = "live"
                      THEN InFlight ELSE {}
    IN  \E p \in queued \cup hinted \cup live :
            p.key = key /\ p.n = newest[key]

\* While the process is up, the newest payload of a key has been processed
\* by the server or is still going to be sent.
NewestHeldFor(keys) ==
    phase = "up" =>
        \A k \in keys : newest[k] > 0 => shown[k] >= newest[k] \/ Held(k)

\* enqueue(): "only the newest status matters, so an undelivered status is
\* replaced rather than queued" - and the newest itself is never lost.
NewestGitStatusHeld == NewestHeldFor(Watches)

\* client.ts:102-108, "Keep the newest displaced envelope for every
\* subscription as a reconciliation marker": the newest envelope of a quiet
\* session is never lost while the process lives.
NewestEnvelopeHeld == NewestHeldFor(Sessions)

\* The live buffer stays bounded: restored batches may exceed the limit by
\* one batch, never more, however often requests fail.
LiveBufferBounded == Len(liveQ) <= LiveLimit + BatchLimit

\* The durable lane delivers everything in the end, under fairness: while
\* nothing new is journaled, the backlog drains, and emission ends at MaxDurable.
EventuallyAccepted == []<>(accepted = 1 .. emitted)
=============================================================================
