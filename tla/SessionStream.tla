---------------------------- MODULE SessionStream ----------------------------
(***************************************************************************)
(* A session's transcript on its way to a page that shows it: the          *)
(* subscriptions of the connector (apps/connector/src/daemon.ts), those of *)
(* the broker (apps/web/lib/agents/connector/broker.ts), the event stream  *)
(* (app/api/agent-sessions/[id]/events/route.ts) and the page's replica    *)
(* (packages/agent-bridge/src/replica.ts, lib/queries/agentSessions.ts;    *)
(* the mobile app's lib/agents/stream.ts reconciles and reconnects alike). *)
(*                                                                         *)
(* The connector speaks session-sync-v1.  An envelope is one event, named  *)
(* by its cursor; the transcript at the n-th sequence of an epoch is the   *)
(* events 1 .. n of the epoch, the first of a later one being the snapshot *)
(* that opened it.                                                         *)
(***************************************************************************)
EXTENDS CommandChannel

CONSTANT Subs       \* subscription ids, and the event streams they feed

ASSUME SubsAssumption == Subs \subseteq Nat \ {0}

VARIABLES
    timeline,  \* the cursor of the connector's timeline
    csubs,     \* the connector's subscriptions
    hints,     \* envelopes it has emitted, in order, for the live lane
    late,      \* copies of them in requests it has given up
    subs,      \* the broker's subscriptions
    page       \* the page: its replica and its event stream

stream == <<timeline, csubs, hints, late, subs, page>>

Cursor(epoch, seq) == [epoch |-> epoch, seq |-> seq]
NoCursor == Cursor(0, 0)
Event(c)  == <<c.epoch, c.seq>>
Events(epoch, from, to) == [n \in 1 .. to - from + 1 |-> Cursor(epoch, from + n - 1)]

NoSub == [phase |-> "none"]

-----------------------------------------------------------------------------
(* Replicas.  One without a cursor is none.                                *)

Replica(c, log) == [cursor |-> c, log |-> log]
NoReplica == Replica(NoCursor, <<>>)
Snapshot(c) == Replica(c, [n \in 1 .. c.seq |-> <<c.epoch, n>>])
Reconcile == Replica(Cursor(0, 1), <<>>)

\* A mistake: an envelope that follows a gap is applied.
ApplyAcrossGaps(r, c) ==
    IF r = Reconcile \/ c.epoch # r.cursor.epoch THEN Reconcile
    ELSE IF c.seq <= r.cursor.seq THEN r
    ELSE Replica(c, Append(r.log, Event(c)))

\* applyEnvelopeToReplica()
Apply(r, c) ==
    IF r = Reconcile \/ c.epoch # r.cursor.epoch THEN Reconcile
    ELSE IF c.seq <= r.cursor.seq THEN r
    ELSE IF c.seq # r.cursor.seq + 1 THEN Reconcile
    ELSE Replica(c, Append(r.log, Event(c)))

\* applySyncToReplica()
ApplySync(r, sync) ==
    IF sync.reset THEN Snapshot(sync.cursor)
    ELSE LET Result[n \in 0 .. Len(sync.events)] ==
                 IF n = 0 THEN r ELSE Apply(Result[n - 1], sync.events[n])
             last == Result[Len(sync.events)]
         IN  IF r.cursor.epoch # sync.cursor.epoch \/ last.cursor # sync.cursor
             THEN Reconcile ELSE last

\* resolveAgentSessionFetchRace()
Resolve(base, live, fetched) ==
    IF live = base THEN fetched
    ELSE IF live.cursor.epoch # fetched.cursor.epoch
         THEN IF live.cursor.epoch # base.cursor.epoch THEN live ELSE fetched
    ELSE IF live.cursor.seq >= fetched.cursor.seq THEN live ELSE fetched

-----------------------------------------------------------------------------
StreamInit ==
    /\ timeline = Cursor(1, 0)
    /\ csubs = {} /\ hints = <<>> /\ late = {}
    /\ subs = [s \in Subs |-> NoSub]
    /\ page = [mode |-> "away", replica |-> NoReplica, sub |-> 0,
               feed |-> <<>>, base |-> NoReplica, query |-> FALSE,
               before |-> NoReplica]

-----------------------------------------------------------------------------
(* The connector.                                                          *)

\* notify(): every subscriber gets the envelope.
Notify(c) ==
    hints' = hints \o [n \in 1 .. Cardinality(csubs) |->
                           [for |-> SetToSeq(csubs)[n], at |-> c]]

Commit ==
    LET c == [timeline EXCEPT !.seq = @ + 1]
    IN  timeline' = c /\ Notify(c) /\ UNCHANGED <<csubs, late, subs, page>>

\* The history is replaced: rewind, another provider session.
Rewind ==
    LET c == Cursor(timeline.epoch + 1, 1)
    IN  timeline' = c /\ Notify(c) /\ UNCHANGED <<csubs, late, subs, page>>

\* syncState(): the events after a cursor, unless the tail has been dropped.
Syncs(after) ==
    {[reset |-> TRUE, cursor |-> timeline, events |-> <<>>]} \cup
    (IF after.epoch # timeline.epoch \/ after.seq > timeline.seq THEN {}
     ELSE {[reset |-> FALSE, cursor |-> timeline,
            events |-> Events(timeline.epoch, after.seq + 1, timeline.seq)]})

\* handleRequest(), to the first await and behind it.
StartSession(command) ==
    /\ Start(command, command.type # "unsubscribe")
    /\ csubs' = IF command.type = "open" THEN csubs ELSE csubs \ {command.for}
    /\ UNCHANGED <<timeline, hints, late, subs, page>>

AnswerSession(command, ok) ==
    /\ \E sync \in Syncs(command.after) : Answer(command, ok, sync)
    /\ csubs' = IF ok /\ command.type = "subscribe"
                THEN csubs \cup {command.for} ELSE csubs
    /\ UNCHANGED <<timeline, hints, late, subs, page>>

\* A mistake: a new connection finds the subscriptions of the old one.
BeginSessionsKept == UNCHANGED stream

\* beginConnection()
BeginSessions == csubs' = {} /\ UNCHANGED <<timeline, hints, late, subs, page>>

\* The live buffer is full: the oldest envelope goes, not being the newest.
Displace ==
    /\ \E n \in 2 .. Len(hints) : hints[n].for = Head(hints).for
    /\ hints' = Tail(hints)
    /\ UNCHANGED <<timeline, csubs, late, subs, page>>

\* What the process remembers of sessions dies with it; what the server has
\* been sent may still arrive.
DieSessions ==
    /\ csubs' = {} /\ hints' = <<>>
    /\ UNCHANGED <<timeline, late, subs, page>>

-----------------------------------------------------------------------------
(* The broker's subscriptions.                                             *)

Subscribe(s, after) == Command("subscribe", s, after)

\* What deliverEnvelope() makes of an envelope, and of several.
Deliver(s, c) ==
    LET sub  == s.sub
        next == sub.after.epoch = c.epoch /\ c.seq = sub.after.seq + 1
    IN  IF sub.after.epoch = c.epoch /\ c.seq <= sub.after.seq THEN s
        ELSE [sub  |-> IF next THEN [sub EXCEPT !.after = c] ELSE sub,
              feed |-> Append(s.feed, c)]

DeliverAll(sub, cs) ==
    LET Result[n \in 0 .. Len(cs)] ==
            IF n = 0 THEN [sub |-> sub, feed |-> <<>>]
            ELSE Deliver(Result[n - 1], cs[n])
    IN  Result[Len(cs)]

\* What the route sends to the page that still listens.
Feed(s, items) ==
    IF page.sub = s THEN [page EXCEPT !.feed = @ \o items] ELSE page

Closed(s) ==
    IF page.sub = s THEN [page EXCEPT !.feed = Append(@, [closed |-> TRUE])] ELSE page

\* A mistake: what comes before the answer is dropped.
NotBuffered(sub, c) == sub

\* The replayBuffer of a subscription that is being set up.
Buffered(sub, c) == [sub EXCEPT !.buffer = Append(@, c)]

\* An envelope arrives: from the live lane, or once more.
Push(hint) ==
    LET s == hint.for
    IN  IF subs[s] = NoSub THEN UNCHANGED <<subs, page>>
        ELSE IF subs[s].phase # "on"
        THEN /\ subs' = [subs EXCEPT ![s] = Buffered(@, hint.at)]
             /\ UNCHANGED page
        ELSE LET after == DeliverAll(subs[s], <<hint.at>>)
             IN  /\ subs' = [subs EXCEPT ![s] = after.sub]
                 /\ page' = Feed(s, after.feed)

Arrive(kept) ==
    /\ hints # <<>> /\ hints' = Tail(hints)
    /\ late' = IF kept THEN late \cup {Head(hints)} ELSE late
    /\ Push(Head(hints))
    /\ UNCHANGED <<timeline, csubs>>

ArriveLate ==
    \E hint \in late :
        late' = late \ {hint} /\ Push(hint) /\ UNCHANGED <<timeline, csubs, hints>>

\* subscribeSession() and resubscribe() once the answer is there, or is an
\* error; a subscription that ends while it is set up is told the connector.
Settle(s, ok, sync) ==
    LET sub   == subs[s]
        gone  == sub = NoSub
        first == sub.phase = "init"
        same  == sub.asked = link.channel
        done  == DeliverAll([sub EXCEPT !.after = sync.cursor, !.phase = "on",
                                        !.buffer = <<>>], sub.buffer)
    IN  IF gone THEN UNCHANGED <<subs, page>>
        ELSE IF same /\ ok
        THEN /\ subs' = [subs EXCEPT ![s] = done.sub]
             /\ page' = Feed(s, <<sync>> \o done.feed)
        ELSE IF same \/ first
        THEN subs' = [subs EXCEPT ![s] = NoSub] /\ page' = Closed(s)
        ELSE UNCHANGED <<subs, page>>

\* The answer to a request of the page, or its failure.
Opened(command, ok, sync) ==
    /\ page' = IF command.for = "query"
               THEN LET fetched == ApplySync(page.before, sync)
                    IN  [page EXCEPT !.query = FALSE, !.before = NoReplica,
                             !.replica = IF ok /\ fetched # Reconcile
                                         THEN Resolve(page.before, @, fetched)
                                         ELSE @]
               ELSE LET fetched == ApplySync(page.base, sync)
                        fine    == ok /\ fetched # Reconcile
                    IN  [page EXCEPT !.base = NoReplica,
                             !.mode = IF fine THEN "connect" ELSE "reconcile",
                             !.replica = IF fine THEN fetched ELSE @]
    /\ UNCHANGED subs

Unsubscribes(command, ok) ==
    IF command.type = "subscribe" /\ subs[command.for] # NoSub
       /\ (subs[command.for].asked = link.channel => ~ok)
       /\ (subs[command.for].asked # link.channel => subs[command.for].phase = "init")
    THEN <<Command("unsubscribe", command.for, NoCursor)>> ELSE <<>>

AcceptSession ==
    LET answer == Head(journal)
        command == answer.to
    IN  /\ journal # <<>> /\ Lane(command) = "session"
        /\ IF ~Awaited THEN Accept(<<>>) /\ UNCHANGED <<subs, page>>
           ELSE /\ Accept(Unsubscribes(command, answer.ok))
                /\ IF command.type = "open"
                   THEN Opened(command, answer.ok, answer.data)
                   ELSE Settle(command.for, answer.ok, answer.data)
        /\ UNCHANGED <<timeline, csubs, hints, late>>

\* The route's reader is gone: unsubscribe, once there is a subscription.
Leave(s) ==
    /\ subs[s] # NoSub /\ subs[s].phase # "init" /\ page.sub # s
    /\ subs' = [subs EXCEPT ![s] = NoSub]
    /\ Tell(Command("unsubscribe", s, NoCursor))
    /\ UNCHANGED <<timeline, csubs, hints, late, page>>

-----------------------------------------------------------------------------
(* A new connection, and none for too long.                                *)

\* Awaited requests of the page that fail.
Refetch(p) == [p EXCEPT
    !.mode = IF @ = "fetch" THEN "reconcile" ELSE @, !.base = NoReplica,
    !.query = FALSE, !.before = NoReplica]

Settled == {s \in Subs : subs[s] # NoSub /\ subs[s].phase # "init"}
Setting == {s \in Subs : subs[s] # NoSub /\ subs[s].phase = "init"}

Resubscriptions(epoch) ==
    [n \in 1 .. Cardinality(Settled) |->
        LET s == SetToSeq(Settled)[n]
        IN  [type |-> "subscribe", for |-> s, after |-> subs[s].after,
             epoch |-> epoch]]

Unwanted(epoch) ==
    [n \in 1 .. Cardinality(Setting) |->
        [type |-> "unsubscribe", for |-> SetToSeq(Setting)[n],
         after |-> NoCursor, epoch |-> epoch]]

RegisterSessions(epoch) ==
    /\ subs' = [s \in Subs |->
           IF s \in Settled
           THEN [subs[s] EXCEPT !.phase = "again", !.buffer = <<>>, !.asked = epoch]
           ELSE NoSub]
    /\ page' = Refetch(IF page.sub \in Setting THEN Closed(page.sub) ELSE page)
    /\ UNCHANGED <<timeline, csubs, hints, late>>

DisconnectSessions ==
    /\ subs' = [s \in Subs |-> NoSub]
    /\ page' = Refetch(IF page.sub \in Settled \cup Setting
                       THEN Closed(page.sub) ELSE page)
    /\ UNCHANGED <<timeline, csubs, hints, late>>

\* The new server process has no subscriptions; the page may still read what it
\* was sent before its stream broke.
ReplacedSessions ==
    /\ subs' = [s \in Subs |-> NoSub]
    /\ \E n \in 0 .. Len(page.feed) :
           page' = Refetch(IF page.mode # "on" THEN page
                           ELSE [page EXCEPT !.feed =
                               Append(SubSeq(@, 1, n), [closed |-> TRUE])])
    /\ UNCHANGED <<timeline, csubs, hints, late>>

-----------------------------------------------------------------------------
(* The page.                                                               *)

Rest == UNCHANGED <<timeline, csubs, hints, late>>

\* The page is opened: what it shows first is fetched as reconcile() does.
View == page.mode = "away" /\ page' = [page EXCEPT !.mode = "reconcile"]
        /\ Rest /\ UNCHANGED <<channel, subs>>

\* reconcile(): while the connector is offline every attempt fails.
Reopen ==
    /\ page.mode = "reconcile" /\ Online
    /\ page' = [page EXCEPT !.mode = "fetch", !.base = page.replica]
    /\ Ask(Command("open", "page", page.replica.cursor))
    /\ Rest /\ UNCHANGED subs

Unused == {s \in Subs :
    /\ subs[s] = NoSub /\ s \notin csubs /\ s # page.sub
    /\ \A h \in late \cup ToSet(hints) : h.for # s
    /\ \A c \in Commands : c.type \in {"subscribe", "unsubscribe"} => c.for # s}

\* connect()
Connect ==
    /\ page.mode = "connect"
    /\ IF Online
       THEN \E s \in Unused :
              /\ \A other \in Unused : s <= other
              /\ subs' = [subs EXCEPT ![s] =
                     [phase |-> "init", after |-> page.replica.cursor,
                      buffer |-> <<>>, asked |-> link.channel]]
              /\ page' = [page EXCEPT !.mode = "on", !.sub = s]
              /\ Ask(Subscribe(s, page.replica.cursor))
       ELSE /\ page' = [page EXCEPT !.mode = "reconcile"]
            /\ UNCHANGED <<channel, subs>>
    /\ Rest

Closing == [page EXCEPT !.mode = "reconcile", !.sub = 0, !.feed = <<>>]

\* What the stream brings is applied, or calls for a reconciliation.
Consume ==
    /\ page.feed # <<>>
    /\ LET item == Head(page.feed)
           next == IF "closed" \in DOMAIN item THEN Reconcile
                   ELSE IF "reset" \in DOMAIN item
                   THEN ApplySync(page.replica, item)
                   ELSE Apply(page.replica, item)
       IN  page' = IF next = Reconcile THEN Closing
                   ELSE [page EXCEPT !.feed = Tail(@), !.replica = next]
    /\ Rest /\ UNCHANGED <<channel, subs>>

\* The connection of the stream breaks.
Cut == page.mode = "on" /\ page' = Closing /\ Rest /\ UNCHANGED <<channel, subs>>

\* The query is invalidated: it is fetched beside the stream.
Invalidate ==
    /\ page.replica # NoReplica /\ ~page.query /\ Online
    /\ page' = [page EXCEPT !.query = TRUE, !.before = page.replica]
    /\ Ask(Command("open", "query", page.replica.cursor))
    /\ Rest /\ UNCHANGED subs
=============================================================================
