------------------------------ MODULE Timeline ------------------------------
(***************************************************************************)
(* The durable transcript of one session: the connector's timeline store   *)
(* (apps/connector/src/timeline.ts) and the capture that feeds it from a   *)
(* provider runtime (daemon.ts attachTimeline() to retireRuntime()).       *)
(*                                                                         *)
(* A transcript's content is the sequence of the events shown, an event    *)
(* being the number of its publication.  What a runtime publishes is a     *)
(* delta (one event more, at an expected offset), a turn update or a       *)
(* snapshot (both carry the whole content).  Epochs are UUIDs: the n-th    *)
(* one drawn is the number n.                                              *)
(***************************************************************************)
EXTENDS Integers, Sequences, FiniteSets, FiniteSetsExt, SequencesExt

CONSTANTS
    Followers,      \* subscribers, each with the cursor of a browser
    Kinds,          \* what the runtime publishes
    TailLimit,      \* MAX_TAIL_EVENTS: 500 in the code
    MaxEvents,      \* bound on the events published or imported
    MaxAttaches,    \* bound on the runtimes attached
    MaxRewinds,     \* bound on the histories replaced under a live runtime
    MaxDeletes,     \* bound on the deletions of the session
    MaxSubscribes,  \* bound on the subscriptions
    MaxCrashes      \* bound on the crashes and write failures

ASSUME TimelineAssumption ==
    /\ Kinds \subseteq {"delta", "turn", "snapshot"}
    /\ TailLimit \in Nat /\ MaxEvents \in Nat /\ MaxAttaches \in Nat
    /\ MaxRewinds \in Nat /\ MaxDeletes \in Nat
    /\ MaxSubscribes \in Nat /\ MaxCrashes \in Nat

VARIABLES
    disk,      \* the file: a checkpoint, the records after it, a torn end
    \* The store.
    mem,       \* the session's TimelineState, or NoState
    subs,      \* its subscribers
    batch,     \* the commits of the pending batch
    tail,      \* the session's operations, the first being carried out
    fatal,     \* the store or the capture failed: the connector gives up
    \* The daemon.
    capture,   \* "none", "opening", "capturing" or "retiring"
    buffered,  \* envelopes observed while the timeline is being opened
    runtime,   \* the content of the runtime's own transcript
    flush,     \* the flushCapture() that is awaited, or NoFlush
    \* The browsers' cursors and content, history and bounds.
    view,
    epochs,
    counts

store  == <<mem, subs, batch, tail, fatal>>
daemon == <<capture, buffered, runtime, flush>>
vars   == <<disk, store, daemon, view, epochs, counts>>

NoFile  == [file |-> "none"]
NoState == [state |-> "none"]
NoView  == [epoch |-> 0, seq |-> 0, log |-> <<>>, reconcile |-> FALSE]
NoFlush == [goal |-> "none"]

-----------------------------------------------------------------------------
(* Envelopes.                                                              *)

Delta(offset, id) == [kind |-> "delta", offset |-> offset, id |-> id]
Whole(kind, log)  == [kind |-> kind, log |-> log]

Ids(deltas) == [i \in DOMAIN deltas |-> deltas[i].id]

\* applyAgentRuntimeEnvelope() over several envelopes: the content from the
\* last one that carries it all, and the deltas behind.
Replay(log, envelopes) ==
    LET whole == {i \in DOMAIN envelopes : envelopes[i].kind # "delta"}
        last  == Max(whole)
    IN  IF whole = {} THEN log \o Ids(envelopes)
        ELSE envelopes[last].log
                 \o Ids(SubSeq(envelopes, last + 1, Len(envelopes)))

\* Every delta finds the offset it expects.
Applies(log, envelopes) ==
    \A i \in DOMAIN envelopes :
        envelopes[i].kind = "delta" =>
            envelopes[i].offset = Len(Replay(log, SubSeq(envelopes, 1, i - 1)))

\* coalesceCommits(): of adjacent snapshots, and of adjacent updates of a
\* turn, only the last gets a sequence.
Coalesced(commits) ==
    LET Lasting(i) == \/ i = Len(commits) \/ commits[i].kind = "delta"
                      \/ commits[i].kind # commits[i + 1].kind
        Kept[n \in 0 .. Len(commits)] ==
            IF n = 0 THEN <<>>
            ELSE IF Lasting(n) THEN Append(Kept[n - 1], commits[n]) ELSE Kept[n - 1]
    IN  Kept[Len(commits)]

-----------------------------------------------------------------------------
(* The file.                                                               *)

Checkpoint(m) == [epoch |-> m.epoch, seq |-> m.seq, base |-> m.log,
                  records |-> <<>>, torn |-> FALSE]

\* A mistake: a torn file is taken back to its checkpoint.
ReopenedAtCheckpoint(d) ==
    [epoch |-> d.epoch, seq |-> d.seq + (IF d.torn THEN 0 ELSE Len(d.records)),
     log |-> IF d.torn THEN d.base ELSE Replay(d.base, d.records),
     events |-> IF d.torn THEN <<>> ELSE d.records]

\* load(): the checkpoint and the records after it.  An unterminated end is
\* dropped unless it is a whole record, and the file is then rewritten.
Reopened(d) ==
    [epoch |-> d.epoch, seq |-> d.seq + Len(d.records),
     log |-> Replay(d.base, d.records),
     events |-> IF d.torn THEN <<>> ELSE d.records]

Repaired(d) == IF d.torn THEN Checkpoint(Reopened(d)) ELSE d

\* What an operation finds once it has loaded the state.
Current == IF mem # NoState THEN mem
           ELSE IF disk = NoFile THEN NoState ELSE Reopened(disk)
File    == IF mem # NoState \/ disk = NoFile THEN disk ELSE Repaired(disk)

-----------------------------------------------------------------------------
(* What operations lead to.                                                *)

Drain(commits, then) == [op |-> "drain", commits |-> commits, then |-> then]
Open(log, replace)   == [op |-> "open", log |-> log, replace |-> replace]
Follow(f)            == [op |-> "subscribe", who |-> f]
Release              == [op |-> "release"]
Delete               == [op |-> "delete"]

\* What subscribers are told: envelopes under consecutive sequences.
Told(epoch, first, envelopes) ==
    [epoch |-> epoch, first |-> first, envelopes |-> envelopes]

Groups == Coalesced(Head(tail).commits)

\* A mistake: a checkpoint leaves the events it covers in memory.
DrainedKeepingEvents(checkpoint) ==
    LET m    == Current
        next == [epoch |-> m.epoch, seq |-> m.seq + Len(Groups),
                 log |-> Replay(m.log, Groups), events |-> m.events \o Groups]
    IN  [mem  |-> next,
         disk |-> IF checkpoint THEN Checkpoint(next)
                  ELSE [File EXCEPT !.records = @ \o Groups],
         told |-> Told(m.epoch, m.seq + 1, Groups)]

\* The operation of drainPending(), writing a checkpoint or appending.
Drained(checkpoint) ==
    LET m    == Current
        next == [epoch |-> m.epoch, seq |-> m.seq + Len(Groups),
                 log |-> Replay(m.log, Groups),
                 events |-> IF checkpoint THEN <<>> ELSE m.events \o Groups]
    IN  [mem  |-> next,
         disk |-> IF checkpoint THEN Checkpoint(next)
                  ELSE [File EXCEPT !.records = @ \o Groups],
         told |-> Told(m.epoch, m.seq + 1, Groups)]

\* A snapshot, or too many records, forces a checkpoint; too many bytes may.
MustCheckpoint == \/ \E i \in DOMAIN Groups : Groups[i].kind = "snapshot"
                  \/ Len(Current.events) + Len(Groups) > TailLimit

Applicable == Current # NoState /\ Applies(Current.log, Groups)

\* A mistake: a replacement goes on under the epoch there was.
OpenedKeepingEpoch ==
    LET o    == Head(tail)
        m    == Current
        next == [epoch |-> IF m = NoState THEN epochs + 1 ELSE m.epoch,
                 seq |-> IF m = NoState THEN 0 ELSE IF o.replace THEN 1 ELSE m.seq + 1,
                 log |-> o.log, events |-> <<>>]
    IN  [mem |-> next, disk |-> Checkpoint(next),
         told |-> Told(next.epoch, next.seq, <<Whole("snapshot", o.log)>>)]

\* The operation of openSession(): create, replace under a fresh epoch, or
\* reconcile, which takes over the runtime's content.
Opened ==
    LET o    == Head(tail)
        m    == Current
        anew == m = NoState \/ o.replace
        next == [epoch |-> IF anew THEN epochs + 1 ELSE m.epoch,
                 seq   |-> IF m = NoState THEN 0
                           ELSE IF o.replace THEN 1 ELSE m.seq + 1,
                 log |-> o.log, events |-> <<>>]
    IN  [mem |-> next, disk |-> Checkpoint(next),
         told |-> Told(next.epoch, next.seq,
                       IF m = NoState THEN <<>> ELSE <<Whole("snapshot", o.log)>>)]

\* A file to which an append was cut off, maybe within a record.
Cut(n, torn) == [File EXCEPT !.records = @ \o SubSeq(Groups, 1, n), !.torn = torn]

\* What the first operation may leave on disk when it does not come to its
\* end: a rename is done or not, an append may stop anywhere.
Leftovers ==
    {disk, File} \cup
    (IF tail = <<>> THEN {}
     ELSE IF Head(tail).op = "open" THEN {Opened.disk}
     ELSE IF Head(tail).op = "delete" THEN {NoFile}
     ELSE IF Head(tail).op = "drain" /\ Applicable
       THEN {Drained(TRUE).disk}
                \cup {Cut(n, FALSE) : n \in 0 .. Len(Groups)}
                \cup {Cut(n, TRUE) : n \in 0 .. Len(Groups)}
     ELSE {})

-----------------------------------------------------------------------------
(* Subscribers.                                                            *)

\* What a browser makes of envelopes it is told (applyEnvelopeToReplica()):
\* it skips those it has, applies those that continue its own, and asks for
\* reconciliation when neither is possible.
Heard(v, told) ==
    LET new == SubSeq(told.envelopes, v.seq - told.first + 2, Len(told.envelopes))
    IN  IF told.envelopes = <<>> THEN v
        ELSE IF v.epoch = told.epoch /\ told.first <= v.seq + 1 /\ Applies(v.log, new)
          THEN [v EXCEPT !.seq = @ + Len(new), !.log = Replay(@, new)]
        ELSE [v EXCEPT !.reconcile = TRUE]

Notify(told) ==
    view' = [f \in Followers |-> IF f \in subs THEN Heard(view[f], told)
                                               ELSE view[f]]

Reset(m) == [epoch |-> m.epoch, seq |-> m.seq, log |-> m.log, reconcile |-> FALSE]

CatchUp(v, m) ==
    [Reset(m) EXCEPT
         !.log = Replay(v.log, SubSeq(m.events, v.seq - (m.seq - Len(m.events)) + 1,
                                      Len(m.events)))]

\* A mistake: any cursor of the epoch is answered with the events retained.
SyncsRetained(v, m) ==
    IF v.epoch # m.epoch \/ v.seq > m.seq
      THEN {Reset(m)}
      ELSE {Reset(m), [Reset(m) EXCEPT !.log = Replay(v.log, m.events)]}

\* syncState(): the events after the cursor, or a reset when they are not
\* all retained - or, whatever is retained, too many bytes.
Syncs(v, m) ==
    IF v.epoch # m.epoch \/ v.seq > m.seq \/ v.seq < m.seq - Len(m.events)
      THEN {Reset(m)}
      ELSE {Reset(m), CatchUp(v, m)}

-----------------------------------------------------------------------------
(* The store.                                                              *)

Init ==
    /\ disk = NoFile /\ mem = NoState /\ subs = {}
    /\ batch = <<>> /\ tail = <<>> /\ fatal = FALSE
    /\ capture = "none" /\ buffered = <<>> /\ runtime = <<>> /\ flush = NoFlush
    /\ view = [f \in Followers |-> NoView]
    /\ epochs = 0
    /\ counts = [events |-> 0, attaches |-> 0, rewinds |-> 0, deletes |-> 0,
                 subscribes |-> 0, crashes |-> 0]

Bump(what)    == counts' = [counts EXCEPT ![what] = @ + 1]

\* flushPending(), then enqueue(): the operation is queued when the batch
\* pending at the call has been drained, behind what was queued meanwhile.
Call(operation) ==
    IF batch = <<>>
      THEN tail' = Append(tail, operation) /\ UNCHANGED batch
      ELSE tail' = Append(tail, Drain(batch, <<operation>>)) /\ batch' = <<>>

\* A promise that flushCapture() awaits is settled: what goes on from there
\* runs before any timer, file operation or event of a runtime.
Continuing == flush # NoFlush /\ flush.left = 0

Idling == ~fatal /\ ~Continuing

\* A mistake: commits wait for the next flush, no timer drains them.
TimerForgotten == FALSE /\ UNCHANGED vars

\* The timer of the pending batch.
Timer ==
    /\ Idling /\ batch # <<>>
    /\ tail' = Append(tail, Drain(batch, <<>>)) /\ batch' = <<>>
    /\ UNCHANGED <<disk, mem, subs, fatal, daemon, view, epochs, counts>>

Awaits(n) == flush' = IF flush = NoFlush THEN flush
                      ELSE [flush EXCEPT !.left = IF @ > n THEN @ - n ELSE 0]

Doing(op) == Idling /\ tail # <<>> /\ Head(tail).op = op

RunDrain ==
    /\ Doing("drain") /\ Applicable
    /\ \E checkpoint \in BOOLEAN :
           /\ MustCheckpoint => checkpoint
           /\ LET r == Drained(checkpoint)
              IN  mem' = r.mem /\ disk' = r.disk /\ Notify(r.told)
    /\ tail' = Tail(tail) \o Head(tail).then
    /\ Awaits(Len(Head(tail).commits))
    /\ UNCHANGED <<subs, batch, fatal, capture, buffered, runtime, epochs, counts>>

\* An event that cannot be applied fails the capture, and the connector.
DrainFails ==
    /\ Doing("drain") /\ ~Applicable
    /\ fatal' = TRUE
    /\ UNCHANGED <<disk, mem, subs, batch, tail, daemon, view, epochs, counts>>

\* A mistake: what was observed during the opening is dropped.
BufferedDropped ==
    IF capture = "opening"
      THEN /\ capture' = "capturing" /\ buffered' = <<>> /\ UNCHANGED batch
      ELSE UNCHANGED <<capture, batch, buffered>>

\* attachTimeline() goes on when its openSession() is done.
Attached ==
    IF capture = "opening"
      THEN /\ capture' = "capturing"
           /\ batch' = batch \o buffered /\ buffered' = <<>>
      ELSE UNCHANGED <<capture, batch, buffered>>

RunOpen ==
    /\ Doing("open")
    /\ LET r == Opened
       IN  mem' = r.mem /\ disk' = r.disk /\ Notify(r.told)
    /\ epochs' = IF Opened.mem.epoch > epochs THEN epochs + 1 ELSE epochs
    /\ Attached
    /\ tail' = Tail(tail)
    /\ UNCHANGED <<subs, fatal, runtime, flush, counts>>

RunSubscribe ==
    /\ Doing("subscribe") /\ Current # NoState
    /\ mem' = Current /\ disk' = File
    /\ LET f == Head(tail).who
       IN  /\ subs' = subs \cup {f}
           /\ \E v \in Syncs(view[f], Current) : view' = [view EXCEPT ![f] = v]
    /\ tail' = Tail(tail)
    /\ UNCHANGED <<batch, fatal, daemon, epochs, counts>>

\* requireState() finds no timeline: the subscription is refused.
SubscribeFails ==
    /\ Doing("subscribe") /\ Current = NoState
    /\ tail' = Tail(tail)
    /\ UNCHANGED <<disk, mem, subs, batch, fatal, daemon, view, epochs, counts>>

\* A mistake: the state is forgotten although somebody follows it.
ReleaseAlways ==
    /\ Doing("release")
    /\ mem' = NoState /\ tail' = Tail(tail)
    /\ UNCHANGED <<disk, subs, batch, fatal, daemon, view, epochs, counts>>

RunRelease ==
    /\ Doing("release")
    /\ mem' = IF subs = {} THEN NoState ELSE mem
    /\ tail' = Tail(tail)
    /\ UNCHANGED <<disk, subs, batch, fatal, daemon, view, epochs, counts>>

RunDelete ==
    /\ Doing("delete")
    /\ disk' = NoFile /\ mem' = NoState /\ subs' = {}
    /\ tail' = Tail(tail)
    /\ UNCHANGED <<batch, fatal, daemon, view, epochs, counts>>

-----------------------------------------------------------------------------
(* The daemon.                                                             *)

\* A runtime starts from the whole durable transcript, which is empty for a
\* new session, or imports a history of its provider that replaces it; either
\* is opened as the timeline.
Attach(replace) ==
    /\ ~fatal /\ capture = "none" /\ flush = NoFlush /\ tail = <<>>
    /\ counts.attaches < MaxAttaches
    /\ IF replace
         THEN /\ counts.events < MaxEvents
              /\ runtime' = <<counts.events + 1>>
              /\ counts' = [counts EXCEPT !.attaches = @ + 1, !.events = @ + 1]
         ELSE /\ runtime' = IF Current = NoState THEN <<>> ELSE Current.log
              /\ Bump("attaches")
    /\ capture' = "opening"
    /\ Call(Open(runtime', replace))
    /\ UNCHANGED <<disk, mem, subs, fatal, buffered, flush, view, epochs>>

\* The runtime publishes, and the capture observes it.
Publish(kind) ==
    /\ Idling /\ capture \in {"opening", "capturing"}
    /\ counts.events < MaxEvents /\ Bump("events")
    /\ LET id == counts.events + 1
           e  == IF kind = "delta" THEN Delta(Len(runtime), id)
                                   ELSE Whole(kind, Append(runtime, id))
       IN  /\ runtime' = Append(runtime, id)
           /\ IF capture = "opening"
                THEN buffered' = Append(buffered, e) /\ UNCHANGED batch
                ELSE batch' = Append(batch, e) /\ UNCHANGED buffered
    /\ UNCHANGED <<disk, mem, subs, tail, fatal, capture, flush, view, epochs>>

CommitsIn(operations) ==
    LET Sum[n \in 0 .. Len(operations)] ==
            IF n = 0 THEN 0
            ELSE IF operations[n].op = "drain"
              THEN Sum[n - 1] + Len(operations[n].commits) ELSE Sum[n - 1]
    IN  Sum[Len(operations)]

\* flushCapture(): it drains the batch and waits for it (pass 1), then for
\* the operations queued by then (2), then for the commits made by then (3).
FlushCapture(goal, pending) ==
    /\ tail' = IF pending = <<>> THEN tail ELSE Append(tail, Drain(pending, <<>>))
    /\ batch' = <<>>
    /\ flush' = [goal |-> goal, pass |-> 1, left |-> CommitsIn(tail')]

FlushPass ==
    /\ ~fatal /\ flush # NoFlush /\ flush.left = 0 /\ flush.pass < 3
    /\ flush' = [flush EXCEPT
                     !.pass = @ + 1,
                     !.left = CommitsIn(tail) +
                              (IF flush.pass = 2 THEN Len(batch) ELSE 0)]
    /\ UNCHANGED <<disk, store, capture, buffered, runtime, view, epochs, counts>>

Flushed(goal) == /\ ~fatal /\ flush # NoFlush /\ flush.goal = goal
                 /\ flush.pass = 3 /\ flush.left = 0

\* A rewind takes the runtime back, which publishes what it has now; the
\* daemon flushes the capture before it opens the timeline anew.
Rewind ==
    /\ ~fatal /\ capture = "capturing" /\ flush = NoFlush
    /\ counts.rewinds < MaxRewinds /\ Bump("rewinds")
    /\ \E n \in 0 .. Len(runtime) - 1 :
           /\ runtime' = SubSeq(runtime, 1, n)
           /\ FlushCapture("reopen",
                           Append(batch, Whole("snapshot", runtime')))
    /\ UNCHANGED <<disk, mem, subs, fatal, capture, buffered, view, epochs>>

\* openSession() is given the runtime's content at the call.
Reopen ==
    /\ Flushed("reopen")
    /\ Call(Open(runtime, TRUE))
    /\ flush' = NoFlush
    /\ UNCHANGED <<disk, mem, subs, fatal, capture, buffered, runtime, view,
                   epochs, counts>>

\* retireRuntime() and finishCapture(): unsubscribe, then flush.
Retire(goal) ==
    /\ ~fatal /\ capture = "capturing" /\ flush = NoFlush
    /\ CASE goal = "delete" -> counts.deletes < MaxDeletes /\ Bump("deletes")
         [] goal # "delete" -> UNCHANGED counts
    /\ capture' = "retiring"
    /\ FlushCapture(goal, batch)
    /\ UNCHANGED <<disk, mem, subs, fatal, buffered, runtime, view, epochs>>

Retired(goal) ==
    /\ Flushed(goal)
    /\ capture' = "none" /\ flush' = NoFlush
    /\ CASE goal = "release" -> Call(Release)
         [] goal = "delete"  -> Call(Delete)
         [] goal = "keep"    -> UNCHANGED <<tail, batch>>
    /\ UNCHANGED <<disk, mem, subs, fatal, buffered, runtime, view, epochs, counts>>

RetireGoals == {"release", "keep", "delete"}

\* Is a subscription of f under way?
Asking(f) ==
    \E i \in DOMAIN tail :
        \/ tail[i] = Follow(f)
        \/ tail[i].op = "drain" /\ tail[i].then = <<Follow(f)>>

Subscribe(f) ==
    /\ Idling /\ f \notin subs /\ ~Asking(f)
    /\ counts.subscribes < MaxSubscribes /\ Bump("subscribes")
    /\ Call(Follow(f))
    /\ UNCHANGED <<disk, mem, subs, fatal, daemon, view, epochs>>

\* closeSubscription(): without a capture the state may be released.
Unsubscribe(f) ==
    /\ Idling /\ f \in subs
    /\ subs' = subs \ {f}
    /\ IF capture = "none" THEN Call(Release) ELSE UNCHANGED <<tail, batch>>
    /\ UNCHANGED <<disk, mem, fatal, daemon, view, epochs, counts>>

-----------------------------------------------------------------------------
(* Failures.                                                               *)

\* A write fails: the store refuses every further operation.
WriteFails ==
    /\ ~fatal /\ tail # <<>> /\ counts.crashes < MaxCrashes /\ Bump("crashes")
    /\ Head(tail).op \in {"drain", "open", "delete"}
    /\ disk' \in Leftovers /\ epochs' = epochs + 1
    /\ fatal' = TRUE /\ batch' = <<>>
    /\ UNCHANGED <<mem, subs, tail, daemon, view>>

\* The process ends and a new one starts.
StartsAnew ==
    /\ mem' = NoState /\ subs' = {} /\ batch' = <<>> /\ tail' = <<>>
    /\ fatal' = FALSE /\ capture' = "none" /\ buffered' = <<>>
    /\ runtime' = <<>> /\ flush' = NoFlush
    /\ UNCHANGED view

Crash ==
    /\ ~fatal /\ counts.crashes < MaxCrashes /\ Bump("crashes")
    /\ disk' \in Leftovers /\ epochs' = epochs + 1
    /\ StartsAnew

Restart == fatal /\ StartsAnew /\ UNCHANGED <<disk, epochs, counts>>

-----------------------------------------------------------------------------
Operate == \/ RunDrain \/ DrainFails \/ RunOpen \/ RunSubscribe \/ SubscribeFails
           \/ RunRelease \/ RunDelete

Next ==
    \/ Timer \/ Operate \/ FlushPass
    \/ \E replace \in BOOLEAN : Attach(replace)
    \/ \E kind \in Kinds : Publish(kind)
    \/ Rewind \/ Reopen
    \/ \E goal \in RetireGoals : Retire(goal) \/ Retired(goal)
    \/ \E f \in Followers : Subscribe(f) \/ Unsubscribe(f)
    \/ WriteFails \/ Crash \/ Restart

Spec == Init /\ [][Next]_vars

(***************************************************************************)
(* Fairness: timers fire, operations on files end, awaited promises go on, *)
(* and the service manager starts a connector that gave up.                *)
(***************************************************************************)
FairSpec ==
    /\ Spec /\ WF_vars(Timer) /\ WF_vars(Operate) /\ WF_vars(FlushPass)
    /\ WF_vars(Reopen) /\ WF_vars(\E goal \in RetireGoals : Retired(goal))
    /\ WF_vars(Restart)

-----------------------------------------------------------------------------
(* Properties.                                                             *)

\* Types, and which stages go together.
TypeOK ==
    /\ capture \in {"none", "opening", "capturing", "retiring"}
    /\ subs \subseteq Followers
    /\ subs # {} => mem # NoState
    /\ buffered # <<>> => capture = "opening"
    /\ flush # NoFlush /\ ~fatal =>
           /\ flush.goal \in RetireGoals \cup {"reopen"}
           /\ flush.left \in 0 .. CommitsIn(tail) + Len(batch)
    /\ capture = "retiring" <=> flush # NoFlush /\ flush.goal # "reopen"

\* What the store holds in memory is what a new process would read from the
\* file: content, sequence and the events it can still replay
\* (timeline.test.ts:315, "replays ... into a deeply identical snapshot").
Reloadable ==
    mem # NoState /\ ~fatal => /\ disk # NoFile /\ ~disk.torn
                               /\ Reopened(disk) = mem

\* "persists an event before live delivery" (timeline.test.ts:263): nothing a
\* subscriber has seen is taken back or changed by a crash, a failed write or
\* a torn file.
NeverTakenBack ==
    \A f \in Followers :
        disk # NoFile /\ view[f].epoch = disk.epoch =>
            LET kept == Reopened(disk)
            IN  /\ view[f].seq <= kept.seq
                /\ view[f].seq = kept.seq => view[f].log = kept.log

\* A subscriber that was answered by a sync from whatever cursor and told
\* every event since has the transcript: no gap, no event twice, although
\* events go on being committed while it subscribes (timeline.test.ts:417).
\* It asks for reconciliation only after its history has been replaced, and
\* then it does.
SubscribersCurrent ==
    \A f \in subs :
        \/ view[f] = Reset(mem)
        \/ view[f].reconcile /\ view[f].epoch # mem.epoch

\* The content that operations lead to, and the one the timeline comes to
\* when everything queued is done.
Outcome(log, operations) ==
    LET Done[n \in 0 .. Len(operations)] ==
            IF n = 0 THEN log
            ELSE IF operations[n].op = "open" THEN operations[n].log
            ELSE IF operations[n].op = "drain"
              THEN Replay(Done[n - 1], operations[n].commits) ELSE Done[n - 1]
    IN  Done[Len(operations)]

Destined ==
    Replay(Outcome(IF Current = NoState THEN <<>> ELSE Current.log, tail), batch)

Awaiting == \E i \in DOMAIN tail :
                tail[i].op = "drain" /\ tail[i].then # <<>>
                    /\ tail[i].then[1].op = "open"

\* The timeline retains what its runtime has published: nothing published
\* while it is opened or flushed is lost, nothing is recorded twice.
Complete == capture = "capturing" /\ ~fatal /\ ~Awaiting => Destined = runtime

\* The same as long as no history is replaced under a live runtime
\* (docs/development.md:1455, "retains the complete canonical transcript").
CompleteUnlessReplaced == counts.rewinds = 0 => Complete

\* The file, read as a new process would, is a transcript as promised.
Promise == INSTANCE Transcript WITH
    Nothing <- NoFile,
    kept    <- IF disk = NoFile THEN NoFile ELSE
               [epoch |-> disk.epoch, seq |-> Reopened(disk).seq,
                log |-> Reopened(disk).log],
    drawn   <- epochs
ImplementsTranscript == Promise!Spec

\* Whoever awaits the capture - an attachment, a rewind, a retirement - goes
\* on in the end, although flushing waits for commits only timers drain.
EventuallySettled == flush # NoFlush \/ capture = "opening"
                         ~> flush = NoFlush /\ capture # "opening"
=============================================================================
