------------------------------- MODULE ChatTab -------------------------------
(***************************************************************************)
(* A chat opened in one tab, and the server: the queue of messages typed   *)
(* while a turn runs (packages/shared/src/chat-queue.ts), the coordinator  *)
(* that recovers, admits and cancels generations (chat-generation.ts), the *)
(* chat library's reader as both use it, and the turns of ChatTurn, which  *)
(* other tabs and a voice connection start as well.                        *)
(*                                                                         *)
(* React hands a status to the queue and the coordinator in the step in    *)
(* which it changes: before the next answer from the network arrives.      *)
(***************************************************************************)
EXTENDS ChatTurn

CONSTANTS
    Typed,       \* the messages typed in this tab, in order
    Rivals,      \* the requests of other tabs
    Budgets      \* how often users, networks and processes may interfere:
                 \* each behaviour has one of these budgets

Events == {"stop", "now", "edit", "remove", "recover", "leave", "hide",
           "drop", "fail", "error", "unsaved", "crash", "rival", "twice", "voice"}

\* What the reader reads: the answer to a submission, the one to its request
\* for the running stream, or a stream.
Readings == [at : {"post"}, req : Texts] \cup [at : {"get"}]
            \cup [at : {"stream"}, slot : Slots]

ASSUME ChatTabAssumption ==
    /\ Typed \in Seq(Texts) /\ None \notin Readings
    /\ Rivals \subseteq Texts \ ToSet(Typed)
    /\ IsInjective(Typed)
    /\ Budgets \subseteq [Events -> Nat]

VARIABLES
    tab,         \* queue, coordinator and reader of the tab
    net,         \* its submissions that have not reached the server
    strays,      \* how many cancellations it no longer awaits are on the way
    budget       \* what is left of the budget

vars == <<turns, tab, net, strays, budget>>

NoOp  == [phase |-> "none"]
NoJob == [kind |-> "none"]

Op(phase, msg, explicit) ==
    [phase |-> phase, msg |-> msg, explicit |-> explicit]

\* A job of the coordinator, for the queue or for the user.
Job(kind, own) ==
    [kind |-> kind, own |-> own, pc |-> "ask", seen |-> None,
     resumed |-> FALSE, cancelled |-> None]

Busy(t)    == t.status \in {"submitted", "streaming"}
Has(t, m)  == \E n \in DOMAIN t.msgs : t.msgs[n].id = m

\* filter(): a message is in the queue once.
Without(s, m) ==
    LET At == {n \in DOMAIN s : s[n].id = m}
    IN  IF At = {} THEN s ELSE RemoveAt(s, CHOOSE n \in At : TRUE)

\* save() writes the text into its message.
Saved(s, m) == [n \in DOMAIN s |-> IF s[n].id = m
                                   THEN [s[n] EXCEPT !.ver = @ + 1] ELSE s[n]]

-----------------------------------------------------------------------------
(* The queue, as functions of the tab.                                     *)

\* A mistake: a preparation under way is left alone.
InvalidateUnlessPreparing(t) ==
    IF t.op.phase = "preparing" THEN t
    ELSE [t EXCEPT !.op = NoOp,
                   !.job = IF @ # NoJob /\ @.own THEN NoJob ELSE @]

\* invalidateOperation(): what the operation awaits is aborted with it.
Invalidate(t) ==
    [t EXCEPT !.op = NoOp,
              !.job = IF @ # NoJob /\ @.own THEN NoJob ELSE @]

\* prepare() waits for the job under way.
Rejoin(t) ==
    IF t.op.phase = "preparing" /\ t.job = NoJob
    THEN [t EXCEPT !.job = Job("prepare", TRUE)] ELSE t

\* drain()
Drain(t) ==
    IF /\ t.mounted /\ t.msgs # <<>> /\ ~t.busy /\ t.op = NoOp
       /\ ~t.paused /\ t.editing = None
    THEN Rejoin([t EXCEPT !.op = Op("preparing", Head(t.msgs),
                                    t.immediate = Head(t.msgs).id)])
    ELSE t

Pause(t) == Invalidate([t EXCEPT !.paused = TRUE, !.immediate = None])

\* edit() and remove() begin alike.
Unprepare(t) == IF t.op.phase = "preparing" THEN Invalidate(t) ELSE t

\* The catch of drain() or sendNow().
Broken(t) == [t EXCEPT !.paused = TRUE, !.op = NoOp, !.job = NoJob]

\* The reader comes to a status.  A send() ends with its reader, and the
\* effect of useChatQueue() tells the queue.
Becomes(t, status) ==
    LET over == status \in {"ready", "error"}
        t1 == [t EXCEPT !.status = status, !.busy = ~over,
                        !.on = IF over THEN None ELSE @,
                        !.op = IF over /\ @.phase = "sending" THEN NoOp ELSE @]
    IN  Drain(IF status = "error" THEN Pause(t1) ELSE t1)

\* stopReader(), and stopReader() with apply(), which clears an error.
Stopped(t) == IF Busy(t) THEN Becomes(t, "ready") ELSE t
Settled(t) == IF t.status = "ready" THEN t ELSE Becomes(t, "ready")

\* The rest of drain() once the coordinator has admitted the message.
Send(t) ==
    LET m == t.op.msg.id
    IN  Becomes([t EXCEPT !.msgs = Without(@, m), !.immediate = None,
                          !.op.phase = "sending", !.job = NoJob,
                          !.on = [at |-> "post", req |-> m]], "submitted")

\* The rest of sendNow() once the turn under way has been cancelled.
Promote(t) ==
    LET msg == CHOOSE x \in ToSet(t.msgs) : x.id = t.op.msg.id
    IN  Drain([t EXCEPT !.msgs = <<msg>> \o Without(@, msg.id),
                        !.paused = FALSE, !.immediate = msg.id,
                        !.busy = FALSE, !.op = NoOp, !.job = NoJob])

\* A mistake: what waits for a job is not woken by its end.
EndJobUnseen(t) == [t EXCEPT !.job = NoJob]

EndJob(t) == Rejoin([t EXCEPT !.job = NoJob])

\* The reader is replaced by one that asks for the running stream.
Resumed(t) == Becomes([Settled(t) EXCEPT !.on = [at |-> "get"]], "submitted")

-----------------------------------------------------------------------------
Init ==
    /\ TurnsInit
    /\ tab = [msgs |-> <<>>, paused |-> FALSE, editing |-> None,
              busy |-> FALSE, op |-> NoOp, immediate |-> None,
              status |-> "ready", on |-> None, job |-> NoJob,
              mounted |-> TRUE, typed |-> 0]
    /\ net = {} /\ strays = 0
    /\ budget \in Budgets

Spend(event) == /\ budget[event] > 0
                /\ budget' = [budget EXCEPT ![event] = @ - 1]

Unseen == UNCHANGED <<turns, net, budget>>

\* A cancellation that nobody awaits any more still reaches the server.
Posted(t) == t.job # NoJob /\ t.job.pc = "posted"
Strand    == strays' = strays + IF Posted(tab) /\ ~Posted(tab') THEN 1 ELSE 0

-----------------------------------------------------------------------------
(* The user.                                                               *)

\* enqueue(): into an idle queue a message goes although it is paused.
Enqueue ==
    LET m    == Typed[tab.typed + 1]
        idle == ~tab.busy /\ tab.op = NoOp /\ tab.msgs = <<>>
    IN  /\ tab.mounted /\ tab.typed < Len(Typed)
        /\ tab' = Drain([tab EXCEPT
               !.typed = @ + 1, !.msgs = Append(@, [id |-> m, ver |-> 0]),
               !.paused = @ /\ ~idle, !.immediate = IF idle THEN m ELSE @])
        /\ Strand /\ Unseen

\* handleStop(): the queue pauses, the coordinator drops what it does and
\* cancels.
Stop ==
    /\ tab.mounted /\ Busy(tab) /\ Spend("stop")
    /\ tab' = [Pause(tab) EXCEPT !.job = Job("cancel", FALSE)]
    /\ Strand /\ UNCHANGED <<turns, net>>

SendNow(m) ==
    /\ tab.mounted /\ Has(tab, m) /\ tab.op.phase # "cancelling"
    /\ Spend("now")
    /\ tab' = [Invalidate(tab) EXCEPT
           !.op = Op("cancelling", [id |-> m, ver |-> 0], TRUE),
           !.editing = None, !.job = Job("cancel", TRUE)]
    /\ Strand /\ UNCHANGED <<turns, net>>

Sending(m) == tab.op.phase = "cancelling" /\ tab.op.msg.id = m

Edit(m) ==
    /\ tab.mounted /\ Has(tab, m) /\ ~Sending(m) /\ Spend("edit")
    /\ tab' = [Unprepare(tab) EXCEPT !.editing = m]
    /\ Strand /\ UNCHANGED <<turns, net>>

\* A mistake: an edit that is given up leaves the queue asleep.
CancelEditAsleep ==
    /\ tab.mounted /\ tab.editing # None
    /\ tab' = [tab EXCEPT !.editing = None]
    /\ Strand /\ Unseen

CancelEdit ==
    /\ tab.mounted /\ tab.editing # None
    /\ tab' = Drain([Unprepare(tab) EXCEPT !.editing = None])
    /\ Strand /\ Unseen

Save ==
    /\ tab.mounted /\ tab.editing # None
    /\ tab' = Drain([tab EXCEPT !.editing = None,
                                !.msgs = Saved(tab.msgs, tab.editing)])
    /\ Strand /\ Unseen

RemoveQueued(m) ==
    /\ tab.mounted /\ Has(tab, m) /\ ~Sending(m) /\ Spend("remove")
    /\ tab' = Drain([Unprepare(tab) EXCEPT
           !.msgs = Without(@, m),
           !.editing = IF @ = m THEN None ELSE @])
    /\ Strand /\ UNCHANGED <<turns, net>>

\* The tab becomes visible, the network comes back or the user reconnects.
Reconcile ==
    /\ tab.mounted /\ tab.job = NoJob /\ Spend("recover")
    /\ tab' = [tab EXCEPT !.job = Job("recover", FALSE)]
    /\ UNCHANGED <<turns, net, strays>>

\* The chat is left: its reader is detached, its queue is kept.
Unmount ==
    /\ tab.mounted /\ Spend("leave")
    /\ tab' = [Invalidate(tab) EXCEPT !.job = NoJob, !.status = "ready",
                                      !.on = None, !.mounted = FALSE]
    /\ Strand /\ UNCHANGED <<turns, net>>

\* It is opened again: recovery starts before the queue may drain.
Mount ==
    /\ ~tab.mounted
    /\ tab' = Becomes([tab EXCEPT !.mounted = TRUE,
                                  !.job = Job("recover", FALSE)], "ready")
    /\ UNCHANGED <<turns, net, strays, budget>>

-----------------------------------------------------------------------------
(* The coordinator's polling.                                              *)

Asking == tab.job # NoJob /\ tab.job.pc = "ask"
Told(kind) == tab.job.kind = kind /\ tab.job.pc = "told"

\* GET .../stream/status
State == [exists |-> newest # None, active |-> active, last |-> newest,
          status |-> IF active # None THEN "running"
                     ELSE IF newest # None THEN gen[newest] ELSE "idle"]

ServeStatus ==
    /\ Asking
    /\ tab' = [tab EXCEPT !.job.pc = "told", !.job.seen = State]
    /\ UNCHANGED <<turns, net, strays, budget>>

Over(seen) == seen.active = None /\ tab.status # "submitted"

\* What a preparation does with an answer.
Admitted ==
    /\ Told("prepare") /\ (~tab.job.seen.exists \/ Over(tab.job.seen))
    /\ LET seen == tab.job.seen
           fine == \/ tab.op.explicit
                   \/ seen.exists /\ seen.status \notin {"aborted", "error"}
           t    == IF seen.exists THEN Settled(tab) ELSE tab
       IN  IF fine THEN /\ tab' = Send(t)
                        /\ net' = net \cup {tab.op.msg.id}
           ELSE tab' = Pause(t) /\ UNCHANGED net
    /\ UNCHANGED <<turns, strays, budget>>

\* What a cancellation does with one.
Cancelled ==
    /\ Told("cancel") /\ Over(tab.job.seen)
    /\ LET t == IF tab.job.seen.exists THEN Settled(tab) ELSE Stopped(tab)
       IN  tab' = IF tab.job.own THEN Promote(t) ELSE EndJob(t)
    /\ UNCHANGED <<turns, net, strays, budget>>

ToCancel(job) == job.seen.active # None /\ job.seen.active # job.cancelled

PostCancel ==
    /\ Told("cancel") /\ ToCancel(tab.job)
    /\ tab' = [tab EXCEPT !.job.pc = "posted"]
    /\ UNCHANGED <<turns, net, strays, budget>>

CancelServed ==
    /\ tab.job # NoJob /\ tab.job.pc = "posted"
    /\ IF active = None THEN UNCHANGED turns ELSE Cancel
    /\ tab' = [tab EXCEPT !.job.pc = "ask", !.job.seen = None,
                          !.job.cancelled = tab.job.seen.active]
    /\ UNCHANGED <<net, strays, budget>>

\* What a recovery does with one.
Recovered ==
    /\ Told("recover") /\ tab.job.seen.active = None
    /\ tab' = EndJob(IF tab.job.seen.exists THEN Settled(tab) ELSE tab)
    /\ UNCHANGED <<turns, net, strays, budget>>

\* The reader is resumed once, whatever becomes of its request.
ResumeReader ==
    /\ Told("recover") /\ tab.job.seen.active # None /\ ~tab.job.resumed
    /\ tab' = [Resumed(tab) EXCEPT
                   !.job.resumed = TRUE, !.job.pc = "ask", !.job.seen = None]
    /\ UNCHANGED <<turns, net, strays, budget>>

\* In a tab that is hidden a recovery does not wait for the turn's end.
EndInBackground ==
    /\ Told("recover") /\ tab.job.seen.active # None /\ Spend("hide")
    /\ tab' = EndJob(IF tab.job.resumed THEN tab ELSE Resumed(tab))
    /\ UNCHANGED <<turns, net, strays>>

\* Otherwise they ask again after a while.
AskAgain ==
    /\ \/ /\ Told("prepare") /\ tab.job.seen.exists /\ ~Over(tab.job.seen)
       \/ Told("cancel") /\ ~Over(tab.job.seen) /\ ~ToCancel(tab.job)
       \/ Told("recover") /\ tab.job.seen.active # None /\ tab.job.resumed
    /\ tab' = [tab EXCEPT !.job.pc = "ask", !.job.seen = None]
    /\ UNCHANGED <<turns, net, strays, budget>>

\* A request fails, and with the job what waits for it.
JobFails ==
    /\ tab.job # NoJob /\ Spend("fail")
    /\ tab' = IF tab.job.own \/ tab.op.phase = "preparing" THEN Broken(tab)
              ELSE [tab EXCEPT !.job = NoJob]
    /\ Strand /\ UNCHANGED <<turns, net>>

\* A cancellation has taken 30 seconds and is aborted: a preparation that waits
\* for it goes on.
TimesOut ==
    /\ tab.job.kind = "cancel" /\ Spend("fail")
    /\ tab' = IF tab.job.own THEN Broken(tab) ELSE EndJob(tab)
    /\ Strand /\ UNCHANGED <<turns, net>>

Poll == \/ ServeStatus \/ Admitted \/ Cancelled \/ PostCancel \/ CancelServed
        \/ Recovered \/ ResumeReader \/ AskAgain

-----------------------------------------------------------------------------
(* The reader.                                                             *)

On(at) == tab.on # None /\ tab.on.at = at

Handlers(r) == {i \in Slots : handlers[i] # Free /\ handlers[i].req = r}

\* The response to a submission comes from the handler that got it first.
Opened ==
    /\ On("post") /\ Handlers(tab.on.req) # {}
    /\ LET i == CHOOSE x \in Handlers(tab.on.req) :
                    \A j \in Handlers(tab.on.req) : x <= j
       IN  \/ /\ handlers[i].phase \in {"live", "done"}
              /\ tab' = Becomes([tab EXCEPT !.on = [at |-> "stream", slot |-> i]],
                                "streaming")
           \/ /\ handlers[i].phase \in {"refused", "lost"}
              /\ tab' = Becomes(tab, "error")
    /\ UNCHANGED <<turns, net, strays, budget>>

\* The submission was lost with the server that should have received it.
Unanswered ==
    /\ On("post") /\ Handlers(tab.on.req) = {} /\ tab.on.req \notin net
    /\ tab' = Becomes(tab, "error")
    /\ UNCHANGED <<turns, net, strays, budget>>

Ended ==
    /\ On("stream") /\ ~Registered(tab.on.slot)
    /\ LET i == tab.on.slot
           failed == handlers[i].phase = "lost" \/ gen[i] = "error"
       IN  tab' = Becomes(tab, IF failed THEN "error" ELSE "ready")
    /\ UNCHANGED <<turns, net, strays, budget>>

\* GET .../stream: the stream is attached, or there is none (without Redis,
\* always), and a turn without a process is closed.
Reattached ==
    /\ On("get") /\ active # None /\ Registered(active)
    /\ tab' = Becomes([tab EXCEPT !.on = [at |-> "stream", slot |-> active]],
                      "streaming")
    /\ UNCHANGED <<turns, net, strays, budget>>

NoStream ==
    /\ On("get")
    /\ IF Orphan THEN Resume ELSE UNCHANGED turns
    /\ tab' = Becomes(tab, "ready")
    /\ UNCHANGED <<net, strays, budget>>

\* The connection breaks; a submission may have got through.
Drop ==
    /\ tab.on # None /\ Spend("drop")
    /\ net' \in {net, IF On("post") THEN net \ {tab.on.req} ELSE net}
    /\ tab' = Becomes(tab, "error")
    /\ UNCHANGED <<turns, strays>>

Read == Opened \/ Unanswered \/ Ended \/ Reattached \/ NoStream

-----------------------------------------------------------------------------
(* The server, the other tabs and the voice connection.                    *)

First(i) == handlers[i] = Free /\ \A j \in 1 .. i - 1 : handlers[j] # Free

\* A submission of the tab arrives, perhaps to be delivered again.
Arrive ==
    /\ \E i \in Slots, m \in net :
           /\ First(i) /\ Receive(i, m, Plan(None, m, None))
           /\ \/ net' = net \ {m} /\ UNCHANGED budget
              \/ UNCHANGED net /\ Spend("twice")
    /\ UNCHANGED <<tab, strays>>

RivalPosts ==
    /\ \E i \in Slots, r \in Rivals : \E plan \in Plans(r) :
           First(i) /\ Handlers(r) = {} /\ Receive(i, r, plan)
    /\ Spend("rival")
    /\ UNCHANGED <<tab, net, strays>>

VoicePosts ==
    /\ \E i \in Slots, c \in Speech :
           First(i) /\ Handlers(c) = {} /\ Receive(i, c, Plan(None, c, None))
    /\ UNCHANGED <<tab, net, strays, budget>>

Outside == UNCHANGED <<tab, net, strays>>

Serve ==
    /\ \E i \in Slots :
           \/ Claim(i)
           \/ Refuse(i) /\ Refused(i)
           \/ Finish(i, "complete", TRUE)
           \/ \E answer \in BOOLEAN : Finish(i, "aborted", answer)
    /\ Outside /\ UNCHANGED budget

ServeFails ==
    /\ \E i \in Slots :
           \/ Refuse(i) /\ ~Refused(i)
           \/ \E answer \in BOOLEAN : Finish(i, "error", answer)
    /\ Spend("error") /\ Outside

SaveFails ==
    /\ \E i \in Slots, freed \in BOOLEAN : FinishUnsaved(i, freed)
    /\ Spend("unsaved") /\ Outside

StrayServed ==
    /\ strays > 0 /\ strays' = strays - 1
    /\ IF active = None THEN UNCHANGED turns ELSE Cancel
    /\ UNCHANGED <<tab, net, budget>>

ServerCrash == /\ Crash /\ Spend("crash") /\ net' = {}
               /\ UNCHANGED <<tab, strays>>

Voice ==
    /\ \/ \E c \in Speech :
              \/ ClaimVoice(c) /\ Handlers(c) = {} /\ Spend("voice")
              \/ EndVoice(c) /\ UNCHANGED budget
              \/ \E i \in Slots : Interrupt(c, i) /\ UNCHANGED budget
              \/ \E i \in Slots : Unleased(c, i) /\ UNCHANGED budget
       \/ Expire /\ UNCHANGED budget
    /\ Outside

-----------------------------------------------------------------------------
UserActs ==
    \/ Enqueue \/ Stop \/ CancelEdit \/ Save \/ Reconcile \/ Unmount \/ Mount
    \/ \E m \in ToSet(Typed) : SendNow(m) \/ Edit(m) \/ RemoveQueued(m)

Next == \/ UserActs \/ Poll \/ EndInBackground \/ JobFails \/ TimesOut
        \/ Read \/ Drop
        \/ Arrive \/ RivalPosts \/ VoicePosts \/ Voice
        \/ Serve \/ ServeFails \/ SaveFails \/ StrayServed \/ ServerCrash

Spec == Init /\ [][Next]_vars

(***************************************************************************)
(* Fairness: requests arrive, handlers and models come to an end, answers  *)
(* and streams are read, pollers poll.                                     *)
(***************************************************************************)
FairSpec == /\ Spec /\ WF_vars(Arrive) /\ WF_vars(Serve)
            /\ WF_vars(Poll) /\ WF_vars(Read)

-----------------------------------------------------------------------------
(* Properties.                                                             *)

\* Types, and which of the tab's stages go together.
TypeOK ==
    /\ TurnsOK
    /\ tab.status \in {"ready", "submitted", "streaming", "error"}
    /\ Busy(tab) <=> tab.on # None
    /\ tab.op.phase \in {"none", "preparing", "sending", "cancelling"}
    /\ tab.op.phase = "preparing" => tab.job # NoJob
    /\ tab.op.phase = "cancelling" => tab.job.kind = "cancel" /\ tab.job.own
    /\ tab.op.phase = "sending" => Busy(tab)
    /\ ~tab.mounted => tab.op = NoOp /\ tab.job = NoJob
    /\ \A m, n \in DOMAIN tab.msgs : tab.msgs[m].id = tab.msgs[n].id => m = n

\* "A newer Stop or unmount invalidates pending dispatch"
\* (docs/development.md:768), "Editing a queue item holds automatic dispatch"
\* (766), "Stop and generation errors pause automatic sending" (764): what is
\* submitted is the message shown first, as last saved, while nothing holds
\* the queue; and unless the user asked for it, not after a turn that
\* has failed or was stopped, of those the tab has been told of.  (A recovery
\* during a submission lets it send before it is told of that one.)
SentAsShown ==
    [][\A m \in net' \ net :
          /\ tab.mounted /\ ~tab.paused /\ tab.editing = None
          /\ tab.msgs # <<>> /\ Head(tab.msgs) = tab.op.msg /\ tab.op.msg.id = m
          /\ newest # None /\ newest = tab.job.seen.last
                 /\ gen[newest] \in {"aborted", "error"} => tab.op.explicit]_vars

\* A message that heads the queue is sent in the end, whatever is recovered,
\* cancelled, refused or repeated meanwhile: unless the user or an error
\* holds the queue, or the turn before it died with the server.
Held == tab.paused \/ tab.editing # None \/ ~tab.mounted \/ Orphan

Drains == \A m \in ToSet(Typed) : Has(tab, m) ~> ~Has(tab, m) \/ Held

\* Such a turn is closed by a cancellation (the one of Send now gives way to an
\* error of the reader), or by a recovery that has not resumed its reader yet,
\* also by one that is hidden then: unless the tab is left or another request
\* fails.  (The failure of the resumed reader's is swallowed,
\* chat-generation.ts:159, and nothing but a new recovery asks once more: that
\* one is promised to close the turn again.)
Rescuing == /\ Orphan /\ Asking
            /\ \/ tab.job.kind = "recover" /\ ~tab.job.resumed
               \/ /\ tab.job.kind = "cancel" /\ tab.job.cancelled # active
                  /\ Busy(tab) => ~tab.job.own

Undisturbed == \A trouble \in {"drop", "fail", "leave"} : budget[trouble] = 0

=============================================================================
