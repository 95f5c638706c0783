------------------------------ MODULE LiveViews ------------------------------
(***************************************************************************)
(* What pages show of a host while its connector comes and goes: a session *)
(* (SessionStream) and a workspace's Git status (GitWatch), over the one   *)
(* channel (CommandChannel) that both share: register(), its return value  *)
(* and scheduleDisconnect() of the broker, and the connector's connection, *)
(* concern them together.                                                  *)
(***************************************************************************)
EXTENDS SessionStream, GitWatch

CONSTANT Budgets     \* how often users, hosts, networks and processes act:
                     \* each behaviour has one of these budgets

Happenings == {"view", "commit", "rewind", "cut", "refetch", "displace",
               "listen", "change", "exit", "timeout",
               "again", "fail", "break", "crash", "restart"}

ASSUME BudgetsAssumption == Budgets \subseteq [Happenings -> Nat]

VARIABLE budget      \* what is left of the budget

vars == <<channel, stream, git, budget>>

Init ==
    /\ ChannelInit /\ StreamInit /\ GitInit
    /\ budget \in Budgets

Spend(what) == budget[what] > 0 /\ budget' = [budget EXCEPT ![what] = @ - 1]

Free == UNCHANGED budget

Alone == UNCHANGED channel   \* a step the channel has no part in

-----------------------------------------------------------------------------
(* The connection.                                                         *)

ReadCommand == Read /\ UNCHANGED <<stream, git>> /\ Free

BeginConnection == ReadSync /\ BeginSessions /\ BeginWatches /\ Free

Break == Lose /\ Spend("break") /\ UNCHANGED <<stream, git>>

Crash == Die /\ Spend("crash") /\ DieSessions /\ DieWatches

ServerRestart ==
    /\ Replaced /\ Spend("restart")
    /\ ReplacedSessions /\ ReplacedWatch

Noticed == Unregister /\ UnregisterWatch /\ UNCHANGED stream /\ Free

Disconnected == GraceOver /\ DisconnectSessions /\ UNCHANGED git /\ Free

\* What is set up anew is asked in the turn in which the connector registers;
\* what is given up is told it a turn later.
Registered ==
    LET epoch == link.drawn + 1
        asked == Resubscriptions(epoch) \o Rewatches(epoch)
    IN  /\ Register(asked, Unwanted(epoch))
        /\ RegisterSessions(epoch) /\ RegisterWatch(epoch) /\ Free

-----------------------------------------------------------------------------
(* Sessions.                                                               *)

StartSessions ==
    /\ lanes["session"] # <<>> /\ StartSession(Head(lanes["session"]))
    /\ UNCHANGED git /\ Free

AnswersSession(ok) ==
    \E command \in running : Lane(command) = "session" /\ AnswerSession(command, ok)

AnswerSessions ==
    /\ \/ AnswersSession(TRUE) /\ Free
       \/ AnswersSession(FALSE) /\ Spend("fail")
    /\ UNCHANGED git

AcceptSessions == AcceptSession /\ UNCHANGED git /\ Free

Envelopes ==
    \/ Arrive(FALSE) /\ Free
    \/ Arrive(TRUE) /\ Spend("again")
    \/ ArriveLate /\ Free

Session ==
    \/ StartSessions \/ AnswerSessions \/ AcceptSessions
    \/ /\ \/ Commit /\ Spend("commit")
          \/ Rewind /\ Spend("rewind")
          \/ Displace /\ Spend("displace")
          \/ Envelopes
       /\ Alone /\ UNCHANGED git

Page ==
    /\ \/ View /\ Spend("view")
       \/ Cut /\ Spend("cut")
       \/ Invalidate /\ Spend("refetch")
       \/ (Reopen \/ Connect \/ Consume \/ \E s \in Subs : Leave(s)) /\ Free
    /\ UNCHANGED git

-----------------------------------------------------------------------------
(* Git status.                                                             *)

StartWatches ==
    /\ \E lane \in {"git", "workspace"} :
           lanes[lane] # <<>> /\ StartGit(Head(lanes[lane]))
    /\ UNCHANGED stream /\ Free

AnswersGit(ok) ==
    \E command \in running : Lane(command) = "git" /\ AnswerGit(command, ok)

AnswerWatches ==
    /\ \/ AnswersGit(TRUE) /\ Free
       \/ AnswersGit(FALSE) /\ Spend("fail")
    /\ UNCHANGED stream

AcceptWatches == AcceptGit /\ UNCHANGED stream /\ Free

Reports ==
    /\ \/ Report \/ ProcessStarts
       \/ \E s \in statuses : ArriveStatus(s, FALSE)
    /\ Alone /\ UNCHANGED stream /\ Free

Workspace ==
    \/ StartWatches \/ AnswerWatches \/ AcceptWatches \/ Reports
    \/ /\ \/ Change /\ Spend("change")
          \/ ProcessExits /\ Spend("exit")
          \/ \E s \in statuses : ArriveStatus(s, TRUE) /\ Spend("again")
          \/ \E s \in latest : ArriveStatusLate(s) /\ Free
          \/ CloseWorkspace /\ Free
       /\ Alone /\ UNCHANGED stream
    \/ /\ \/ \E command \in pending : ExpireGit(command) /\ Spend("timeout")
          \/ Listen /\ Spend("listen")
          \/ (Unlisten \/ Release) /\ Free
       /\ UNCHANGED stream

-----------------------------------------------------------------------------
Connection == \/ ReadCommand \/ BeginConnection \/ Break \/ Crash \/ ServerRestart
              \/ Noticed \/ Disconnected \/ Registered

Next == Connection \/ Session \/ Page \/ Workspace

Spec == Init /\ [][Next]_vars

(***************************************************************************)
(* Fairness: the connector reconnects, reads and answers commands, reports *)
(* and events arrive, pages read their streams and reconcile.              *)
(***************************************************************************)
Served == \/ ReadCommand \/ BeginConnection \/ Registered
          \/ StartSessions \/ StartWatches
          \/ AnswersSession(TRUE) /\ UNCHANGED git /\ Free
          \/ AnswersGit(TRUE) /\ UNCHANGED stream /\ Free
Accepted == AcceptSessions \/ AcceptWatches
Delivered == Arrive(FALSE) /\ Alone /\ UNCHANGED git /\ Free
Shown == (Reopen \/ Connect \/ Consume \/ \E s \in Subs : Leave(s))
         /\ UNCHANGED git /\ Free

FairSpec == /\ Spec /\ WF_vars(Served) /\ WF_vars(Accepted)
            /\ WF_vars(Delivered) /\ WF_vars(Shown) /\ WF_vars(Reports)

-----------------------------------------------------------------------------
(* Properties.                                                             *)

\* A page never shows a transcript that is not the connector's own at some
\* moment: every event up to its cursor is in it, once and in order, across
\* reconnections, lost, repeated and late envelopes and refetches
\* (packages/agent-bridge/src/replica.ts, lib/queries/agentSessions.ts).
ReplicaExact ==
    \/ page.replica = NoReplica
    \/ /\ page.replica = Snapshot(page.replica.cursor)
       /\ \/ page.replica.cursor.epoch < timeline.epoch
          \/ /\ page.replica.cursor.epoch = timeline.epoch
             /\ page.replica.cursor.seq <= timeline.seq

\* In the end an open page shows the whole transcript, without being asked.
CatchesUp == <>[](page.mode # "away" => page.replica.cursor = timeline)

\* A subscription the broker has forgotten ends in the connector as well:
\* during the first connection by the unsubscribe sent for it, later at the
\* latest when the next connection begins.
Orphaned(s) == s \in csubs /\ subs[s] = NoSub
Beginning == link.drawn = 1 \/ \E c \in ToSet(wire) : c.type = "sync"

SubscriptionsEnd == \A s \in Subs : (Orphaned(s) /\ Beginning) ~> ~Orphaned(s)

\* A watch that is live shows the repository as it is in the end.  Not so one
\* that holds a revision the host has lost count of: revisions start again with
\* the connector or the workspace, and a watch that was not live yet keeps what
\* a push has brought it (broker.ts:295).
Misled == /\ watch.count # work.count /\ watch.revision >= work.revision
          /\ watch.status # work.status

WatchFresh == watch.live ~> (watch.live => watch.status = repo \/ Misled)

\* And once it shows a status the host has pushed, what it shows never goes
\* back while it stays live, whatever is repeated, late or overtaken
\* (broker.ts:652: a push "is kept and wins if newer").  Two exceptions: a direct
\* inspection, revision 0, gives way to a push even if that is older; and so does
\* what the connector has reported since it died, or since the workspace was
\* closed, when a higher revision from before comes late.
Shows == watch.live /\ watch.revision > 0

StatusForward ==
    [][Shows /\ watch'.live /\ watch'.id = watch.id /\ watch'.count = watch.count
       => watch'.status >= watch.status]_vars
=============================================================================
