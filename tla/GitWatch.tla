------------------------------ MODULE GitWatch ------------------------------
(***************************************************************************)
(* The Git status of one workspace on its way to the pages that show it:   *)
(* the watch that the listeners of the broker share (apps/web/lib/agents/  *)
(* connector/broker.ts) and the connector's watched workspace with the     *)
(* host process that inspects it (apps/connector/src/workspace-git.ts).    *)
(*                                                                         *)
(* A status is the number of changes to the repository it shows.           *)
(***************************************************************************)
EXTENDS CommandChannel

CONSTANT Watches    \* watch ids

ASSUME WatchesAssumption == Watches \subseteq Nat \ {0}

VARIABLES
    repo,      \* how often the repository has changed
    work,      \* the connector's watched workspace and its host process
    statuses,  \* the newest undelivered status of each watch
    latest,    \* copies of them in requests the connector has given up
    watch      \* the broker's watch

git == <<repo, work, statuses, latest, watch>>

Unknown == -1

\* Revisions begin anew with every workspace that is opened.  `count` tells the
\* numberings apart; no message carries it, and nothing is decided by it.
Unopened(count) ==
    [open |-> FALSE, process |-> FALSE, status |-> Unknown, revision |-> 0,
     reported |-> Unknown, listeners |-> {}, count |-> count]

NoWatch == [id |-> 0, listened |-> FALSE, leaving |-> FALSE, live |-> FALSE,
            status |-> Unknown, revision |-> -1, asked |-> 0, count |-> 0]

GitInit ==
    /\ repo = 0 /\ work = Unopened(0) /\ statuses = {} /\ latest = {}
    /\ watch = NoWatch

-----------------------------------------------------------------------------
(* The connector.                                                          *)

Change == repo' = repo + 1 /\ UNCHANGED <<work, statuses, latest, watch>>

\* The host process reports a status that differs from its last report.
Report ==
    LET revision == work.revision + 1
    IN  /\ work.process /\ work.reported # repo
        /\ work' = [work EXCEPT !.status = repo, !.reported = repo,
                                !.revision = revision]
        /\ statuses' = {s \in statuses : s.for \notin work.listeners} \cup
               {[for |-> w, status |-> repo, revision |-> revision,
                 count |-> work.count] : w \in work.listeners}
        /\ UNCHANGED <<repo, latest, watch>>

\* The process exits, and is started again.
ProcessExits ==
    /\ work.process
    /\ work' = [work EXCEPT !.process = FALSE, !.status = Unknown,
                            !.reported = Unknown]
    /\ UNCHANGED <<repo, statuses, latest, watch>>

ProcessStarts ==
    /\ work.open /\ ~work.process
    /\ work' = [work EXCEPT !.process = TRUE]
    /\ UNCHANGED <<repo, statuses, latest, watch>>

\* Nobody has watched the workspace for the idle grace of 30 seconds: a watch
\* that is awaited arrives sooner.
CloseWorkspace ==
    /\ work.open /\ work.listeners = {}
    /\ \A c \in pending : c.type # "watch"
    /\ work' = Unopened(work.count + 1)
    /\ UNCHANGED <<repo, statuses, latest, watch>>

\* watch(), to the first await: it will inspect the repository itself if no
\* report is known; and unwatch().
StartGit(command) ==
    LET watches == command.type = "watch"
    IN  /\ Start(command, watches)
        /\ work' = IF watches
                   THEN [work EXCEPT !.open = TRUE,
                             !.listeners = @ \cup {command.for}]
                   ELSE [work EXCEPT !.listeners = @ \ {command.for}]
        /\ UNCHANGED <<repo, statuses, latest, watch>>

Stamped(status, revision) ==
    [status |-> status, revision |-> revision, count |-> work.count]

\* A watch is answered with the status that has been reported, or with a
\* direct inspection, begun or kept by the reader some time ago.
AnswerGit(command, ok) ==
    /\ \/ /\ work.status # Unknown
          /\ Answer(command, ok, Stamped(work.status, work.revision))
       \/ /\ work.status = Unknown
          /\ \E status \in 0 .. repo :
                 Answer(command, ok, Stamped(status, 0))
    /\ UNCHANGED git

\* unwatchAll()
BeginWatches ==
    /\ work' = [work EXCEPT !.listeners = {}]
    /\ UNCHANGED <<repo, statuses, latest, watch>>

DieWatches ==
    /\ work' = Unopened(work.count + 1) /\ statuses' = {}
    /\ UNCHANGED <<repo, latest, watch>>

-----------------------------------------------------------------------------
(* The broker.                                                             *)

\* setGitWatchLive()
SetLive(w, live) ==
    IF w.live = live THEN w
    ELSE IF live THEN [w EXCEPT !.live = TRUE]
    ELSE [w EXCEPT !.live = FALSE, !.status = Unknown, !.revision = -1]

Takes(w, s) == [w EXCEPT !.status = s.status, !.revision = s.revision,
                         !.count = s.count]

\* Mistakes: a pushed status is taken whatever its revision; and the answer
\* to a watch is.
PushedAny(w, s) == Takes(w, s)
AnsweredAny(w, s) == SetLive(Takes(w, s), TRUE)

\* accept() of a pushed status, and the answer to a watch.
Pushed(w, s) ==
    IF s.revision <= w.revision THEN w
    ELSE Takes(w, s)

Answered(w, s) ==
    SetLive(IF s.revision < w.revision THEN w ELSE Takes(w, s), TRUE)

PushStatus(s) == watch' = IF s.for = watch.id THEN Pushed(watch, s) ELSE watch

ArriveStatus(s, kept) ==
    /\ s \in statuses /\ statuses' = statuses \ {s}
    /\ latest' = IF kept THEN latest \cup {s} ELSE latest
    /\ PushStatus(s)
    /\ UNCHANGED <<repo, work>>

ArriveStatusLate(s) ==
    /\ s \in latest /\ latest' = latest \ {s} /\ PushStatus(s)
    /\ UNCHANGED <<repo, work, statuses>>

\* The request of this generation, of this watch.
Current(command) == command.for = watch.id /\ command.epoch = watch.asked

AcceptGit ==
    LET answer == Head(journal)
        asked  == Awaited /\ Current(answer.to)
    IN  /\ journal # <<>> /\ answer.to.type = "watch"
        /\ Accept(<<>>)
        /\ watch' = IF ~asked THEN watch
                    ELSE IF answer.ok THEN Answered(watch, answer.data)
                    ELSE SetLive(watch, FALSE)
        /\ UNCHANGED <<repo, work, statuses, latest>>

ExpireGit(command) ==
    /\ command.type = "watch" /\ Expire(command)
    /\ watch' = IF Current(command) THEN SetLive(watch, FALSE) ELSE watch
    /\ UNCHANGED <<repo, work, statuses, latest>>

UnusedWatches == {w \in Watches :
    /\ w # watch.id /\ w \notin work.listeners
    /\ \A s \in statuses \cup latest : s.for # w
    /\ \A c \in Commands : c.type \in {"watch", "unwatch"} => c.for # w}

\* A page opens: watchWorkspaceGit().
Listen ==
    /\ ~watch.listened
    /\ IF watch.id # 0
       THEN /\ watch' = [watch EXCEPT !.listened = TRUE, !.leaving = FALSE]
            /\ UNCHANGED channel
       ELSE \E w \in UnusedWatches :
              /\ \A other \in UnusedWatches : w <= other
              /\ watch' = [NoWatch EXCEPT !.id = w, !.listened = TRUE,
                                          !.asked = link.channel]
              /\ IF Online THEN Ask(Command("watch", w, "")) ELSE UNCHANGED channel
    /\ UNCHANGED <<repo, work, statuses, latest>>

\* The last page closes, and 15 seconds later the watch is given up.
Unlisten ==
    /\ watch.listened
    /\ watch' = [watch EXCEPT !.listened = FALSE, !.leaving = TRUE]
    /\ UNCHANGED <<channel, repo, work, statuses, latest>>

Release ==
    /\ watch.leaving
    /\ watch' = NoWatch
    /\ Tell(Command("unwatch", watch.id, ""))
    /\ UNCHANGED <<repo, work, statuses, latest>>

\* The connection's end and its return.
Rewatches(epoch) ==
    IF watch.id = 0 THEN <<>>
    ELSE <<[type |-> "watch", for |-> watch.id, after |-> "", epoch |-> epoch]>>

RegisterWatch(epoch) ==
    /\ watch' = IF watch.id = 0 THEN watch
                ELSE [SetLive(watch, FALSE) EXCEPT !.asked = epoch]
    /\ UNCHANGED <<repo, work, statuses, latest>>

UnregisterWatch ==
    /\ watch' = [SetLive(watch, FALSE) EXCEPT !.asked = 0]
    /\ UNCHANGED <<repo, work, statuses, latest>>

\* The new server process has no watch; pages that come back listen anew.
ReplacedWatch == watch' = NoWatch /\ UNCHANGED <<repo, work, statuses, latest>>
=============================================================================
