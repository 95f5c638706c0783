------------------------------ MODULE ChatTurn ------------------------------
(***************************************************************************)
(* The turns of one saved chat on the server: the handler of a submitted   *)
(* request (apps/web/lib/chat/run.ts), the transactions that claim and     *)
(* release the chat's active stream (lib/db/chatTurns.ts), the registry of *)
(* running generations, the routes that cancel and resume one, and the     *)
(* lease of a voice connection (lib/db/voiceSessions.ts).                  *)
(*                                                                         *)
(* Stream ids are UUIDs drawn by handlers: the n-th handler draws n.  A    *)
(* voice connection is named by the request of its one turn.               *)
(***************************************************************************)
EXTENDS Naturals, Sequences, FiniteSets, SequencesExt

CONSTANTS
    Texts,       \* client request ids of turns typed in a browser
    Speech,      \* client request ids of turns spoken to a voice connection
    MaxPosts,    \* bound on the requests that reach the server
    None         \* no stream, no message

Requests == Texts \cup Speech
Slots    == 1 .. MaxPosts

\* A question has the id of the request that asked it, an answer that of the
\* stream it came from; both are known by the turn that wrote them last.
Messages == [role : {"user"}, id : Requests, by : Slots]
            \cup [role : {"assistant"}, id : Slots, by : Slots]

ASSUME ChatTurnAssumption ==
    /\ MaxPosts \in Nat
    /\ Texts \cap Speech = {}
    /\ Requests \cap Nat = {}
    /\ None \notin Requests \cup Nat \cup Messages

VARIABLES
    handlers,    \* the handlers of requests; a live one is in the registry
    active,      \* chats.activeStreamId
    gen,         \* the status of each row of chat_generations, or "none"
    newest,      \* the row that was started last
    log,         \* the messages table
    lease        \* the row of voice_sessions, or NoLease

chat  == <<active, gen, newest, log>>
turns == <<handlers, chat, lease>>

Free    == [phase |-> "free"]
NoLease == [holder |-> None, live |-> FALSE]

Registered(i) == handlers[i].phase = "live"
Known(r)      == \E i \in Slots : gen[i] # "none" /\ handlers[i].req = r
Orphan        == active # None /\ ~Registered(active)

User(id, i)      == [role |-> "user", id |-> id, by |-> i]
Assistant(id, i) == [role |-> "assistant", id |-> id, by |-> i]

-----------------------------------------------------------------------------
(* reconstructPersistedMessages(): what a request means to do, from the    *)
(* messages as they are when its handler reads them.                       *)

Plan(cut, ask, extend) == [cut |-> cut, ask |-> ask, extend |-> extend]

Plans(r) ==
    LET Answers  == {n \in DOMAIN log : log[n].role = "assistant"}
        Asked    == DOMAIN log \ Answers
    IN  {Plan(None, r, None)}                                       \* submit
        \cup {Plan(log[n].id, log[n].id, None) : n \in Asked}       \* edit
        \cup {Plan(log[n].id, None, None) :                         \* regenerate
                  n \in {m \in Answers : m > 1 /\ m - 1 \in Asked}}
        \cup {Plan(None, None, log[n]) : n \in Answers \cap {Len(log)}}  \* continue

\* A mistake: that an answer is still the last was checked when it was read.
MovedIfCut(plan) ==
    plan.cut # None /\ \A n \in DOMAIN log : log[n].id # plan.cut

\* The messages or the last answer are no longer what was read.
Moved(plan) ==
    \/ plan.extend # None /\ (log = <<>> \/ Last(log) # plan.extend)
    \/ plan.cut # None /\ \A n \in DOMAIN log : log[n].id # plan.cut

\* What a turn finds when its claim has been committed.
Begun(plan, i) ==
    LET first == CHOOSE n \in DOMAIN log : log[n].id = plan.cut
        kept  == IF plan.cut = None THEN log ELSE SubSeq(log, 1, first - 1)
    IN  IF plan.ask = None THEN kept ELSE Append(kept, User(plan.ask, i))

\* What it leaves with an answer: one message more, or the continued one.
Answered(i) ==
    LET old == handlers[i].plan.extend
    IN  IF old = None THEN Append(log, Assistant(i, i))
        ELSE [n \in DOMAIN log |-> IF log[n].id = old.id
                                   THEN Assistant(old.id, i) ELSE log[n]]

-----------------------------------------------------------------------------
TurnsInit ==
    /\ handlers = [i \in Slots |-> Free]
    /\ active = None
    /\ gen = [i \in Slots |-> "none"]
    /\ newest = None
    /\ log = <<>>
    /\ lease = NoLease

Speaks(r) == lease = [holder |-> r, live |-> TRUE]

\* A request arrives.  A request that is known, or one that finds a turn
\* under way, is answered at once; otherwise the history is read and
\* everything the model needs is fetched, which takes a while.
Receive(i, r, plan) ==
    /\ handlers[i] = Free /\ gen[i] = "none"
    /\ r \in Speech => Speaks(r)
    /\ handlers' = [handlers EXCEPT ![i] =
           [req |-> r, plan |-> plan, abort |-> FALSE,
            phase |-> IF Known(r) \/ active # None THEN "refused" ELSE "setup"]]
    /\ UNCHANGED <<chat, lease>>

\* A mistake: that no turn is under way was checked when the request came.
RefusedUnlessChecked(i) ==
    LET r == handlers[i].req
    IN  \/ Known(r)
        \/ IF r \in Speech THEN ~Speaks(r) ELSE lease.live
        \/ Moved(handlers[i].plan)

\* A mistake: that a request is new was checked when it came.
RefusedIfBusy(i) ==
    LET r == handlers[i].req
    IN  \/ IF r \in Speech THEN ~Speaks(r) ELSE lease.live
        \/ active # None
        \/ Moved(handlers[i].plan)

\* What commitChatTurn() refuses inside its transaction.
Refused(i) ==
    LET r == handlers[i].req
    IN  \/ Known(r)
        \/ IF r \in Speech THEN ~Speaks(r) ELSE lease.live
        \/ active # None
        \/ Moved(handlers[i].plan)

\* The handler registers its controller and claims the chat, in one go.
Claim(i) ==
    /\ handlers[i].phase = "setup" /\ ~Refused(i)
    /\ handlers' = [handlers EXCEPT ![i].phase = "live"]
    /\ active' = i
    /\ gen' = [gen EXCEPT ![i] = "running"]
    /\ newest' = i
    /\ log' = Begun(handlers[i].plan, i)
    /\ UNCHANGED lease

\* The claim is refused, or something before it fails.
Refuse(i) ==
    /\ handlers[i].phase = "setup"
    /\ handlers' = [handlers EXCEPT ![i].phase = "refused"]
    /\ UNCHANGED <<chat, lease>>

\* completeChatStream(): only the turn that holds the chat writes.
Complete(i, status, answer) ==
    IF active # i THEN UNCHANGED chat
    ELSE /\ active' = None /\ UNCHANGED newest
         /\ gen' = [gen EXCEPT ![i] = IF @ = "running" THEN status ELSE @]
         /\ log' = IF answer THEN Answered(i) ELSE log

\* onEnd(): the generation is over, and the answer, whole or in part, saved.
Finish(i, status, answer) ==
    /\ handlers[i].phase = "live"
    /\ status = "aborted" => handlers[i].abort
    /\ status = "complete" => answer
    /\ Complete(i, status, answer)
    /\ handlers' = [handlers EXCEPT ![i].phase = "done"]
    /\ UNCHANGED lease

\* The transaction fails.  The chat is freed if a second attempt to write
\* succeeds, and the row stays "running".
FinishUnsaved(i, freed) ==
    /\ handlers[i].phase = "live"
    /\ active' = IF freed /\ active = i THEN None ELSE active
    /\ handlers' = [handlers EXCEPT ![i].phase = "done"]
    /\ UNCHANGED <<gen, newest, log, lease>>

\* POST .../stream/cancel: whatever turn is under way.
Cancel ==
    /\ active # None
    /\ \/ /\ Registered(active)
          /\ handlers' = [handlers EXCEPT ![active].abort = TRUE]
          /\ UNCHANGED chat
       \/ ~Registered(active) /\ Complete(active, "aborted", FALSE)
              /\ UNCHANGED handlers
    /\ UNCHANGED lease


\* GET .../stream of a turn whose stream cannot be found.
Resume ==
    /\ Orphan
    /\ Complete(active, "error", FALSE)
    /\ UNCHANGED <<handlers, lease>>

Underway(i) == handlers[i].phase \in {"setup", "live"}

\* The server process is replaced.
Crash ==
    /\ handlers' = [i \in Slots |-> IF Underway(i)
                        THEN [handlers[i] EXCEPT !.phase = "lost"]
                        ELSE handlers[i]]
    /\ UNCHANGED <<chat, lease>>

-----------------------------------------------------------------------------
(* Voice connections.                                                      *)

\* A connection is never claimed twice: its id is a fresh UUID.
ClaimVoice(c) ==
    /\ active = None /\ ~lease.live
    /\ lease' = [holder |-> c, live |-> TRUE]
    /\ UNCHANGED <<handlers, chat>>

Expire ==
    /\ lease.live
    /\ lease' = [lease EXCEPT !.live = FALSE]
    /\ UNCHANGED <<handlers, chat>>

\* A mistake: whatever turn runs when the connection ends is stopped.
OwnOrNot(c, i) == c \in Speech /\ gen[i] = "running"

\* The turns a connection's end may stop.
Own(c, i) == gen[i] = "running" /\ handlers[i].req = c

Abort(i) ==
    handlers' = [handlers EXCEPT ![i].abort = @ \/ handlers[i].phase = "live"]

\* endVoiceSession(): sooner or later, also after the lease has expired.
EndVoice(c) ==
    /\ lease.holder = c
    /\ lease' = NoLease
    /\ IF active # None /\ Own(c, active) THEN Abort(active)
       ELSE UNCHANGED handlers
    /\ UNCHANGED chat

\* The user speaks while an answer is being generated: voice/interrupt.
Interrupt(c, i) ==
    /\ Speaks(c)
    /\ active = i /\ Own(c, i) /\ Abort(i)
    /\ UNCHANGED <<chat, lease>>

\* The bridge watches the lease of the turn it forwards.
Unleased(c, i) ==
    /\ c \in Speech /\ ~Speaks(c)
    /\ handlers[i].phase = "live" /\ handlers[i].req = c /\ Abort(i)
    /\ UNCHANGED <<chat, lease>>

-----------------------------------------------------------------------------
Outcomes == {"complete", "aborted", "error"}

TurnsNext ==
    \/ \E i \in Slots :
           \/ \E r \in Requests : \E plan \in Plans(r) : Receive(i, r, plan)
           \/ Claim(i) \/ Refuse(i)
           \/ \E status \in Outcomes, answer \in BOOLEAN :
                  Finish(i, status, answer)
           \/ \E freed \in BOOLEAN : FinishUnsaved(i, freed)
    \/ Cancel \/ Resume \/ Crash
    \/ \E c \in Speech : \/ ClaimVoice(c) \/ EndVoice(c)
                         \/ \E i \in Slots : Interrupt(c, i) \/ Unleased(c, i)
    \/ Expire

TurnsSpec == TurnsInit /\ [][TurnsNext]_turns

-----------------------------------------------------------------------------
(* Properties.                                                             *)

\* Types, and that ids of messages are not used twice.
TurnsOK ==
    /\ active \in Slots \cup {None} /\ newest \in Slots \cup {None}
    /\ gen \in [Slots -> {"none", "running"} \cup Outcomes]
    /\ \A i \in Slots : handlers[i] # Free =>
           /\ handlers[i].phase \in {"setup", "live", "done", "refused", "lost"}
           /\ handlers[i].req \in Requests /\ handlers[i].abort \in BOOLEAN
    /\ lease.holder \in Speech \cup {None} /\ lease.live \in BOOLEAN
    /\ \A m, n \in DOMAIN log : log[m].id = log[n].id => m = n

\* "prevents a concurrent claim and completes the owning stream"
\* (chatTurns.test.ts:471): of all handlers at most one generates, it holds
\* the chat, and its row says so.
SoleGeneration ==
    \A i \in Slots : Registered(i) => active = i /\ gen[i] = "running"

\* "never restarts a completed duplicate submission" (route.test.ts:1406):
\* however often a request is delivered, and whatever the deliveries find
\* while they are being prepared, it has one generation.
OncePerRequest ==
    \A i, j \in Slots : gen[i] # "none" /\ gen[j] # "none"
                            /\ handlers[i].req = handlers[j].req => i = j

\* "Late cleanup may only stop a generation submitted by this voice
\* connection, never its replacement" (voiceSessions.ts:47): what becomes of
\* a lease stops no typed turn and no turn of another connection.
VoiceSparesOthers ==
    [][\A i \in Slots :
          lease' # lease /\ handlers'[i] # handlers[i] =>
              handlers[i].req = lease.holder]_turns

\* A transcript in which turns alternate, as promised.
Promise == INSTANCE TurnTaking WITH
    Turns <- Slots, Nobody <- None,
    turn  <- active,
    spent <- {i \in Slots : gen[i] # "none"}
ImplementsTurnTaking == Promise!Spec
=============================================================================
