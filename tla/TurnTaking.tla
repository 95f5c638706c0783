----------------------------- MODULE TurnTaking -----------------------------
(***************************************************************************)
(* What the server promises of a chat's transcript, without requests,      *)
(* streams, registries or crashes: turns alternate.  A turn begins when    *)
(* none is under way, by cutting the transcript back and asking, and until *)
(* it ends nobody else writes; it ends with its own answer or with none.   *)
(***************************************************************************)
EXTENDS Naturals, Sequences

CONSTANTS Turns, Nobody

VARIABLES turn,      \* the turn under way, or Nobody
          spent,     \* the turns that have begun
          log        \* the transcript: what each message is and who wrote it

Init == turn = Nobody /\ spent = {} /\ log = <<>>

EndsWith(s, role) == s # <<>> /\ s[Len(s)].role = role

\* What is kept of the transcript is a prefix.  A question stands at the end
\* of it, asked by this turn or, to be answered again, by an earlier one; or
\* an answer does, to be continued.
Asks(t) ==
    /\ EndsWith(log', "user")
    /\ \E k \in 0 .. Len(log) :
           /\ SubSeq(log', 1, k) = SubSeq(log, 1, k)
           /\ \/ Len(log') = k
              \/ Len(log') = k + 1 /\ log'[k + 1].by = t

Begin(t) ==
    /\ turn = Nobody /\ t \notin spent
    /\ turn' = t /\ spent' = spent \cup {t}
    /\ Asks(t) \/ (log' = log /\ EndsWith(log, "assistant"))

\* A question gets one answer; an answer being continued is replaced.
Answers(t) ==
    /\ EndsWith(log', "assistant") /\ log'[Len(log')].by = t
    /\ \/ EndsWith(log, "user") /\ log' = Append(log, log'[Len(log')])
       \/ /\ EndsWith(log, "assistant") /\ Len(log') = Len(log)
          /\ log' = [log EXCEPT ![Len(log)].by = t]

End ==
    /\ turn # Nobody /\ turn' = Nobody
    /\ log' = log \/ Answers(turn)
    /\ UNCHANGED spent

Next == End \/ \E t \in Turns : Begin(t)

Spec == Init /\ [][Next]_<<turn, spent, log>>
=============================================================================
