----------------------------- MODULE Chat_proofs -----------------------------
(***************************************************************************)
(* Proofs about a chat, for any number of messages, requests, handlers,    *)
(* crashes, cancellations and voice connections: about its turns on the    *)
(* server (ChatTurn), then about the tab that shows it (ChatTab).          *)
(*                                                                         *)
(* The server: the chat's active stream is a lock.  A turn holds it from   *)
(* the claim until it is over, or until somebody finds that it has no      *)
(* process any more; whoever holds it is the only one to generate, and     *)
(* only the holder's end changes the transcript.  What a request planned   *)
(* when it read the history still makes sense when it claims the chat,     *)
(* because an id names one message and what precedes that never changes.   *)
(*                                                                         *)
(* The tab: every operation of the queue leaves operation, job and reader  *)
(* in stages that fit together, so a message is submitted only by its own  *)
(* preparation; and a turn of which a job was told that it is over stays   *)
(* as it was, because only the holder of the lock writes its row.          *)
(***************************************************************************)
EXTENDS ChatTab, Induction, TLAPS, SequenceTheorems

-----------------------------------------------------------------------------
(* The inductive invariant.                                                *)

\* What a request may plan, as far as ids tell.
PlanOK(r, p) ==
    \/ p = Plan(None, r, None)
    \/ \E u \in Requests : p = Plan(u, u, None)
    \/ \E s \in Slots : p = Plan(s, None, None)
    \/ \E m \in Messages : m.role = "assistant" /\ p = Plan(None, None, m)

PlanShapes == [cut : Requests \cup Slots \cup {None}, ask : Requests \cup {None},
               extend : Messages \cup {None}]

Phases == {"setup", "live", "done", "refused", "lost"}

HandlerShapes ==
    [req : Requests, plan : PlanShapes, abort : BOOLEAN, phase : Phases]

TypeInv ==
    /\ handlers \in [Slots -> {Free} \cup HandlerShapes]
    /\ active \in Slots \cup {None}
    /\ gen \in [Slots -> {"none", "running"} \cup Outcomes]
    /\ log \in Seq(Messages)

\* Handlers that have not claimed the chat have no row; the others meant well.
HandlerInv ==
    /\ \A i \in Slots : handlers[i].phase \in {"free", "setup"} => gen[i] = "none"
    /\ \A i \in Slots : handlers[i] # Free =>
           PlanOK(handlers[i].req, handlers[i].plan)
    /\ active # None => gen[active] # "none"

\* Where the ids in the transcript come from.
IdInv ==
    /\ \A m, n \in DOMAIN log : log[m].id = log[n].id => m = n
    /\ \A n \in DOMAIN log : log[n].role = "user" => Known(log[n].id)
    /\ \A n \in DOMAIN log : log[n].role = "assistant" =>
           gen[log[n].id] # "none" /\ log[n].id # active

\* An answer follows a question; a turn under way has one, or an answer to
\* be continued, at the end.
OrderInv ==
    /\ \A n \in DOMAIN log : log[n].role = "assistant" =>
           n > 1 /\ log[n - 1].role = "user"
    /\ active # None =>
           /\ log # <<>>
           /\ LET old == handlers[active].plan.extend
              IN  IF old = None THEN log[Len(log)].role = "user"
                  ELSE /\ log[Len(log)].role = "assistant"
                       /\ log[Len(log)].id = old.id

TInv == TypeInv /\ HandlerInv /\ SoleGeneration /\ OncePerRequest
        /\ IdInv /\ OrderInv

-----------------------------------------------------------------------------
(* Handlers.                                                               *)

\* What no step does to a handler: it keeps its request and its plan once it
\* has a row, and only Claim lets it generate.
Keeps ==
    /\ handlers' \in [Slots -> {Free} \cup HandlerShapes]
    /\ \A i \in Slots :
           /\ Registered(i)' => Registered(i)
           /\ handlers'[i].phase \in {"free", "setup"} => gen[i] = "none"
           /\ handlers'[i] # Free => PlanOK(handlers'[i].req, handlers'[i].plan)
           /\ gen[i] # "none" => /\ handlers'[i].req = handlers[i].req
                                 /\ handlers'[i].plan = handlers[i].plan

\* Handlers are numbered from 1.
LEMMA SlotsNat == Slots \subseteq Nat \ {0}
  BY ChatTurnAssumption DEF Slots

\* No stream, no message and no request is None; handlers are no requests.
LEMMA NoneApart == None \notin Slots /\ None \notin Requests /\ None \notin Messages
                   /\ Slots \cap Requests = {}
  BY ChatTurnAssumption, SlotsNat

\* The phases of a handler that is there.
LEMMA HandlerShape ==
    ASSUME TypeInv, NEW i \in Slots, handlers[i].phase # "free"
    PROVE  handlers[i] \in HandlerShapes /\ handlers[i] # Free
  BY DEF TypeInv, Free

\* A handler that is there is in a phase of its own.
LEMMA NotFree ==
    ASSUME NEW h \in HandlerShapes
    PROVE  h # Free /\ h.phase # "free"
  BY DEF HandlerShapes, Phases, Free

\* A step that leaves the handlers alone.
LEMMA KeptWhenSame ==
    ASSUME TInv, UNCHANGED handlers
    PROVE  Keeps
  BY DEF TInv, TypeInv, HandlerInv, Keeps, Registered

\* A handler that moves on to a phase in which it does not generate.
LEMMA KeptWhenOver ==
    ASSUME TInv, NEW i \in Slots, handlers[i].phase \in {"setup", "live"},
           NEW p \in {"done", "refused"},
           handlers' = [handlers EXCEPT ![i].phase = p]
    PROVE  Keeps /\ ~Registered(i)'
<1>1. handlers[i] \in HandlerShapes /\ handlers[i] # Free
  BY HandlerShape DEF TInv
<1>2. handlers \in [Slots -> {Free} \cup HandlerShapes]
  BY DEF TInv, TypeInv
<1>3. handlers' = [handlers EXCEPT ![i] = [handlers[i] EXCEPT !.phase = p]]
  BY <1>1, <1>2
<1> DEFINE h == [handlers[i] EXCEPT !.phase = p]
<1>4. /\ h \in HandlerShapes /\ h.phase = p
      /\ h.req = handlers[i].req /\ h.plan = handlers[i].plan
  BY <1>1 DEF HandlerShapes, Phases
<1>5. handlers'[i] = h /\ \A j \in Slots \ {i} : handlers'[j] = handlers[j]
  BY <1>2, <1>3
<1>6. handlers' \in [Slots -> {Free} \cup HandlerShapes]
  BY <1>2, <1>3, <1>4
<1> HIDE DEF h
<1> QED
  BY <1>1, <1>4, <1>5, <1>6, NotFree DEF TInv, HandlerInv, Keeps, Registered

\* Aborting a generation changes nothing but the flag.
LEMMA KeptWhenAborted ==
    ASSUME TInv, NEW i \in Slots, handlers[i] # Free, NEW b \in BOOLEAN,
           handlers' = [handlers EXCEPT ![i].abort = b]
    PROVE  Keeps
<1>1. handlers[i] \in HandlerShapes
  BY DEF TInv, TypeInv
<1>2. handlers \in [Slots -> {Free} \cup HandlerShapes]
  BY DEF TInv, TypeInv
<1> DEFINE h == [handlers[i] EXCEPT !.abort = b]
<1>3. handlers' = [handlers EXCEPT ![i] = h]
  BY <1>1, <1>2
<1>4. /\ h \in HandlerShapes /\ h.phase = handlers[i].phase
      /\ h.req = handlers[i].req /\ h.plan = handlers[i].plan
  BY <1>1 DEF HandlerShapes
<1>5. handlers'[i] = h /\ \A j \in Slots \ {i} : handlers'[j] = handlers[j]
  BY <1>2, <1>3
<1>6. handlers' \in [Slots -> {Free} \cup HandlerShapes]
  BY <1>2, <1>3, <1>4
<1> HIDE DEF h
<1> QED
  BY <1>1, <1>4, <1>5, <1>6, NotFree DEF TInv, HandlerInv, Keeps, Registered

\* An arriving request takes a handler that has no row.
LEMMA KeptWhenReceived ==
    ASSUME TInv, NEW i \in Slots, NEW r \in Requests, NEW plan \in Plans(r),
           Receive(i, r, plan)
    PROVE  Keeps
<1>1. plan \in PlanShapes /\ PlanOK(r, plan)
  <2>1. \A n \in DOMAIN log : log[n] \in Messages
    BY DEF TInv, TypeInv
  <2>2. \A n \in DOMAIN log :
            /\ log[n].role \in {"user", "assistant"}
            /\ log[n].role = "user" => log[n].id \in Requests
            /\ log[n].role = "assistant" => log[n].id \in Slots
    BY <2>1 DEF Messages
  <2>3. CASE plan = Plan(None, r, None)
    BY <2>3 DEF Plan, PlanShapes, PlanOK
  <2>4. ASSUME NEW n \in DOMAIN log, log[n].role # "assistant",
               plan = Plan(log[n].id, log[n].id, None)
        PROVE  plan \in PlanShapes /\ PlanOK(r, plan)
    BY <2>2, <2>4 DEF Plan, PlanShapes, PlanOK
  <2>5. ASSUME NEW n \in DOMAIN log, log[n].role = "assistant",
               plan = Plan(log[n].id, None, None)
        PROVE  plan \in PlanShapes /\ PlanOK(r, plan)
    BY <2>2, <2>5 DEF Plan, PlanShapes, PlanOK
  <2>6. ASSUME NEW n \in DOMAIN log, log[n].role = "assistant",
               plan = Plan(None, None, log[n])
        PROVE  plan \in PlanShapes /\ PlanOK(r, plan)
    BY <2>1, <2>6 DEF Plan, PlanShapes, PlanOK
  <2> QED
    BY <2>3, <2>4, <2>5, <2>6 DEF Plans
<1>2. handlers \in [Slots -> {Free} \cup HandlerShapes]
  BY DEF TInv, TypeInv
<1>3. PICK h \in HandlerShapes :
          /\ h.req = r /\ h.plan = plan /\ h.phase \in {"refused", "setup"}
          /\ handlers' = [handlers EXCEPT ![i] = h]
  <2> DEFINE h == [req |-> r, plan |-> plan, abort |-> FALSE,
                   phase |-> IF Known(r) \/ active # None THEN "refused" ELSE "setup"]
  <2>1. h.phase \in {"refused", "setup"}
    OBVIOUS
  <2>2. h \in HandlerShapes
    BY <1>1, <2>1 DEF HandlerShapes, Phases
  <2>3. handlers' = [handlers EXCEPT ![i] = h] /\ h.req = r /\ h.plan = plan
    BY DEF Receive
  <2> QED
    BY <2>1, <2>2, <2>3
<1>4. handlers'[i] = h /\ \A j \in Slots \ {i} : handlers'[j] = handlers[j]
  BY <1>2, <1>3
<1>5. handlers' \in [Slots -> {Free} \cup HandlerShapes]
  BY <1>2, <1>3
<1>6. gen[i] = "none"
  BY DEF Receive
<1> QED
  BY <1>1, <1>3, <1>4, <1>5, <1>6 DEF TInv, HandlerInv, Keeps, Registered

\* With the process, the handlers that were at work are lost.
LEMMA KeptWhenCrashed ==
    ASSUME TInv, Crash
    PROVE  Keeps /\ \A i \in Slots : ~Registered(i)'
<1> DEFINE H(i) == IF Underway(i) THEN [handlers[i] EXCEPT !.phase = "lost"]
                                  ELSE handlers[i]
<1>1. handlers' = [i \in Slots |-> H(i)]
  BY DEF Crash
<1>2. ASSUME NEW i \in Slots
      PROVE  /\ H(i) \in {Free} \cup HandlerShapes
             /\ H(i).phase # "live"
             /\ H(i).phase \in {"free", "setup"} => gen[i] = "none"
             /\ H(i) # Free => PlanOK(H(i).req, H(i).plan)
             /\ gen[i] # "none" => /\ H(i).req = handlers[i].req
                                   /\ H(i).plan = handlers[i].plan
  <2>1. CASE Underway(i)
    <3>1. handlers[i] \in HandlerShapes /\ handlers[i] # Free
      BY <2>1, HandlerShape DEF TInv, Underway
    <3> DEFINE h == [handlers[i] EXCEPT !.phase = "lost"]
    <3>2. /\ h \in HandlerShapes /\ h.phase = "lost"
          /\ h.req = handlers[i].req /\ h.plan = handlers[i].plan
      BY <3>1 DEF HandlerShapes, Phases
    <3>3. H(i) = h
      BY <2>1
    <3> HIDE DEF h, H
    <3> QED
      BY <3>1, <3>2, <3>3 DEF TInv, HandlerInv
  <2>2. CASE ~Underway(i)
    BY <2>2 DEF TInv, TypeInv, HandlerInv, Underway
  <2> QED
    BY <2>1, <2>2
<1>3. \A i \in Slots : handlers'[i] = H(i)
  BY <1>1
<1> HIDE DEF H
<1>4. handlers' \in [Slots -> {Free} \cup HandlerShapes]
  BY <1>1, <1>2
<1> QED
  BY <1>2, <1>3, <1>4 DEF Keeps, Registered

-----------------------------------------------------------------------------
(* The chat.                                                               *)

EndsInQuestion(s) == s # <<>> /\ s[Len(s)].role = "user"

\* A request that is known stays known.
LEMMA StillKnown ==
    ASSUME TInv, Keeps, NEW r, Known(r),
           \A i \in Slots : gen[i] # "none" => gen'[i] # "none"
    PROVE  Known(r)'
  BY DEF Keeps, Known

\* Steps that have nothing to do with the chat keep the invariant.
LEMMA ChatAsItWas ==
    ASSUME TInv, Keeps, UNCHANGED <<active, gen, log>>
    PROVE  TInv'
<1>1. TypeInv'
  BY DEF TInv, TypeInv, Keeps
<1>2. HandlerInv'
  BY DEF TInv, HandlerInv, Keeps
<1>3. SoleGeneration'
  BY DEF TInv, SoleGeneration, Keeps
<1>4. OncePerRequest'
  BY DEF TInv, OncePerRequest, Keeps
<1>5. IdInv'
  BY StillKnown DEF TInv, IdInv
<1>6. OrderInv'
  <2>1. active # None => handlers'[active].plan = handlers[active].plan
    BY DEF TInv, TypeInv, HandlerInv, Keeps
  <2> QED
    BY <2>1 DEF TInv, OrderInv
<1> QED
  BY <1>1, <1>2, <1>3, <1>4, <1>5, <1>6 DEF TInv

\* The two kinds of messages.
LEMMA MessageKinds ==
    ASSUME NEW m \in Messages
    PROVE  \/ m.role = "user" /\ m.id \in Requests
           \/ m.role = "assistant" /\ m.id \in Slots
  BY DEF Messages

\* The transcript is a sequence of messages.
LEMMA LogShape ==
    ASSUME TypeInv
    PROVE  /\ Len(log) \in Nat /\ DOMAIN log = 1 .. Len(log)
           /\ \A n \in DOMAIN log : log[n] \in Messages
           /\ log # <<>> <=> Len(log) > 0
  BY LenProperties, EmptySeq DEF TypeInv

\* What a turn's answer does to the transcript.
AnswerFacts(new) ==
    /\ new \in Seq(Messages) /\ Len(new) > 0 /\ DOMAIN new = 1 .. Len(new)
    /\ new[Len(new)].role = "assistant" /\ new[Len(new)].by = active
    /\ \A m, n \in DOMAIN new : new[m].id = new[n].id => m = n
    /\ \A n \in DOMAIN new : new[n].role = "user" =>
           n \in DOMAIN log /\ new[n] = log[n]
    /\ \A n \in DOMAIN new : new[n].role = "assistant" =>
           gen[new[n].id] # "none" /\ n > 1 /\ new[n - 1].role = "user"
    /\ \/ EndsInQuestion(log) /\ new = Append(log, new[Len(new)])
       \/ /\ log[Len(log)].role = "assistant" /\ Len(log) > 0
          /\ Len(new) = Len(log)
          /\ new = [log EXCEPT ![Len(log)].by = active]

\* It has them: an answer is added at the end, or replaces the continued one.
LEMMA AnswerAdded ==
    ASSUME TInv, active \in Slots
    PROVE  AnswerFacts(Answered(active))
<1> DEFINE new == Answered(active)
           old == handlers[active].plan.extend
           N == Len(log)
<1>1. /\ N \in Nat /\ N > 0 /\ DOMAIN log = 1 .. N
      /\ \A n \in DOMAIN log : log[n] \in Messages
  BY LogShape, NoneApart DEF TInv, OrderInv
<1>2. active # None /\ gen[active] # "none"
  BY NoneApart DEF TInv, HandlerInv
<1>3. CASE old = None
  <2> DEFINE m == Assistant(active, active)
  <2>1. m \in Messages /\ m.role = "assistant" /\ m.id = active /\ m.by = active
    BY DEF Assistant, Messages
  <2>2. new = Append(log, m)
    BY <1>3 DEF Answered
  <2> HIDE DEF m, new
  <2>3. /\ new \in Seq(Messages) /\ Len(new) = N + 1 /\ DOMAIN new = 1 .. N + 1
        /\ new[N + 1] = m /\ \A n \in 1 .. N : new[n] = log[n]
    BY <1>1, <2>1, <2>2, AppendProperties, LenProperties DEF TInv, TypeInv
  <2>4. log[N].role = "user"
    BY <1>2, <1>3 DEF TInv, OrderInv
  <2>5. \A n \in 1 .. N : log[n].id # active
    <3> SUFFICES ASSUME NEW n \in 1 .. N, log[n].id = active PROVE FALSE
      OBVIOUS
    <3>1. log[n].role = "assistant"
      BY <1>1, MessageKinds, NoneApart
    <3> QED
      BY <1>1, <3>1 DEF TInv, IdInv
  <2>6. \A k, n \in 1 .. N + 1 : new[k].id = new[n].id => k = n
    <3> SUFFICES ASSUME NEW k \in 1 .. N + 1, NEW n \in 1 .. N + 1,
                        new[k].id = new[n].id
                 PROVE  k = n
      OBVIOUS
    <3>1. CASE k \in 1 .. N /\ n \in 1 .. N
      BY <1>1, <2>3, <3>1 DEF TInv, IdInv
    <3>2. CASE k = N + 1 \/ n = N + 1
      BY <1>1, <2>1, <2>3, <2>5, <3>2
    <3> QED
      BY <1>1, <3>1, <3>2
  <2>7. ASSUME NEW n \in 1 .. N + 1, new[n].role = "user"
        PROVE  n \in DOMAIN log /\ new[n] = log[n]
    BY <1>1, <2>1, <2>3, <2>7
  <2>8. ASSUME NEW n \in 1 .. N + 1, new[n].role = "assistant"
        PROVE  gen[new[n].id] # "none" /\ n > 1 /\ new[n - 1].role = "user"
    <3>1. CASE n = N + 1
      BY <1>1, <1>2, <2>1, <2>3, <2>4, <3>1
    <3>2. CASE n \in 1 .. N
      <4>1. new[n] = log[n] /\ n \in DOMAIN log
        BY <1>1, <2>3, <3>2
      <4>2. gen[log[n].id] # "none" /\ n > 1 /\ log[n - 1].role = "user"
        BY <2>8, <4>1 DEF TInv, IdInv, OrderInv
      <4>3. n - 1 \in 1 .. N
        BY <1>1, <3>2, <4>2
      <4> QED
        BY <2>3, <4>1, <4>2, <4>3
    <3> QED
      BY <1>1, <3>1, <3>2
  <2>9. EndsInQuestion(log)
    BY <1>1, <2>4, LogShape DEF TInv, EndsInQuestion
  <2>10. new = Append(log, new[Len(new)])
    BY <2>2, <2>3
  <2> HIDE DEF old, N
  <2>11. AnswerFacts(new)
    <3>1. Len(new) = N + 1 /\ Len(new) > 0 /\ DOMAIN new = 1 .. N + 1
      BY <1>1, <2>3
    <3>2. new[Len(new)].role = "assistant" /\ new[Len(new)].by = active
      BY <2>1, <2>3, <3>1
    <3> QED
      BY <2>3, <2>6, <2>7, <2>8, <2>9, <2>10, <3>1, <3>2 DEF AnswerFacts
  <2> QED
    BY <2>11 DEF new
<1>4. CASE old # None
  <2> DEFINE m == Assistant(old.id, active)
             e == [log EXCEPT ![N] = m]
  <2>1. log[N].role = "assistant" /\ log[N].id = old.id /\ log[N] \in Messages
    BY <1>1, <1>2, <1>4 DEF TInv, OrderInv
  <2>2. m \in Messages /\ m.role = "assistant" /\ m.id = old.id /\ m.by = active
    BY <2>1, MessageKinds DEF Assistant, Messages
  <2>3. m = [log[N] EXCEPT !.by = active]
    BY <2>1 DEF Assistant, Messages
  <2>4. \A n \in DOMAIN log : log[n].id = old.id <=> n = N
    BY <1>1, <2>1 DEF TInv, IdInv
  <2>5. new = [n \in DOMAIN log |-> IF n = N THEN m ELSE log[n]]
    BY <1>4, <2>4 DEF Answered
  <2>6. new = e
    BY <2>5, <1>1
  <2>7. new = [log EXCEPT ![N].by = active]
    BY <2>3, <2>6, <1>1
  <2> HIDE DEF m, new
  <2>8. /\ e \in Seq(Messages) /\ Len(e) = N
        /\ \A n \in 1 .. N : e[n] = IF n = N THEN m ELSE log[n]
    BY <1>1, <2>2, ExceptSeq DEF TInv, TypeInv
  <2> HIDE DEF e
  <2>9. DOMAIN new = 1 .. N
    BY <2>6, <2>8, LenProperties
  <2>10. \A n \in 1 .. N : new[n].id = log[n].id /\ new[n].role = log[n].role
    BY <2>1, <2>2, <2>6, <2>8
  <2>11. \A k, n \in 1 .. N : new[k].id = new[n].id => k = n
    BY <1>1, <2>10 DEF TInv, IdInv
  <2>12. ASSUME NEW n \in 1 .. N, new[n].role = "user"
         PROVE  n \in DOMAIN log /\ new[n] = log[n]
    BY <1>1, <2>1, <2>6, <2>8, <2>10, <2>12
  <2>13. ASSUME NEW n \in 1 .. N, new[n].role = "assistant"
         PROVE  gen[new[n].id] # "none" /\ n > 1 /\ new[n - 1].role = "user"
    <3>1. log[n].role = "assistant" /\ n \in DOMAIN log
      BY <1>1, <2>10, <2>13
    <3>2. gen[log[n].id] # "none" /\ n > 1 /\ log[n - 1].role = "user"
      BY <3>1 DEF TInv, IdInv, OrderInv
    <3> QED
      BY <1>1, <2>10, <3>2
  <2>14. new \in Seq(Messages) /\ Len(new) = N /\ new[N] = m
    <3>1. new \in Seq(Messages) /\ Len(new) = N
      BY <2>6, <2>8
    <3>2. N \in 1 .. N
      BY <1>1
    <3> HIDE DEF N
    <3>3. e[N] = IF N = N THEN m ELSE log[N]
      BY <2>8, <3>2, Zenon
    <3>4. e[N] = m
      BY <3>3, Zenon
    <3> QED
      BY <2>6, <3>1, <3>4
  <2>15. new[Len(new)].role = "assistant" /\ new[Len(new)].by = active
    BY <2>2, <2>14
  <2>16. /\ log[Len(log)].role = "assistant" /\ Len(log) > 0
         /\ Len(new) = Len(log) /\ new = [log EXCEPT ![Len(log)].by = active]
    BY <1>1, <2>1, <2>7, <2>14, SMTT(30)
  <2> HIDE DEF old, N
  <2>17. AnswerFacts(new)
    BY <1>1, <2>9, <2>11, <2>12, <2>13, <2>14, <2>15, <2>16, ZenonT(30) DEF AnswerFacts
  <2> QED
    BY <2>17 DEF new
<1> QED
  BY <1>3, <1>4

\* What the end of a turn may leave: the transcript as it was, or with the
\* turn's answer.
EndFacts(new) ==
    /\ new \in Seq(Messages)
    /\ \A m, n \in DOMAIN new : new[m].id = new[n].id => m = n
    /\ \A n \in DOMAIN new : new[n].role = "user" =>
           n \in DOMAIN log /\ new[n] = log[n]
    /\ \A n \in DOMAIN new : new[n].role = "assistant" =>
           gen[new[n].id] # "none" /\ n > 1 /\ new[n - 1].role = "user"

\* They hold of whatever a turn that ends leaves.
LEMMA EndShape ==
    ASSUME TInv, active \in Slots, NEW new \in {log, Answered(active)}
    PROVE  EndFacts(new)
<1>1. EndFacts(log)
  BY DEF TInv, TypeInv, IdInv, OrderInv, EndFacts
<1>2. EndFacts(Answered(active))
  BY AnswerAdded DEF AnswerFacts, EndFacts
<1> QED
  BY <1>1, <1>2

\* The end of the turn that holds the chat, when no handler generates after.
TurnOver ==
    /\ active \in Slots /\ active' = None
    /\ \A j \in Slots : ~Registered(j)'
    /\ gen' \in [Slots -> {"none", "running"} \cup Outcomes]
    /\ \A j \in Slots : gen'[j] = "none" <=> gen[j] = "none"
    /\ log' \in {log, Answered(active)}

\* The end of a turn keeps the invariant,
LEMMA TurnOverKeeps ==
    ASSUME TInv, Keeps, TurnOver
    PROVE  TInv'
<1>1. EndFacts(log')
  BY EndShape DEF TurnOver
<1>2. TypeInv'
  BY <1>1 DEF TInv, TypeInv, Keeps, TurnOver, EndFacts
<1>3. HandlerInv'
  BY DEF TInv, HandlerInv, Keeps, TurnOver
<1>4. SoleGeneration'
  BY DEF SoleGeneration, TurnOver
<1>5. OncePerRequest'
  BY DEF TInv, OncePerRequest, Keeps, TurnOver
<1>6. IdInv'
  <2>1. ASSUME NEW n \in DOMAIN log', log'[n].role = "user"
        PROVE  Known(log[n].id)'
    <3>1. n \in DOMAIN log /\ log'[n] = log[n] /\ log[n].role = "user"
      BY <1>1, <2>1 DEF EndFacts
    <3>2. PICK r : r = log[n].id /\ Known(r)
      BY <3>1 DEF TInv, IdInv
    <3>3. Known(r)'
      BY <3>2, StillKnown DEF TurnOver
    <3> QED
      BY <3>1, <3>2, <3>3 DEF Known
  <2>2. ASSUME NEW n \in DOMAIN log', log'[n].role = "assistant"
        PROVE  gen'[log'[n].id] # "none" /\ log'[n].id # active'
    <3>1. log'[n] \in Messages
      BY <1>1, ElementOfSeq, LenProperties DEF EndFacts
    <3>2. log'[n].id \in Slots
      BY <2>2, <3>1, MessageKinds
    <3>3. gen[log'[n].id] # "none"
      BY <1>1, <2>2 DEF EndFacts
    <3> QED
      BY <3>2, <3>3, NoneApart DEF TurnOver
  <2> QED
    BY <1>1, <2>1, <2>2 DEF IdInv, EndFacts
<1>7. OrderInv'
  BY <1>1 DEF OrderInv, EndFacts, TurnOver
<1> QED
  BY <1>2, <1>3, <1>4, <1>5, <1>6, <1>7 DEF TInv

\* and is an end that TurnTaking allows.
LEMMA TurnOverEnds ==
    ASSUME TInv, TurnOver
    PROVE  Promise!End
<1>1. active # None /\ active' = None
  BY NoneApart DEF TurnOver
<1>2. {i \in Slots : gen'[i] # "none"} = {i \in Slots : gen[i] # "none"}
  BY DEF TurnOver
<1>3. CASE log' = log
  BY <1>1, <1>2, <1>3 DEF Promise!End
<1>4. CASE log' = Answered(active)
  <2>1. AnswerFacts(log')
    BY <1>4, AnswerAdded DEF TurnOver
  <2>2. log' # <<>> /\ log # <<>>
    <3>1. Len(log') > 0
      BY <2>1, ZenonT(30) DEF AnswerFacts
    <3> QED
      BY <1>1, <3>1, SMTT(30) DEF TInv, OrderInv
  <2>3. Promise!Answers(active)
    BY <2>1, <2>2 DEF AnswerFacts, EndsInQuestion, Promise!Answers, Promise!EndsWith
  <2> QED
    BY <1>1, <1>2, <2>3 DEF Promise!End
<1> QED
  BY <1>3, <1>4 DEF TurnOver

-----------------------------------------------------------------------------
(* The claim.                                                              *)

\* A question is found, or put, after the first k messages.
AsksAfter(k, new, i) ==
    /\ k \in 0 .. Len(log) /\ new \in Seq(Messages)
    /\ \A n \in 1 .. k : new[n] = log[n]
    /\ \/ Len(new) = k /\ k > 0 /\ log[k].role = "user"
       \/ /\ Len(new) = k + 1
          /\ new[k + 1].role = "user" /\ new[k + 1].by = i
          /\ new[k + 1].id = handlers[i].req \/ Known(new[k + 1].id)
          /\ \A n \in 1 .. k : log[n].id # new[k + 1].id

\* The first k messages with one more, or without.
LEMMA CutBack ==
    ASSUME NEW s \in Seq(Messages), NEW k \in 0 .. Len(s)
    PROVE  LET kept == SubSeq(s, 1, k)
           IN  /\ kept \in Seq(Messages) /\ Len(kept) = k
               /\ \A n \in 1 .. k : kept[n] = s[n]
<1>1. Len(s) \in Nat /\ \A n \in 1 .. Len(s) : s[n] \in Messages
  BY LenProperties, ElementOfSeq
<1>2. k \in Int /\ 1 \in Int /\ \A n \in 1 .. k : s[n] \in Messages
  BY <1>1
<1> DEFINE kept == SubSeq(s, 1, k)
<1>3. /\ kept \in Seq(Messages) /\ Len(kept) = IF 1 <= k THEN k - 1 + 1 ELSE 0
      /\ \A n \in 1 .. k - 1 + 1 : kept[n] = s[1 + n - 1]
  BY <1>2, SubSeqProperties
<1> HIDE DEF kept
<1>4. Len(kept) = k
  BY <1>1, <1>3
<1>5. \A n \in 1 .. k : kept[n] = s[n]
  BY <1>1, <1>3
<1> QED
  BY <1>3, <1>4, <1>5 DEF kept

\* What a request planned still makes sense when its claim is accepted.
LEMMA PlanSound ==
    ASSUME TInv, NEW i \in Slots, handlers[i].phase = "setup", ~Refused(i)
    PROVE  LET plan == handlers[i].plan
           IN  \/ /\ plan.extend = None
                  /\ \E k \in 0 .. Len(log) : AsksAfter(k, Begun(plan, i), i)
               \/ /\ plan.extend # None /\ Begun(plan, i) = log
                  /\ Len(log) > 0 /\ log[Len(log)] = plan.extend
                  /\ log[Len(log)].role = "assistant"
<1> DEFINE plan == handlers[i].plan
           r == handlers[i].req
           new == Begun(plan, i)
           first == CHOOSE n \in DOMAIN log : log[n].id = plan.cut
<1>1. /\ handlers[i] \in HandlerShapes /\ handlers[i] # Free
      /\ r \in Requests /\ PlanOK(r, plan)
  BY HandlerShape DEF TInv, HandlerInv, HandlerShapes
<1>2. ~Known(r) /\ ~Moved(plan)
  BY DEF Refused
<1>3. /\ log \in Seq(Messages) /\ Len(log) \in Nat /\ DOMAIN log = 1 .. Len(log)
      /\ \A n \in DOMAIN log : log[n] \in Messages
  BY LogShape DEF TInv, TypeInv
<1>4. plan.cut # None => /\ first \in 1 .. Len(log) /\ log[first].id = plan.cut
                         /\ first - 1 \in 0 .. Len(log)
  BY <1>2, <1>3 DEF Moved
<1> HIDE DEF first
<1>5. CASE plan = Plan(None, r, None)
  <2>1. /\ plan.extend = None
        /\ new = Append(log, User(r, i))
    BY <1>1, <1>5, NoneApart DEF Plan, Begun
  <2>2. /\ User(r, i) \in Messages /\ User(r, i).role = "user"
        /\ User(r, i).id = r /\ User(r, i).by = i
    BY <1>1 DEF User, Messages
  <2>3. /\ new \in Seq(Messages) /\ Len(new) = Len(log) + 1
        /\ \A n \in 1 .. Len(log) : new[n] = log[n]
        /\ new[Len(log) + 1] = User(r, i)
    BY <1>3, <2>1, <2>2, AppendProperties
  <2>4. \A n \in 1 .. Len(log) : log[n].id # r
    <3> SUFFICES ASSUME NEW n \in 1 .. Len(log), log[n].id = r PROVE FALSE
      OBVIOUS
    <3>1. log[n].role = "user"
      BY <1>1, <1>3, MessageKinds, NoneApart
    <3> QED
      BY <1>2, <1>3, <3>1 DEF TInv, IdInv
  <2>5. /\ new[Len(log) + 1].role = "user" /\ new[Len(log) + 1].by = i
        /\ new[Len(log) + 1].id = r
    BY <2>2, <2>3
  <2> DEFINE k == Len(log)
  <2>6. k \in Nat /\ k \in 0 .. Len(log)
    BY <1>3
  <2> HIDE DEF new, k
  <2>7. AsksAfter(k, new, i)
    BY <2>3, <2>4, <2>5, <2>6 DEF AsksAfter, k
  <2> QED
    BY <2>1, <2>6, <2>7 DEF new
<1>6. ASSUME NEW u \in Requests, plan = Plan(u, u, None)
      PROVE  plan.extend = None
             /\ \E k \in 0 .. Len(log) : AsksAfter(k, Begun(plan, i), i)
  <2> DEFINE kept == SubSeq(log, 1, first - 1)
             k == first - 1
  <2>1. /\ plan.extend = None /\ plan.cut = u /\ plan.ask = u
        /\ u # None
    BY <1>6, NoneApart DEF Plan
  <2>2. first \in 1 .. Len(log) /\ log[first].id = u /\ k \in 0 .. Len(log)
    BY <1>4, <2>1
  <2>3. new = Append(kept, User(u, i))
    <3>1. new = Append(SubSeq(log, 1, first - 1), User(plan.ask, i))
      BY <2>1, NoneApart DEF Begun, first
    <3> QED
      BY <2>1, <3>1
  <2>4. /\ User(u, i) \in Messages /\ User(u, i).role = "user"
        /\ User(u, i).id = u /\ User(u, i).by = i
    BY DEF User, Messages
  <2>5. /\ kept \in Seq(Messages) /\ Len(kept) = k
        /\ \A n \in 1 .. k : kept[n] = log[n]
    BY <1>3, <2>2, CutBack
  <2> HIDE DEF kept, new
  <2>6. /\ new \in Seq(Messages) /\ Len(new) = k + 1
        /\ \A n \in 1 .. k : new[n] = log[n]
        /\ new[k + 1] = User(u, i)
    BY <2>3, <2>4, <2>5, AppendProperties
  <2>7. Known(u)
    <3>1. log[first].role = "user"
      BY <1>3, <2>2, MessageKinds, NoneApart
    <3> QED
      BY <1>3, <2>2, <3>1 DEF TInv, IdInv
  <2>8. \A n \in 1 .. k : log[n].id # u
    BY <1>3, <2>2 DEF TInv, IdInv
  <2> HIDE DEF k
  <2>9. AsksAfter(k, new, i)
    BY <2>2, <2>4, <2>6, <2>7, <2>8 DEF AsksAfter
  <2> QED
    BY <2>1, <2>2, <2>9 DEF new
<1>7. ASSUME NEW s \in Slots, plan = Plan(s, None, None)
      PROVE  plan.extend = None
             /\ \E k \in 0 .. Len(log) : AsksAfter(k, Begun(plan, i), i)
  <2> DEFINE k == first - 1
  <2>1. /\ plan.extend = None /\ plan.cut = s /\ plan.ask = None
        /\ s # None
    BY <1>7, NoneApart DEF Plan
  <2>2. first \in 1 .. Len(log) /\ log[first].id = s /\ k \in 0 .. Len(log)
    BY <1>4, <2>1
  <2>3. new = SubSeq(log, 1, k)
    BY <2>1 DEF Begun, first
  <2>4. log[first].role = "assistant"
    BY <1>3, <2>2, MessageKinds, NoneApart
  <2>5. k > 0 /\ log[k].role = "user"
    BY <1>3, <2>2, <2>4 DEF TInv, OrderInv
  <2> HIDE DEF k, new
  <2>6. /\ new \in Seq(Messages) /\ Len(new) = k
        /\ \A n \in 1 .. k : new[n] = log[n]
    BY <1>3, <2>2, <2>3, CutBack
  <2>7. AsksAfter(k, new, i)
    BY <2>2, <2>5, <2>6 DEF AsksAfter
  <2> QED
    BY <2>1, <2>2, <2>7 DEF new
<1>8. ASSUME NEW m \in Messages, m.role = "assistant", plan = Plan(None, None, m)
      PROVE  /\ plan.extend # None /\ Begun(plan, i) = log
             /\ Len(log) > 0 /\ log[Len(log)] = plan.extend
             /\ log[Len(log)].role = "assistant"
  <2>1. plan.extend = m /\ plan.cut = None /\ plan.ask = None /\ m # None
    BY <1>8, NoneApart DEF Plan
  <2>2. log # <<>> /\ log[Len(log)] = m
    BY <1>2, <2>1 DEF Moved, Last
  <2>3. Len(log) > 0
    BY <2>2, LogShape DEF TInv
  <2> QED
    BY <1>8, <2>1, <2>2, <2>3 DEF Begun
<1> QED
  BY <1>1, <1>5, <1>6, <1>7, <1>8 DEF PlanOK

\* The transcript a turn begins with.
BegunFacts(new, i) ==
    /\ new \in Seq(Messages) /\ Len(new) > 0
    /\ \A m, n \in DOMAIN new : new[m].id = new[n].id => m = n
    /\ \A n \in DOMAIN new : new[n].role = "user" =>
           new[n].id = handlers[i].req \/ Known(new[n].id)
    /\ \A n \in DOMAIN new : new[n].role = "assistant" =>
           /\ n \in DOMAIN log /\ new[n] = log[n]
           /\ n > 1 /\ new[n - 1].role = "user"
    /\ IF handlers[i].plan.extend = None THEN new[Len(new)].role = "user"
       ELSE /\ new[Len(new)].role = "assistant"
            /\ new[Len(new)].id = handlers[i].plan.extend.id

\* They hold of what a claim that is not refused finds.
LEMMA BegunShape ==
    ASSUME TInv, NEW i \in Slots, handlers[i].phase = "setup", ~Refused(i)
    PROVE  BegunFacts(Begun(handlers[i].plan, i), i)
<1> DEFINE plan == handlers[i].plan
           new == Begun(plan, i)
<1>1. /\ log \in Seq(Messages) /\ Len(log) \in Nat /\ DOMAIN log = 1 .. Len(log)
      /\ \A n \in DOMAIN log : log[n] \in Messages
  BY LogShape DEF TInv, TypeInv
<1>2. ASSUME plan.extend = None, NEW k \in 0 .. Len(log), AsksAfter(k, new, i)
      PROVE  BegunFacts(new, i)
  <2> HIDE DEF new
  <2>1. /\ k \in Nat /\ k <= Len(log) /\ new \in Seq(Messages)
        /\ DOMAIN new = 1 .. Len(new)
        /\ \A n \in 1 .. k : new[n] = log[n]
    BY <1>1, <1>2, LenProperties DEF AsksAfter
  <2>2. CASE Len(new) = k /\ k > 0 /\ log[k].role = "user"
    <3>1. \A m, n \in DOMAIN new : new[m].id = new[n].id => m = n
      BY <1>1, <2>1, <2>2 DEF TInv, IdInv
    <3>2. \A n \in DOMAIN new : new[n].role = "user" => Known(new[n].id)
      BY <1>1, <2>1, <2>2 DEF TInv, IdInv
    <3>3. ASSUME NEW n \in DOMAIN new, new[n].role = "assistant"
          PROVE  n \in DOMAIN log /\ new[n] = log[n] /\ n > 1
                 /\ new[n - 1].role = "user"
      BY <1>1, <2>1, <2>2, <3>3 DEF TInv, OrderInv
    <3>4. Len(new) > 0 /\ new[Len(new)].role = "user"
      BY <2>1, <2>2
    <3> QED
      BY <1>2, <2>1, <3>1, <3>2, <3>3, <3>4 DEF BegunFacts
  <2>3. CASE /\ Len(new) = k + 1 /\ new[k + 1].role = "user"
             /\ new[k + 1].id = handlers[i].req \/ Known(new[k + 1].id)
             /\ \A n \in 1 .. k : log[n].id # new[k + 1].id
    <3>0. \A n \in DOMAIN new : n = k + 1 \/ (n \in 1 .. k /\ n \in DOMAIN log)
      BY <1>1, <2>1, <2>3
    <3>1. \A m, n \in DOMAIN new : new[m].id = new[n].id => m = n
      BY <1>1, <2>1, <2>3, <3>0 DEF TInv, IdInv
    <3>2. ASSUME NEW n \in DOMAIN new, new[n].role = "user"
          PROVE  new[n].id = handlers[i].req \/ Known(new[n].id)
      BY <2>1, <2>3, <3>0, <3>2 DEF TInv, IdInv
    <3>3. ASSUME NEW n \in DOMAIN new, new[n].role = "assistant"
          PROVE  n \in DOMAIN log /\ new[n] = log[n] /\ n > 1
                 /\ new[n - 1].role = "user"
      <4>1. n \in 1 .. k /\ n \in DOMAIN log /\ new[n] = log[n]
        BY <2>1, <2>3, <3>0, <3>3
      <4>2. n > 1 /\ log[n - 1].role = "user"
        BY <3>3, <4>1 DEF TInv, OrderInv
      <4>3. n - 1 \in 1 .. k
        BY <2>1, <4>1, <4>2
      <4> QED
        BY <2>1, <4>1, <4>2, <4>3
    <3>4. Len(new) > 0 /\ new[Len(new)].role = "user"
      BY <2>1, <2>3
    <3> QED
      BY <1>2, <2>1, <3>1, <3>2, <3>3, <3>4 DEF BegunFacts
  <2> QED
    BY <1>2, <2>2, <2>3 DEF AsksAfter
<1>3. ASSUME plan.extend # None, new = log, Len(log) > 0,
             log[Len(log)] = plan.extend, log[Len(log)].role = "assistant"
      PROVE  BegunFacts(new, i)
  <2>1. BegunFacts(log, i)
    BY <1>1, <1>3 DEF TInv, IdInv, OrderInv, BegunFacts
  <2> QED
    BY <1>3, <2>1
<1> QED
  BY <1>2, <1>3, PlanSound

\* The chat passes from nobody to the turn that claims it.
LEMMA ClaimKeeps ==
    ASSUME TInv, NEW i \in Slots, Claim(i)
    PROVE  TInv'
<1> DEFINE h == [handlers[i] EXCEPT !.phase = "live"]
<1>1. /\ handlers[i].phase = "setup" /\ ~Refused(i)
      /\ active' = i /\ log' = Begun(handlers[i].plan, i)
      /\ gen' = [gen EXCEPT ![i] = "running"]
  BY DEF Claim
<1>2. /\ handlers[i] \in HandlerShapes /\ handlers[i] # Free
      /\ PlanOK(handlers[i].req, handlers[i].plan)
  BY <1>1, HandlerShape DEF TInv, HandlerInv
<1>3. /\ handlers \in [Slots -> {Free} \cup HandlerShapes]
      /\ gen \in [Slots -> {"none", "running"} \cup Outcomes]
  BY DEF TInv, TypeInv
<1>4. active = None /\ ~Known(handlers[i].req)
  BY <1>1 DEF Refused
<1>5. gen[i] = "none"
  BY <1>1 DEF TInv, HandlerInv
<1>6. handlers' = [handlers EXCEPT ![i] = h]
  BY <1>2, <1>3 DEF Claim
<1>7. /\ h \in HandlerShapes /\ h.phase = "live"
      /\ h.req = handlers[i].req /\ h.plan = handlers[i].plan
  BY <1>2 DEF HandlerShapes, Phases
<1>8. /\ handlers' \in [Slots -> {Free} \cup HandlerShapes]
      /\ handlers'[i] = h /\ \A j \in Slots \ {i} : handlers'[j] = handlers[j]
  BY <1>3, <1>6, <1>7
<1> HIDE DEF h
<1>9. /\ gen' \in [Slots -> {"none", "running"} \cup Outcomes]
      /\ gen'[i] = "running" /\ \A j \in Slots \ {i} : gen'[j] = gen[j]
  BY <1>1, <1>3
<1>10. BegunFacts(log', i)
  BY <1>1, BegunShape
<1>11. \A j \in Slots : handlers'[j].req = handlers[j].req
  BY <1>7, <1>8
<1>12. \A r : Known(r) \/ r = handlers[i].req => Known(r)'
  BY <1>9, <1>11 DEF Known
<1>13. TypeInv'
  BY <1>1, <1>8, <1>9, <1>10 DEF TypeInv, BegunFacts
<1>14. HandlerInv'
  <2>1. \A j \in Slots : handlers'[j].phase \in {"free", "setup"} => gen'[j] = "none"
    BY <1>7, <1>8, <1>9 DEF TInv, HandlerInv
  <2>2. \A j \in Slots : handlers'[j] # Free =>
            PlanOK(handlers'[j].req, handlers'[j].plan)
    BY <1>2, <1>7, <1>8 DEF TInv, HandlerInv
  <2> QED
    BY <1>1, <1>9, <2>1, <2>2 DEF HandlerInv
<1>15. SoleGeneration'
  BY <1>1, <1>4, <1>8, <1>9, NoneApart DEF TInv, SoleGeneration, Registered
<1>16. OncePerRequest'
  <2>1. \A j \in Slots : gen[j] # "none" => handlers[j].req # handlers[i].req
    BY <1>4 DEF Known
  <2> QED
    BY <1>9, <1>11, <2>1 DEF TInv, OncePerRequest
<1>17. IdInv'
  <2>1. \A n \in DOMAIN log' : log'[n].role = "user" => Known(log[n].id)'
    <3>1. ASSUME NEW n \in DOMAIN log', log'[n].role = "user"
          PROVE  Known(log[n].id)'
      <4>1. PICK r : r = log'[n].id /\ (r = handlers[i].req \/ Known(r))
        BY <1>10, <3>1 DEF BegunFacts
      <4>2. Known(r)'
        BY <1>12, <4>1
      <4> QED
        BY <4>1, <4>2 DEF Known
    <3> QED
      BY <3>1
  <2>2. ASSUME NEW n \in DOMAIN log', log'[n].role = "assistant"
        PROVE  gen'[log'[n].id] # "none" /\ log'[n].id # active'
    <3>1. n \in DOMAIN log /\ log'[n] = log[n] /\ log[n].role = "assistant"
      BY <1>10, <2>2 DEF BegunFacts
    <3>2. log[n].id \in Slots /\ gen[log[n].id] # "none"
      BY <3>1, LogShape, MessageKinds DEF TInv, IdInv
    <3>3. log[n].id # i
      BY <1>5, <3>2
    <3> QED
      BY <1>1, <1>9, <3>1, <3>2, <3>3
  <2> QED
    BY <1>10, <2>1, <2>2 DEF IdInv, BegunFacts
<1>18. OrderInv'
  <2>1. handlers'[active'].plan = handlers[i].plan
    BY <1>1, <1>7, <1>8
  <2>2. log' # <<>>
    BY <1>10 DEF BegunFacts
  <2>3. IF handlers'[active'].plan.extend = None
        THEN log'[Len(log')].role = "user"
        ELSE /\ log'[Len(log')].role = "assistant"
             /\ log'[Len(log')].id = handlers'[active'].plan.extend.id
    BY <1>10, <2>1 DEF BegunFacts
  <2>4. \A n \in DOMAIN log' : log'[n].role = "assistant" =>
            n > 1 /\ log'[n - 1].role = "user"
    BY <1>10 DEF BegunFacts
  <2> QED
    BY <2>2, <2>3, <2>4 DEF OrderInv
<1> QED
  BY <1>13, <1>14, <1>15, <1>16, <1>17, <1>18 DEF TInv

\* A claim is a beginning that TurnTaking allows.
LEMMA ClaimBegins ==
    ASSUME TInv, NEW i \in Slots, Claim(i)
    PROVE  Promise!Begin(i)
<1>1. /\ handlers[i].phase = "setup" /\ ~Refused(i)
      /\ active' = i /\ log' = Begun(handlers[i].plan, i)
      /\ gen' = [gen EXCEPT ![i] = "running"]
  BY DEF Claim
<1>2. active = None /\ gen[i] = "none" /\ gen \in [Slots -> {"none", "running"} \cup Outcomes]
  BY <1>1 DEF Refused, TInv, TypeInv, HandlerInv
<1>3. {j \in Slots : gen'[j] # "none"} = {j \in Slots : gen[j] # "none"} \cup {i}
  BY <1>1, <1>2
<1>4. /\ log \in Seq(Messages) /\ Len(log) \in Nat
  BY LogShape DEF TInv, TypeInv
<1>5. log' \in Seq(Messages) /\ Len(log') \in Nat
  BY <1>1, BegunShape, LenProperties DEF BegunFacts
<1>6. ASSUME NEW k \in 0 .. Len(log), AsksAfter(k, log', i)
      PROVE  Promise!Asks(i)
  <2>1. /\ \A n \in 1 .. k : log'[n] = log[n]
        /\ k \in 0 .. Len(log')
    BY <1>4, <1>5, <1>6 DEF AsksAfter
  <2>2. SubSeq(log', 1, k) = SubSeq(log, 1, k)
    <3> DEFINE s == SubSeq(log, 1, k)
               t == SubSeq(log', 1, k)
    <3>1. /\ s \in Seq(Messages) /\ Len(s) = k
          /\ \A n \in 1 .. k : s[n] = log[n]
      BY <1>4, CutBack
    <3>2. /\ t \in Seq(Messages) /\ Len(t) = k
          /\ \A n \in 1 .. k : t[n] = log'[n]
      BY <1>5, <2>1, CutBack
    <3> HIDE DEF s, t
    <3>3. s = t
      BY <2>1, <3>1, <3>2, SeqEqual
    <3> QED
      BY <3>3 DEF s, t
  <2>3. Len(log') = k \/ (Len(log') = k + 1 /\ log'[k + 1].by = i)
    BY <1>6 DEF AsksAfter
  <2>4. log' # <<>> /\ log'[Len(log')].role = "user"
    <3>1. CASE Len(log') = k /\ k > 0 /\ log[k].role = "user"
      BY <1>4, <2>1, <3>1
    <3>2. CASE Len(log') = k + 1 /\ log'[k + 1].role = "user"
      BY <1>4, <3>2
    <3> QED
      BY <1>6, <3>1, <3>2 DEF AsksAfter
  <2> QED
    BY <2>2, <2>3, <2>4 DEF Promise!Asks, Promise!EndsWith
<1>7. ASSUME log' = log, Len(log) > 0, log[Len(log)].role = "assistant"
      PROVE  log' = log /\ Promise!EndsWith(log, "assistant")
  BY <1>7 DEF Promise!EndsWith
<1>8. Promise!Asks(i) \/ (log' = log /\ Promise!EndsWith(log, "assistant"))
  BY <1>1, <1>6, <1>7, PlanSound
<1> QED
  BY <1>1, <1>2, <1>3, <1>8 DEF Promise!Begin

-----------------------------------------------------------------------------
(* The steps.                                                              *)

Begins(i) == Promise!Begin(i)
Ends == Promise!End

\* What a step is for the transcript of the abstract specification.
TurnStep == Ends \/ (\E i \in Slots : Begins(i))
            \/ UNCHANGED <<active, {i \in Slots : gen[i] # "none"}, log>>

\* A step that leaves the chat alone.
LEMMA StutterStep ==
    ASSUME TInv, Keeps, UNCHANGED chat
    PROVE  TInv' /\ TurnStep
  BY ChatAsItWas DEF chat, TurnStep

\* A step that ends the turn under way.
LEMMA EndStep ==
    ASSUME TInv, Keeps, TurnOver
    PROVE  TInv' /\ TurnStep
  BY TurnOverKeeps, TurnOverEnds DEF TurnStep, Ends

\* The transaction that completes a turn nobody works on after the step.
LEMMA CompleteStep ==
    ASSUME TInv, Keeps, active \in Slots, \A j \in Slots : ~Registered(j)',
           NEW status \in Outcomes, NEW answer \in BOOLEAN,
           Complete(active, status, answer)
    PROVE  TInv' /\ TurnStep
<1>1. gen \in [Slots -> {"none", "running"} \cup Outcomes]
  BY DEF TInv, TypeInv
<1>2. gen' \in [Slots -> {"none", "running"} \cup Outcomes]
  BY <1>1 DEF Complete
<1>3. \A j \in Slots : gen'[j] = "none" <=> gen[j] = "none"
  BY <1>1 DEF Complete, Outcomes
<1>4. active' = None /\ log' \in {log, Answered(active)}
  BY DEF Complete
<1> QED
  BY <1>2, <1>3, <1>4, EndStep DEF TurnOver

\* The flag of a running generation is raised: Abort().
LEMMA AbortStep ==
    ASSUME TInv, NEW i \in Slots, handlers[i].phase # "free", Abort(i),
           UNCHANGED chat
    PROVE  TInv' /\ TurnStep
<1> DEFINE b == handlers[i].abort \/ handlers[i].phase = "live"
<1>1. handlers[i] # Free
  BY HandlerShape DEF TInv
<1>2. handlers' = [handlers EXCEPT ![i].abort = b] /\ b \in BOOLEAN
  BY DEF Abort
<1> QED
  BY <1>1, <1>2, KeptWhenAborted, StutterStep

\* A generation comes to its end: Finish().
LEMMA FinishStep ==
    ASSUME TInv, NEW i \in Slots, NEW status \in Outcomes,
           NEW answer \in BOOLEAN, Finish(i, status, answer)
    PROVE  TInv' /\ TurnStep
<1>1. Keeps /\ ~Registered(i)'
  BY KeptWhenOver DEF Finish
<1>2. active = i
  BY DEF Finish, TInv, SoleGeneration, Registered
<1>3. \A j \in Slots : ~Registered(j)'
  BY <1>1, <1>2 DEF Keeps, TInv, SoleGeneration
<1> QED
  BY <1>1, <1>2, <1>3, CompleteStep DEF Finish

\* It ends and cannot be saved: FinishUnsaved().
LEMMA UnsavedStep ==
    ASSUME TInv, NEW i \in Slots, NEW freed \in BOOLEAN, FinishUnsaved(i, freed)
    PROVE  TInv' /\ TurnStep
<1>1. Keeps /\ ~Registered(i)'
  BY KeptWhenOver DEF FinishUnsaved
<1>2. active = i
  BY DEF FinishUnsaved, TInv, SoleGeneration, Registered
<1>3. \A j \in Slots : ~Registered(j)'
  BY <1>1, <1>2 DEF Keeps, TInv, SoleGeneration
<1>4. CASE freed
  BY <1>1, <1>2, <1>3, <1>4, EndStep DEF FinishUnsaved, TurnOver, TInv, TypeInv
<1>5. CASE ~freed
  BY <1>1, <1>5, StutterStep DEF FinishUnsaved, chat
<1> QED
  BY <1>4, <1>5

\* A cancellation, of a turn with a process or without: Cancel.
LEMMA CancelStep ==
    ASSUME TInv, Cancel
    PROVE  TInv' /\ TurnStep
<1>1. active \in Slots /\ handlers[active].phase # "free"
  BY DEF Cancel, TInv, TypeInv, HandlerInv
<1>2. CASE Registered(active) /\ UNCHANGED chat
           /\ handlers' = [handlers EXCEPT ![active].abort = TRUE]
  <2>1. handlers[active] # Free
    BY <1>1, HandlerShape DEF TInv
  <2> QED
    BY <1>1, <1>2, <2>1, KeptWhenAborted, StutterStep
<1>3. CASE ~Registered(active) /\ Complete(active, "aborted", FALSE)
           /\ UNCHANGED handlers
  <2>1. Keeps
    BY <1>3, KeptWhenSame
  <2>2. \A j \in Slots : ~Registered(j)'
    BY <1>3, <2>1 DEF TInv, SoleGeneration, Keeps
  <2> QED
    BY <1>1, <1>3, <2>1, <2>2, CompleteStep DEF Outcomes
<1> QED
  BY <1>2, <1>3 DEF Cancel

\* A turn without a process is closed: Resume.
LEMMA ResumeStep ==
    ASSUME TInv, Resume
    PROVE  TInv' /\ TurnStep
<1>1. active \in Slots
  BY DEF Resume, Orphan, TInv, TypeInv
<1>2. Keeps
  BY KeptWhenSame DEF Resume
<1>3. \A j \in Slots : ~Registered(j)'
  BY <1>2 DEF Resume, Orphan, TInv, SoleGeneration, Keeps
<1> QED
  BY <1>1, <1>2, <1>3, CompleteStep DEF Resume, Outcomes

\* Whatever happens to a voice connection.
LEMMA VoiceStep ==
    ASSUME TInv, NEW c \in Speech,
           \/ ClaimVoice(c) \/ EndVoice(c)
           \/ \E i \in Slots : Interrupt(c, i) \/ Unleased(c, i)
    PROVE  TInv' /\ TurnStep
<1>1. CASE ClaimVoice(c)
  BY <1>1, KeptWhenSame, StutterStep DEF ClaimVoice
<1>2. CASE EndVoice(c)
  <2>1. CASE active # None /\ Own(c, active)
    <3>1. active \in Slots /\ handlers[active].phase # "free"
      BY <2>1 DEF TInv, TypeInv, HandlerInv
    <3> QED
      BY <1>2, <2>1, <3>1, AbortStep DEF EndVoice
  <2>2. CASE ~(active # None /\ Own(c, active))
    BY <1>2, <2>2, KeptWhenSame, StutterStep DEF EndVoice
  <2> QED
    BY <2>1, <2>2
<1>3. ASSUME NEW i \in Slots, Interrupt(c, i)
      PROVE  TInv' /\ TurnStep
  <2>1. handlers[i].phase # "free"
    BY <1>3 DEF Interrupt, Own, TInv, HandlerInv
  <2> QED
    BY <1>3, <2>1, AbortStep DEF Interrupt
<1>4. ASSUME NEW i \in Slots, Unleased(c, i)
      PROVE  TInv' /\ TurnStep
  BY <1>4, AbortStep DEF Unleased
<1> QED
  BY <1>1, <1>2, <1>3, <1>4

\* Every step keeps the invariant, and begins a turn, ends one, or neither.
LEMMA Step ==
    ASSUME TInv, [TurnsNext]_turns
    PROVE  TInv' /\ TurnStep
<1>1. ASSUME NEW i \in Slots, NEW r \in Requests, NEW plan \in Plans(r),
             Receive(i, r, plan)
      PROVE  TInv' /\ TurnStep
  BY <1>1, KeptWhenReceived, StutterStep DEF Receive
<1>2. ASSUME NEW i \in Slots, Claim(i)
      PROVE  TInv' /\ TurnStep
  BY <1>2, ClaimKeeps, ClaimBegins DEF TurnStep, Begins
<1>3. ASSUME NEW i \in Slots, Refuse(i)
      PROVE  TInv' /\ TurnStep
  BY <1>3, KeptWhenOver, StutterStep DEF Refuse
<1>4. CASE Crash
  BY <1>4, KeptWhenCrashed, StutterStep DEF Crash
<1>5. CASE Expire
  BY <1>5, KeptWhenSame, StutterStep DEF Expire
<1>6. CASE UNCHANGED turns
  BY <1>6, KeptWhenSame, StutterStep DEF turns
<1> QED
  BY <1>1, <1>2, <1>3, <1>4, <1>5, <1>6, FinishStep, UnsavedStep, CancelStep,
     ResumeStep, VoiceStep DEF TurnsNext

\* The invariant holds of an empty chat.
LEMMA TurnsInitInv == TurnsInit => TInv
<1> SUFFICES ASSUME TurnsInit PROVE TInv
  OBVIOUS
<1>1. Len(log) = 0 /\ log \in Seq(Messages) /\ DOMAIN log = {}
  BY DEF TurnsInit
<1>2. TypeInv
  BY <1>1 DEF TurnsInit, TypeInv
<1>3. \A i \in Slots : handlers[i].phase = "free" /\ gen[i] = "none"
  BY DEF TurnsInit, Free
<1>4. HandlerInv
  BY <1>3 DEF TurnsInit, HandlerInv, Free
<1>5. SoleGeneration /\ OncePerRequest /\ IdInv /\ OrderInv
  BY <1>1, <1>3 DEF TurnsInit, SoleGeneration, OncePerRequest, IdInv, OrderInv,
                    Registered
<1> QED
  BY <1>2, <1>4, <1>5 DEF TInv

-----------------------------------------------------------------------------
(* The theorems about turns.                                               *)

\* Whatever requests come, are cancelled, crash or fail to be saved, the
\* inductive invariant holds: the chat's active stream (lib/db/chatTurns.ts)
\* names the one turn that may write, and ids name one message each.
THEOREM TurnsInvariance == TurnsSpec => []TInv
<1>1. TInv /\ [TurnsNext]_turns => TInv'
  BY Step
<1> QED
  BY TurnsInitInv, <1>1, PTL DEF TurnsSpec

\* commitChatTurn() and completeChatStream() exclude one another: at most one
\* handler generates for the chat, it holds the active stream and its row
\* says "running".
THEOREM SoleGenerationHolds == TurnsSpec => []SoleGeneration
<1>1. TInv => SoleGeneration
  BY DEF TInv
<1> QED
  BY TurnsInvariance, <1>1, PTL

\* commitChatTurn() looks for the client request id again when it claims: a
\* request that is delivered any number of times has one generation.
THEOREM OncePerRequestHolds == TurnsSpec => []OncePerRequest
<1>1. TInv => OncePerRequest
  BY DEF TInv
<1> QED
  BY TurnsInvariance, <1>1, PTL

\* endVoiceSession() stops the turn of its own connection or none, and a
\* lease that is claimed or expires stops no turn.
THEOREM VoiceSparesOthersHolds == TurnsSpec => VoiceSparesOthers
<1> DEFINE Spares == \A i \in Slots :
               lease' # lease /\ handlers'[i] # handlers[i] =>
                   handlers[i].req = lease.holder
<1>1. ASSUME TInv, TurnsNext
      PROVE  Spares
  <2> SUFFICES ASSUME lease' # lease, handlers' # handlers, NEW i \in Slots,
                      handlers'[i] # handlers[i]
               PROVE  handlers[i].req = lease.holder
    OBVIOUS
  <2>1. PICK c \in Speech : EndVoice(c)
    BY <1>1 DEF TurnsNext, Receive, Claim, Refuse, Finish, FinishUnsaved,
                Cancel, Resume, Crash, ClaimVoice, Interrupt, Unleased, Expire
  <2>2. Own(c, active) /\ Abort(active) /\ lease.holder = c /\ active \in Slots
    BY <1>1, <2>1 DEF EndVoice, TInv, TypeInv
  <2>3. i = active
    BY <1>1, <2>2 DEF Abort, TInv, TypeInv
  <2> QED
    BY <2>2, <2>3 DEF Own
<1>2. TInv /\ [TurnsNext]_turns => [Spares]_turns
  BY <1>1
<1> QED
  BY TurnsInvariance, <1>2, PTL DEF TurnsSpec, VoiceSparesOthers

\* The server implements the transcript that TurnTaking promises: a turn
\* begins when none is under way, keeps a prefix of the transcript and puts a
\* question after it or continues an answer; until it ends nobody else
\* writes; it ends with one answer of its own or with none.
THEOREM TurnsAlternate == TurnsSpec => ImplementsTurnTaking
<1>1. TurnsInit => Promise!Init
  BY DEF TurnsInit, Promise!Init
<1>2. TurnStep => [Promise!Next]_<<active, {i \in Slots : gen[i] # "none"}, log>>
  BY DEF TurnStep, Begins, Ends, Promise!Next
<1>3. TInv /\ [TurnsNext]_turns =>
          [Promise!Next]_<<active, {i \in Slots : gen[i] # "none"}, log>>
  BY <1>2, Step
<1> QED
  BY TurnsInvariance, <1>1, <1>3, PTL DEF TurnsSpec, ImplementsTurnTaking,
     Promise!Spec

-----------------------------------------------------------------------------
(* The tab: what its fields are, and which of its stages go together.      *)

Queued  == [id : ToSet(Typed), ver : Nat]
Ids     == ToSet(Typed) \cup {None}
Answers == [exists : BOOLEAN, active : Slots \cup {None},
            last : Slots \cup {None},
            status : {"idle", "none", "running"} \cup Outcomes]

OpShapes  == {NoOp} \cup [phase : {"preparing", "sending", "cancelling"},
                          msg : Queued, explicit : BOOLEAN]
JobShapes == {NoJob} \cup [kind : {"prepare", "cancel", "recover"},
                           own : BOOLEAN, pc : {"ask", "told", "posted"},
                           seen : Answers \cup {None}, resumed : BOOLEAN,
                           cancelled : Slots \cup {None}]
OnShapes  == {None} \cup [at : {"post"}, req : ToSet(Typed)]
             \cup [at : {"get"}] \cup [at : {"stream"}, slot : Slots]
Statuses  == {"ready", "submitted", "streaming", "error"}

TabShapes ==
    [msgs : Seq(Queued), paused : BOOLEAN, editing : Ids, busy : BOOLEAN,
     op : OpShapes, immediate : Ids, status : Statuses, on : OnShapes,
     job : JobShapes, mounted : BOOLEAN, typed : Nat]

\* The queue holds messages that were typed, each of them once.
QueueInv(s, typed) ==
    /\ s \in Seq(Queued)
    /\ typed <= Len(Typed)
    /\ \A n \in DOMAIN s : \E k \in 1 .. typed : s[n].id = Typed[k]
    /\ \A m, n \in DOMAIN s : s[m].id = s[n].id => m = n

\* What prepares a message shows it first and is held by nothing.
PreparingInv(t) ==
    t.op.phase = "preparing" =>
        /\ t.mounted /\ ~t.paused /\ t.editing = None
        /\ t.msgs # <<>> /\ t.msgs[1] = t.op.msg

\* Which job is whose.
JobInv(t) ==
    /\ t.op.phase = "cancelling" =>
           t.job.kind = "cancel" /\ t.job.own /\ Has(t, t.op.msg.id)
    /\ t.job # NoJob /\ t.job.kind = "prepare" =>
           t.job.own /\ t.op.phase = "preparing"
    /\ t.job # NoJob /\ t.job.kind = "recover" => ~t.job.own
    /\ t.job # NoJob /\ t.job.own => t.op.phase \in {"preparing", "cancelling"}
    /\ t.job # NoJob /\ t.job.own /\ t.job.kind = "cancel" =>
           t.op.phase = "cancelling"
    /\ t.job # NoJob /\ t.job.pc # "ask" => t.job.seen \in Answers
    /\ ~t.mounted => t.op = NoOp /\ t.job = NoJob

Joined(t) == t.op.phase = "preparing" => t.job # NoJob

\* What a send() awaits.
ReaderInv(t) ==
    /\ Busy(t) <=> t.on # None
    /\ t.op.phase = "sending" => Busy(t)

Loose(t)  == t \in TabShapes /\ QueueInv(t.msgs, t.typed) /\ PreparingInv(t) /\ JobInv(t)
Staged(t) == Loose(t) /\ Joined(t)
TabInv(t) == Staged(t) /\ ReaderInv(t)
Torn(t)   == /\ t \in TabShapes /\ QueueInv(t.msgs, t.typed) /\ JobInv(t)
             /\ ReaderInv(t)

-----------------------------------------------------------------------------
(* Sequences of queued messages.                                           *)

LEMMA TypedOK ==
    /\ Typed \in Seq(Texts) /\ ToSet(Typed) \subseteq Texts
    /\ \A k \in 1 .. Len(Typed) : Typed[k] \in ToSet(Typed)
    /\ \A j, k \in 1 .. Len(Typed) : Typed[j] = Typed[k] => j = k
  BY ChatTabAssumption DEF ToSet, IsInjective

\* No message is None.
LEMMA NoneTyped == None \notin ToSet(Typed)
  BY TypedOK, NoneApart DEF Requests

\* A message is taken out of the queue: the others stay, in order.
LEMMA WithoutQueue ==
    ASSUME NEW s, NEW typed \in Nat, QueueInv(s, typed), NEW m
    PROVE  /\ QueueInv(Without(s, m), typed)
           /\ \A n \in DOMAIN Without(s, m) : Without(s, m)[n].id # m
           /\ \A n \in DOMAIN s : s[n].id # m =>
                  \E k \in DOMAIN Without(s, m) : Without(s, m)[k].id = s[n].id
<1> DEFINE At == {n \in DOMAIN s : s[n].id = m}
<1>1. CASE At = {}
  <2>1. Without(s, m) = s
    BY <1>1 DEF Without
  <2> QED
    BY <1>1, <2>1
<1>2. CASE At # {}
  <2>1. PICK a \in At : Without(s, m) = RemoveAt(s, a)
    BY <1>2 DEF Without
  <2>2. /\ s \in Seq(Queued) /\ Len(s) \in Nat /\ a \in 1 .. Len(s) /\ s[a].id = m
        /\ DOMAIN s = 1 .. Len(s)
    BY DEF QueueInv
  <2> DEFINE r == RemoveAt(s, a)
  <2>3. /\ r \in Seq(Queued) /\ Len(r) = Len(s) - 1
        /\ \A n \in 1 .. Len(s) - 1 : r[n] = IF n < a THEN s[n] ELSE s[n + 1]
    <3> DEFINE b == SubSeq(s, 1, a - 1)
               c == SubSeq(s, a + 1, Len(s))
    <3>1. /\ b \in Seq(Queued) /\ Len(b) = a - 1
          /\ \A n \in 1 .. a - 1 : b[n] = s[n]
      BY <2>2
    <3>2. /\ c \in Seq(Queued) /\ Len(c) = Len(s) - a
          /\ \A n \in 1 .. Len(s) - a : c[n] = s[n + a]
      BY <2>2
    <3>3. r = b \o c
      BY DEF RemoveAt
    <3> HIDE DEF b, c, r
    <3>4. r \in Seq(Queued) /\ Len(r) = Len(s) - 1
      <4>1. r \in Seq(Queued) /\ Len(r) = Len(b) + Len(c)
        BY <3>1, <3>2, <3>3, ConcatProperties
      <4> QED
        BY <2>2, <3>1, <3>2, <4>1
    <3>5. ASSUME NEW n \in 1 .. Len(s) - 1
          PROVE  r[n] = IF n < a THEN s[n] ELSE s[n + 1]
      <4>1. CASE n < a
        BY <2>2, <3>1, <3>2, <3>3, <4>1
      <4>2. CASE ~(n < a)
        <5>1. r[n] = c[n - Len(b)] /\ n - Len(b) = n - a + 1
          BY <2>2, <3>1, <3>2, <3>3, <4>2
        <5>2. n - a + 1 \in 1 .. Len(s) - a /\ n - a + 1 + a = n + 1
          BY <2>2, <4>2
        <5> QED
          BY <3>2, <4>2, <5>1, <5>2
      <4> QED
        BY <4>1, <4>2
    <3> QED
      BY <3>4, <3>5
  <2>4. DOMAIN r = 1 .. Len(s) - 1
    BY <2>3
  <2> DEFINE from(n) == IF n < a THEN n ELSE n + 1
  <2>5. \A n \in DOMAIN r : from(n) \in DOMAIN s /\ from(n) # a /\ r[n] = s[from(n)]
    BY <2>2, <2>3, <2>4
  <2>6. \A n, k \in DOMAIN r : from(n) = from(k) => n = k
    BY <2>2, <2>4
  <2>9. \A n \in DOMAIN s : n # a => \E k \in DOMAIN r : from(k) = n
    <3> SUFFICES ASSUME NEW n \in DOMAIN s, n # a
                 PROVE  \E k \in DOMAIN r : from(k) = n
      OBVIOUS
    <3>1. CASE n < a
      BY <2>2, <2>4, <3>1
    <3>2. CASE n > a
      <4>1. n - 1 \in DOMAIN r /\ from(n - 1) = n
        BY <2>2, <2>4, <3>2
      <4> QED
        BY <4>1
    <3> QED
      BY <2>2, <3>1, <3>2
  <2> HIDE DEF r, from
  <2>7. QueueInv(r, typed)
    BY <2>3, <2>5, <2>6 DEF QueueInv
  <2>8. \A n \in DOMAIN r : r[n].id # m
    BY <2>2, <2>5 DEF QueueInv
  <2>10. \A n \in DOMAIN s : s[n].id # m => \E k \in DOMAIN r : r[k].id = s[n].id
    <3> SUFFICES ASSUME NEW n \in DOMAIN s, s[n].id # m
                 PROVE  \E k \in DOMAIN r : r[k].id = s[n].id
      OBVIOUS
    <3>1. PICK k \in DOMAIN r : from(k) = n
      BY <2>2, <2>9
    <3> QED
      BY <2>5, <3>1
  <2> QED
    BY <2>1, <2>7, <2>8, <2>10 DEF r
<1> QED
  BY <1>1, <1>2

\* A message that is typed goes to the end.
LEMMA AppendQueue ==
    ASSUME NEW s, NEW typed \in Nat, QueueInv(s, typed), typed < Len(Typed)
    PROVE  LET x == [id |-> Typed[typed + 1], ver |-> 0]
               r == Append(s, x)
           IN  /\ QueueInv(r, typed + 1) /\ x \in Queued
               /\ s # <<>> => r # <<>> /\ r[1] = s[1]
               /\ \A n \in DOMAIN s : n \in DOMAIN r /\ r[n] = s[n]
<1> DEFINE x == [id |-> Typed[typed + 1], ver |-> 0]
           r == Append(s, x)
<1>1. /\ s \in Seq(Queued) /\ Len(s) \in Nat /\ DOMAIN s = 1 .. Len(s)
      /\ typed + 1 \in 1 .. Len(Typed) /\ Len(Typed) \in Nat
  BY TypedOK DEF QueueInv
<1>2. x \in Queued /\ x.id = Typed[typed + 1]
  BY <1>1, TypedOK DEF Queued
<1> HIDE DEF x
<1>3. /\ r \in Seq(Queued) /\ Len(r) = Len(s) + 1 /\ r[Len(s) + 1] = x
      /\ \A n \in 1 .. Len(s) : r[n] = s[n]
  BY <1>1, <1>2
<1>4. DOMAIN r = 1 .. Len(s) + 1
  BY <1>3
<1> HIDE DEF r
<1>5. \A n \in DOMAIN s : \E k \in 1 .. typed : s[n].id = Typed[k]
  BY DEF QueueInv
<1>6. \A n \in DOMAIN s : s[n].id # x.id
  BY <1>1, <1>2, <1>5, TypedOK
<1>7. \A n \in DOMAIN r : \E k \in 1 .. typed + 1 : r[n].id = Typed[k]
  <2> SUFFICES ASSUME NEW n \in DOMAIN r
               PROVE  \E k \in 1 .. typed + 1 : r[n].id = Typed[k]
    OBVIOUS
  <2>1. CASE n \in DOMAIN s
    BY <1>1, <1>3, <1>5, <2>1
  <2>2. CASE n = Len(s) + 1
    BY <1>2, <1>3, <2>2
  <2> QED
    BY <1>1, <1>4, <2>1, <2>2
<1>8. \A m, n \in DOMAIN r : r[m].id = r[n].id => m = n
  BY <1>1, <1>3, <1>4, <1>6 DEF QueueInv
<1>9. QueueInv(r, typed + 1)
  BY <1>1, <1>3, <1>7, <1>8 DEF QueueInv
<1>10. s # <<>> => r # <<>> /\ r[1] = s[1]
  BY <1>1, <1>3
<1>11. \A n \in DOMAIN s : n \in DOMAIN r /\ r[n] = s[n]
  BY <1>1, <1>3, <1>4
<1> QED
  BY <1>2, <1>9, <1>10, <1>11 DEF r, x

\* A message is put first.
LEMMA FirstQueue ==
    ASSUME NEW s, NEW typed \in Nat, QueueInv(s, typed), NEW a \in DOMAIN s
    PROVE  QueueInv(<<s[a]>> \o Without(s, s[a].id), typed)
<1> DEFINE w == Without(s, s[a].id)
           r == <<s[a]>> \o w
<1>1. QueueInv(w, typed) /\ \A n \in DOMAIN w : w[n].id # s[a].id
  BY WithoutQueue
<1> HIDE DEF w
<1>2. /\ w \in Seq(Queued) /\ Len(w) \in Nat /\ DOMAIN w = 1 .. Len(w)
      /\ s[a] \in Queued
  BY <1>1 DEF QueueInv
<1>3. /\ r \in Seq(Queued) /\ Len(r) = Len(w) + 1 /\ r[1] = s[a]
      /\ \A n \in 2 .. Len(w) + 1 : r[n] = w[n - 1]
  BY <1>2
<1>4. DOMAIN r = 1 .. Len(w) + 1
  BY <1>3
<1> HIDE DEF r
<1>5. \A n \in DOMAIN r : n = 1 \/ (n - 1 \in DOMAIN w /\ r[n] = w[n - 1] /\ n \in Nat)
  BY <1>2, <1>3, <1>4
<1>6. \A n \in DOMAIN r : \E k \in 1 .. typed : r[n].id = Typed[k]
  BY <1>1, <1>3, <1>5 DEF QueueInv
<1>7. \A m, n \in DOMAIN r : r[m].id = r[n].id => m = n
  <2> SUFFICES ASSUME NEW m \in DOMAIN r, NEW n \in DOMAIN r, r[m].id = r[n].id
               PROVE  m = n
    OBVIOUS
  <2>1. CASE m = 1 \/ n = 1
    BY <1>1, <1>3, <1>5, <2>1
  <2>2. CASE m # 1 /\ n # 1
    <3>1. m - 1 = n - 1
      BY <1>1, <1>5, <2>2 DEF QueueInv
    <3> QED
      BY <1>5, <2>2, <3>1
  <2> QED
    BY <2>1, <2>2
<1> QED
  BY <1>1, <1>3, <1>6, <1>7 DEF QueueInv, r, w

\* A message is edited in its place.
LEMMA SavedQueue ==
    ASSUME NEW s, NEW typed \in Nat, QueueInv(s, typed), NEW m
    PROVE  /\ QueueInv(Saved(s, m), typed)
           /\ DOMAIN Saved(s, m) = DOMAIN s
           /\ \A n \in DOMAIN s : Saved(s, m)[n].id = s[n].id
<1> DEFINE f(x) == IF x.id = m THEN [x EXCEPT !.ver = @ + 1] ELSE x
           r == [n \in DOMAIN s |-> f(s[n])]
<1>1. /\ s \in Seq(Queued) /\ Len(s) \in Nat /\ DOMAIN s = 1 .. Len(s)
      /\ \A n \in DOMAIN s : s[n] \in Queued
  BY DEF QueueInv
<1>2. \A x \in Queued : f(x) \in Queued /\ f(x).id = x.id
  BY DEF Queued
<1> HIDE DEF f
<1>3. r \in [1 .. Len(s) -> Queued]
  BY <1>1, <1>2
<1>4. r \in Seq(Queued) /\ DOMAIN r = DOMAIN s /\ \A n \in DOMAIN s : r[n].id = s[n].id
  BY <1>1, <1>2, <1>3
<1> HIDE DEF r
<1>5. QueueInv(r, typed)
  BY <1>4 DEF QueueInv
<1> QED
  BY <1>4, <1>5 DEF Saved, r, f

-----------------------------------------------------------------------------
(* The queue's operations keep the tab's stages.                           *)

\* A job goes on, ends or begins with a question.
Fresh(u, t) == u.job = t.job \/ u.job = NoJob \/ u.job.pc = "ask"

\* What only the user changes.
SameQueue(u, t) == u.msgs = t.msgs /\ u.typed = t.typed /\ u.mounted = t.mounted

\* What Job() makes.
LEMMA JobShape ==
    ASSUME NEW kind \in {"prepare", "cancel", "recover"}, NEW own \in BOOLEAN
    PROVE  /\ Job(kind, own) \in JobShapes /\ Job(kind, own) # NoJob
           /\ Job(kind, own).kind = kind /\ Job(kind, own).own = own
           /\ Job(kind, own).pc = "ask"
  BY DEF Job, NoJob, JobShapes

\* What Op() makes.
LEMMA OpShape ==
    ASSUME NEW p \in {"preparing", "sending", "cancelling"}, NEW m \in Queued,
           NEW b \in BOOLEAN
    PROVE  /\ Op(p, m, b) \in OpShapes /\ Op(p, m, b) # NoOp
           /\ Op(p, m, b).phase = p /\ Op(p, m, b).msg = m
           /\ Op(p, m, b).explicit = b
  BY DEF Op, NoOp, OpShapes

\* An operation is known by its phase.
LEMMA OpPhase ==
    ASSUME NEW o \in OpShapes
    PROVE  /\ o.phase \in {"none", "preparing", "sending", "cancelling"}
           /\ o.phase = "none" <=> o = NoOp
           /\ o # NoOp => o.msg \in Queued /\ o.explicit \in BOOLEAN
  BY DEF OpShapes, NoOp

\* The fields of a job.
LEMMA JobFields ==
    ASSUME NEW j \in JobShapes, j # NoJob
    PROVE  /\ j.kind \in {"prepare", "cancel", "recover"} /\ j.own \in BOOLEAN
           /\ j.pc \in {"ask", "told", "posted"} /\ j.seen \in Answers \cup {None}
           /\ j.resumed \in BOOLEAN /\ j.cancelled \in Slots \cup {None}
  BY DEF JobShapes

\* Fresh is transitive.
LEMMA FreshTrans ==
    ASSUME NEW t, NEW u, NEW v, Fresh(u, t), Fresh(v, u)
    PROVE  Fresh(v, t)
  BY DEF Fresh

\* A preparation without a job gets one.
LEMMA RejoinStages ==
    ASSUME NEW t, Loose(t), ReaderInv(t)
    PROVE  /\ TabInv(Rejoin(t)) /\ Fresh(Rejoin(t), t)
           /\ SameQueue(Rejoin(t), t) /\ Rejoin(t).op = t.op
           /\ t.job # NoJob => Rejoin(t).job = t.job
<1>1. CASE t.op.phase = "preparing" /\ t.job = NoJob
  <2> DEFINE j == Job("prepare", TRUE)
             u == [t EXCEPT !.job = j]
  <2>1. /\ j \in JobShapes /\ j # NoJob /\ j.kind = "prepare" /\ j.own = TRUE
        /\ j.pc = "ask"
    BY JobShape
  <2> HIDE DEF j
  <2>2. t \in TabShapes
    BY DEF Loose
  <2>3. /\ u \in TabShapes /\ u.job = j /\ u.msgs = t.msgs /\ u.typed = t.typed
        /\ u.op = t.op /\ u.mounted = t.mounted /\ u.paused = t.paused
        /\ u.editing = t.editing /\ u.on = t.on /\ u.status = t.status
    BY <2>1, <2>2 DEF TabShapes
  <2>4. Rejoin(t) = u
    BY <1>1 DEF Rejoin, j
  <2> HIDE DEF u
  <2>5. QueueInv(u.msgs, u.typed) /\ PreparingInv(u) /\ t.mounted
    BY <1>1, <2>3 DEF Loose, PreparingInv
  <2>6. JobInv(u) /\ Joined(u)
    BY <1>1, <2>1, <2>3, <2>5 DEF JobInv, Joined
  <2>7. ReaderInv(u)
    BY <2>3 DEF ReaderInv, Busy
  <2> QED
    BY <1>1, <2>1, <2>3, <2>4, <2>5, <2>6, <2>7 DEF TabInv, Staged, Loose, Fresh, SameQueue
<1>2. CASE ~(t.op.phase = "preparing" /\ t.job = NoJob)
  <2>1. Rejoin(t) = t
    BY <1>2 DEF Rejoin
  <2> QED
    BY <1>2, <2>1 DEF TabInv, Staged, Joined, Fresh, SameQueue
<1> QED
  BY <1>1, <1>2

\* drain() begins to prepare the message shown first, or does nothing.
LEMMA DrainStages ==
    ASSUME NEW t, TabInv(t)
    PROVE  /\ TabInv(Drain(t)) /\ Fresh(Drain(t), t) /\ SameQueue(Drain(t), t)
           /\ t.job # NoJob => Drain(t).job = t.job
           /\ t.op # NoOp => Drain(t).op = t.op
<1> DEFINE Starts == /\ t.mounted /\ t.msgs # <<>> /\ ~t.busy /\ t.op = NoOp
                     /\ ~t.paused /\ t.editing = None
<1>1. CASE Starts
  <2> DEFINE b == t.immediate = Head(t.msgs).id
             o == Op("preparing", Head(t.msgs), b)
             u == [t EXCEPT !.op = o]
  <2>1. t \in TabShapes /\ t.msgs \in Seq(Queued) /\ t.job \in JobShapes
    BY DEF TabInv, Staged, Loose, TabShapes
  <2>2. Head(t.msgs) \in Queued /\ Head(t.msgs) = t.msgs[1]
    BY <1>1, <2>1
  <2>3. /\ o \in OpShapes /\ o # NoOp /\ o.phase = "preparing"
        /\ o.msg = t.msgs[1]
    <3>1. b \in BOOLEAN
      OBVIOUS
    <3> HIDE DEF b
    <3> QED
      BY <2>2, <3>1, OpShape
  <2>4. Drain(t) = Rejoin(u)
    BY <1>1 DEF Drain
  <2> HIDE DEF o
  <2>5. /\ u \in TabShapes /\ u.job = t.job /\ u.msgs = t.msgs /\ u.typed = t.typed
        /\ u.op = o /\ u.mounted = t.mounted /\ u.paused = t.paused
        /\ u.editing = t.editing /\ u.on = t.on /\ u.status = t.status
    BY <2>1, <2>3 DEF TabShapes
  <2> HIDE DEF u
  <2>6. QueueInv(u.msgs, u.typed) /\ PreparingInv(u)
    BY <1>1, <2>3, <2>5 DEF TabInv, Staged, Loose, PreparingInv
  <2>7. JobInv(u)
    <3>1. t.op.phase = "none" /\ t.mounted
      BY <1>1 DEF NoOp
    <3>2. t.job # NoJob => ~t.job.own /\ t.job.kind # "prepare"
      BY <2>1, <3>1, JobFields DEF TabInv, Staged, Loose, JobInv
    <3> QED
      BY <2>3, <2>5, <3>1, <3>2 DEF TabInv, Staged, Loose, JobInv
  <2>8. ReaderInv(u)
    BY <2>3, <2>5 DEF TabInv, ReaderInv, Busy
  <2>9. Loose(u)
    BY <2>5, <2>6, <2>7 DEF Loose
  <2>10. Fresh(u, t) /\ SameQueue(u, t)
    BY <2>5 DEF Fresh, SameQueue
  <2>11. /\ TabInv(Rejoin(u)) /\ Fresh(Rejoin(u), u) /\ SameQueue(Rejoin(u), u)
         /\ u.job # NoJob => Rejoin(u).job = u.job
    BY <2>8, <2>9, RejoinStages
  <2> QED
    BY <1>1, <2>4, <2>5, <2>10, <2>11, FreshTrans DEF SameQueue
<1>2. CASE ~Starts
  <2>1. Drain(t) = t
    BY <1>2 DEF Drain
  <2> QED
    BY <2>1 DEF Fresh, SameQueue
<1> QED
  BY <1>1, <1>2

\* invalidateOperation() leaves no operation and only a job of the user.
LEMMA InvalidateStages ==
    ASSUME NEW t, Torn(t)
    PROVE  /\ TabInv(Invalidate(t)) /\ Fresh(Invalidate(t), t)
           /\ SameQueue(Invalidate(t), t) /\ Invalidate(t).op = NoOp
           /\ Invalidate(t).job # NoJob =>
                  ~Invalidate(t).job.own /\ Invalidate(t).job.kind # "prepare"
           /\ Invalidate(t).on = t.on /\ Invalidate(t).status = t.status
           /\ Invalidate(t).editing = t.editing
<1> DEFINE j == IF t.job # NoJob /\ t.job.own THEN NoJob ELSE t.job
           a == [t EXCEPT !.op = NoOp]
           u == [a EXCEPT !.job = j]
<1>1. t \in TabShapes /\ t.job \in JobShapes /\ JobInv(t)
  BY DEF Torn, TabShapes
<1>2. /\ j \in JobShapes /\ (j = t.job \/ j = NoJob)
      /\ j # NoJob => ~j.own /\ j.kind # "prepare"
  BY <1>1, JobFields DEF JobInv, JobShapes
<1>3. /\ a \in TabShapes /\ a.op = NoOp /\ a.job = t.job /\ a.msgs = t.msgs
      /\ a.typed = t.typed /\ a.mounted = t.mounted /\ a.on = t.on
      /\ a.status = t.status /\ a.editing = t.editing
  BY <1>1 DEF TabShapes, OpShapes
<1>4. Invalidate(t) = u
  BY <1>1, <1>3 DEF Invalidate, TabShapes
<1> HIDE DEF a, j
<1>5. /\ u \in TabShapes /\ u.op = NoOp /\ u.job = j /\ u.msgs = t.msgs
      /\ u.typed = t.typed /\ u.mounted = t.mounted /\ u.on = t.on
      /\ u.status = t.status /\ u.editing = t.editing
  BY <1>2, <1>3 DEF TabShapes
<1> HIDE DEF u
<1>6. u.op.phase = "none"
  BY <1>5 DEF NoOp
<1>7. QueueInv(u.msgs, u.typed) /\ PreparingInv(u) /\ Joined(u)
  BY <1>5, <1>6 DEF Torn, PreparingInv, Joined
<1>8. JobInv(u)
  BY <1>1, <1>2, <1>5, <1>6 DEF JobInv
<1>9. ReaderInv(u)
  BY <1>5, <1>6 DEF Torn, ReaderInv, Busy
<1> QED
  BY <1>2, <1>4, <1>5, <1>7, <1>8, <1>9 DEF TabInv, Staged, Loose, Fresh, SameQueue

\* What may be torn holds together.
LEMMA TornTab ==
    ASSUME NEW t, TabInv(t)
    PROVE  Torn(t)
  BY DEF TabInv, Staged, Loose, Torn

\* pause()
LEMMA PauseStages ==
    ASSUME NEW t, Torn(t)
    PROVE  /\ TabInv(Pause(t)) /\ Fresh(Pause(t), t) /\ SameQueue(Pause(t), t)
           /\ Pause(t).op = NoOp
           /\ Pause(t).on = t.on /\ Pause(t).status = t.status
<1> DEFINE a == [t EXCEPT !.paused = TRUE]
           u == [a EXCEPT !.immediate = None]
<1>1. t \in TabShapes
  BY DEF Torn
<1>2. /\ a \in TabShapes /\ a.op = t.op /\ a.job = t.job /\ a.msgs = t.msgs
      /\ a.typed = t.typed /\ a.mounted = t.mounted /\ a.on = t.on
      /\ a.status = t.status
  BY <1>1 DEF TabShapes
<1>3. [t EXCEPT !.paused = TRUE, !.immediate = None] = u
  BY <1>1 DEF TabShapes
<1> HIDE DEF a
<1>4. /\ u \in TabShapes /\ u.op = t.op /\ u.job = t.job /\ u.msgs = t.msgs
      /\ u.typed = t.typed /\ u.mounted = t.mounted /\ u.on = t.on
      /\ u.status = t.status
  BY <1>2 DEF TabShapes, Ids
<1>5. Pause(t) = Invalidate(u)
  BY <1>3 DEF Pause
<1> HIDE DEF u
<1>6. Torn(u)
  BY <1>4 DEF Torn, JobInv, ReaderInv, Busy, Has
<1>7. Fresh(u, t) /\ SameQueue(u, t)
  BY <1>4 DEF Fresh, SameQueue
<1> QED
  BY <1>4, <1>5, <1>6, <1>7, InvalidateStages, FreshTrans DEF SameQueue

\* edit() and remove() end a preparation.
LEMMA UnprepareStages ==
    ASSUME NEW t, TabInv(t)
    PROVE  /\ TabInv(Unprepare(t)) /\ Fresh(Unprepare(t), t)
           /\ SameQueue(Unprepare(t), t) /\ Unprepare(t).op.phase # "preparing"
           /\ Unprepare(t).op = t.op \/ Unprepare(t).op = NoOp
<1>1. NoOp.phase # "preparing"
  BY DEF NoOp
<1>2. CASE t.op.phase = "preparing"
  BY <1>1, <1>2, TornTab, InvalidateStages DEF Unprepare
<1>3. CASE t.op.phase # "preparing"
  BY <1>3 DEF Unprepare, Fresh, SameQueue
<1> QED
  BY <1>2, <1>3

\* The reader comes to a status.
LEMMA BecomesStages ==
    ASSUME NEW t, Staged(t), NEW status \in Statuses,
           status \in {"submitted", "streaming"} => t.on # None
    PROVE  LET u == Becomes(t, status)
           IN  /\ TabInv(u) /\ Fresh(u, t) /\ SameQueue(u, t)
               /\ status # "error" =>
                      /\ t.job # NoJob => u.job = t.job
                      /\ t.op.phase \notin {"none", "sending"} => u.op = t.op
<1> DEFINE over == status \in {"ready", "error"}
           on   == IF over THEN None ELSE t.on
           op   == IF over /\ t.op.phase = "sending" THEN NoOp ELSE t.op
           a == [t EXCEPT !.status = status]
           b == [a EXCEPT !.busy = ~over]
           c == [b EXCEPT !.on = on]
           d == [c EXCEPT !.op = op]
<1>1. /\ t \in TabShapes /\ t.on \in OnShapes /\ t.op \in OpShapes
      /\ over \in BOOLEAN
  BY DEF Staged, Loose, TabShapes
<1>2. on \in OnShapes /\ op \in OpShapes
  BY <1>1 DEF OnShapes, OpShapes
<1>3. Becomes(t, status) = Drain(IF status = "error" THEN Pause(d) ELSE d)
  <2>1. [t EXCEPT !.status = status, !.busy = ~over,
                  !.on = IF over THEN None ELSE @,
                  !.op = IF over /\ @.phase = "sending" THEN NoOp ELSE @] = d
    BY <1>1 DEF TabShapes
  <2> QED
    BY <2>1 DEF Becomes
<1>4. over <=> status \notin {"submitted", "streaming"}
  BY DEF Statuses
<1>5. (on # None <=> ~over) /\ (op.phase = "sending" => ~over)
      /\ (op = t.op \/ (op = NoOp /\ t.op.phase = "sending"))
  BY <1>4 DEF NoOp
<1> HIDE DEF on, op, over
<1>6. /\ a \in TabShapes /\ a.status = status /\ a.op = t.op /\ a.job = t.job
      /\ a.msgs = t.msgs /\ a.typed = t.typed /\ a.mounted = t.mounted
      /\ a.paused = t.paused /\ a.editing = t.editing
  BY <1>1 DEF TabShapes
<1> HIDE DEF a
<1>7. /\ b \in TabShapes /\ b.status = status /\ b.op = t.op /\ b.job = t.job
      /\ b.msgs = t.msgs /\ b.typed = t.typed /\ b.mounted = t.mounted
      /\ b.paused = t.paused /\ b.editing = t.editing
  BY <1>1, <1>6 DEF TabShapes
<1> HIDE DEF b
<1>8. /\ c \in TabShapes /\ c.status = status /\ c.op = t.op /\ c.job = t.job
      /\ c.msgs = t.msgs /\ c.typed = t.typed /\ c.mounted = t.mounted
      /\ c.paused = t.paused /\ c.editing = t.editing /\ c.on = on
  BY <1>2, <1>7 DEF TabShapes
<1> HIDE DEF c
<1>9. /\ d \in TabShapes /\ d.status = status /\ d.op = op /\ d.job = t.job
      /\ d.msgs = t.msgs /\ d.typed = t.typed /\ d.mounted = t.mounted
      /\ d.paused = t.paused /\ d.editing = t.editing /\ d.on = on
  BY <1>2, <1>8 DEF TabShapes
<1> HIDE DEF d
<1>10. NoOp.phase = "none"
  BY DEF NoOp
<1>11. PreparingInv(d) /\ Joined(d) /\ QueueInv(d.msgs, d.typed)
  BY <1>5, <1>9, <1>10 DEF Staged, Loose, PreparingInv, Joined
<1>12. JobInv(d)
  BY <1>5, <1>9, <1>10 DEF Staged, Loose, JobInv, Has
<1>13. ReaderInv(d)
  BY <1>4, <1>5, <1>9 DEF ReaderInv, Busy
<1>14. TabInv(d)
  BY <1>9, <1>11, <1>12, <1>13 DEF TabInv, Staged, Loose
<1>15. Fresh(d, t) /\ SameQueue(d, t)
  BY <1>9 DEF Fresh, SameQueue
<1>16. CASE status = "error"
  <2>1. TabInv(Pause(d)) /\ Fresh(Pause(d), d) /\ SameQueue(Pause(d), d)
    BY <1>14, TornTab, PauseStages
  <2> DEFINE p == Pause(d)
  <2>2. TabInv(p) /\ Fresh(p, t) /\ SameQueue(p, t)
    BY <2>1, <1>15, FreshTrans DEF SameQueue
  <2> HIDE DEF p
  <2>3. TabInv(Drain(p)) /\ Fresh(Drain(p), p) /\ SameQueue(Drain(p), p)
    BY <2>2, DrainStages
  <2>4. Fresh(Drain(p), t) /\ SameQueue(Drain(p), t)
    BY <2>2, <2>3, FreshTrans DEF SameQueue
  <2> QED
    BY <1>3, <1>16, <2>3, <2>4 DEF p
<1>17. CASE status # "error"
  <2>1. /\ TabInv(Drain(d)) /\ Fresh(Drain(d), d) /\ SameQueue(Drain(d), d)
        /\ d.job # NoJob => Drain(d).job = d.job
        /\ d.op # NoOp => Drain(d).op = d.op
    BY <1>14, DrainStages
  <2>2. Fresh(Drain(d), t) /\ SameQueue(Drain(d), t)
    BY <1>15, <2>1, FreshTrans DEF SameQueue
  <2>3. t.op.phase \notin {"none", "sending"} => d.op = t.op /\ d.op # NoOp
    BY <1>5, <1>9, <1>10
  <2> QED
    BY <1>3, <1>9, <1>17, <2>1, <2>2, <2>3
<1> QED
  BY <1>16, <1>17

\* What a reader that stops in peace leaves.
Calm(u, t) == /\ TabInv(u) /\ Fresh(u, t) /\ SameQueue(u, t)
              /\ t.job # NoJob => u.job = t.job
              /\ t.op.phase \notin {"none", "sending"} => u.op = t.op

\* stopReader(), with and without apply(), is calm.
LEMMA StopCalm ==
    ASSUME NEW t, TabInv(t)
    PROVE  Calm(Stopped(t), t) /\ Calm(Settled(t), t)
<1>1. Calm(t, t)
  BY DEF Calm, Fresh, SameQueue
<1>2. Calm(Becomes(t, "ready"), t)
  <2>1. Staged(t) /\ "ready" \in Statuses
    BY DEF TabInv, Statuses
  <2> DEFINE u == Becomes(t, "ready")
  <2>2. /\ TabInv(u) /\ Fresh(u, t) /\ SameQueue(u, t)
        /\ t.job # NoJob => u.job = t.job
        /\ t.op.phase \notin {"none", "sending"} => u.op = t.op
    BY <2>1, BecomesStages
  <2> QED
    BY <2>2 DEF Calm
<1> QED
  BY <1>1, <1>2 DEF Stopped, Settled

\* The queue gives up what it was doing.
LEMMA BrokenStages ==
    ASSUME NEW t, TabInv(t)
    PROVE  TabInv(Broken(t)) /\ Fresh(Broken(t), t)
<1> DEFINE a == [t EXCEPT !.paused = TRUE]
           b == [a EXCEPT !.op = NoOp]
           u == [b EXCEPT !.job = NoJob]
<1>1. t \in TabShapes
  BY DEF TabInv, Staged, Loose
<1>2. Broken(t) = u
  BY <1>1 DEF Broken, TabShapes
<1>3. /\ a \in TabShapes /\ a.msgs = t.msgs /\ a.typed = t.typed
      /\ a.on = t.on /\ a.status = t.status
  BY <1>1 DEF TabShapes
<1> HIDE DEF a
<1>4. /\ b \in TabShapes /\ b.msgs = t.msgs /\ b.typed = t.typed
      /\ b.on = t.on /\ b.status = t.status /\ b.op = NoOp
  BY <1>3 DEF TabShapes, OpShapes
<1> HIDE DEF b
<1>5. /\ u \in TabShapes /\ u.msgs = t.msgs /\ u.typed = t.typed
      /\ u.on = t.on /\ u.status = t.status /\ u.op = NoOp /\ u.job = NoJob
  BY <1>4 DEF TabShapes, JobShapes
<1> HIDE DEF u
<1>6. NoOp.phase = "none"
  BY DEF NoOp
<1>7. JobInv(u) /\ Joined(u) /\ PreparingInv(u)
  BY <1>5, <1>6 DEF JobInv, Joined, PreparingInv
<1>8. ReaderInv(u) /\ QueueInv(u.msgs, u.typed)
  BY <1>5, <1>6 DEF TabInv, Staged, Loose, ReaderInv, Busy
<1> QED
  BY <1>2, <1>5, <1>7, <1>8 DEF TabInv, Staged, Loose, Fresh

\* A job of the user that is over makes way for a preparation that waits.
LEMMA EndJobStages ==
    ASSUME NEW t, TabInv(t), t.job # NoJob, ~t.job.own
    PROVE  TabInv(EndJob(t)) /\ Fresh(EndJob(t), t)
<1> DEFINE u == [t EXCEPT !.job = NoJob]
<1>1. t \in TabShapes /\ JobInv(t)
  BY DEF TabInv, Staged, Loose
<1>2. /\ u \in TabShapes /\ u.msgs = t.msgs /\ u.typed = t.typed /\ u.op = t.op
      /\ u.on = t.on /\ u.status = t.status /\ u.job = NoJob
      /\ u.mounted = t.mounted /\ u.paused = t.paused /\ u.editing = t.editing
  BY <1>1 DEF TabShapes, JobShapes
<1>3. EndJob(t) = Rejoin(u)
  BY DEF EndJob
<1> HIDE DEF u
<1>4. JobInv(u)
  BY <1>1, <1>2 DEF JobInv
<1>5. QueueInv(u.msgs, u.typed) /\ PreparingInv(u) /\ ReaderInv(u)
  BY <1>2 DEF TabInv, Staged, Loose, PreparingInv, ReaderInv, Busy
<1>6. Fresh(u, t)
  BY <1>2 DEF Fresh
<1> QED
  BY <1>2, <1>3, <1>4, <1>5, <1>6, RejoinStages, FreshTrans DEF Loose

\* The message prepared is taken from the queue and submitted.
LEMMA SendStages ==
    ASSUME NEW t, TabInv(t), t.op.phase = "preparing",
           t.job # NoJob, t.job.kind = "prepare"
    PROVE  TabInv(Send(t)) /\ Fresh(Send(t), t) /\ t.op.msg.id \in ToSet(Typed)
<1> DEFINE m  == t.op.msg.id
           w  == Without(t.msgs, m)
           r  == [at |-> "post", req |-> m]
           o  == [t.op EXCEPT !.phase = "sending"]
           a  == [t EXCEPT !.msgs = w]
           b  == [a EXCEPT !.immediate = None]
           c  == [b EXCEPT !.op = o]
           d  == [c EXCEPT !.job = NoJob]
           u  == [d EXCEPT !.on = r]
<1>1. /\ t \in TabShapes /\ QueueInv(t.msgs, t.typed) /\ t.typed \in Nat
      /\ t.op \in OpShapes /\ t.op # NoOp
  BY DEF TabInv, Staged, Loose, TabShapes, NoOp
<1>2. t.op.msg \in Queued /\ m \in ToSet(Typed)
  BY <1>1, OpPhase DEF Queued
<1>3. QueueInv(w, t.typed) /\ w \in Seq(Queued)
  <2>1. QueueInv(w, t.typed)
    BY <1>1, WithoutQueue
  <2> QED
    BY <2>1 DEF QueueInv
<1>4. r \in OnShapes /\ r # None
  <2>1. r \in Readings
    BY <1>2, TypedOK DEF Readings
  <2> QED
    BY <1>2, <2>1, ChatTabAssumption DEF OnShapes
<1>5. o \in OpShapes /\ o.phase = "sending" /\ o # NoOp
  BY <1>1 DEF OpShapes, NoOp
<1>6. Send(t) = Becomes(u, "submitted")
  BY <1>1 DEF Send, TabShapes
<1> HIDE DEF w, r, o, m
<1>7. a \in TabShapes /\ a.msgs = w /\ a.typed = t.typed
  BY <1>1, <1>3 DEF TabShapes
<1> HIDE DEF a
<1>8. b \in TabShapes /\ b.msgs = w /\ b.typed = t.typed
  BY <1>7 DEF TabShapes, Ids
<1> HIDE DEF b
<1>9. c \in TabShapes /\ c.msgs = w /\ c.typed = t.typed /\ c.op = o
  BY <1>8, <1>5 DEF TabShapes
<1> HIDE DEF c
<1>10. /\ d \in TabShapes /\ d.msgs = w /\ d.typed = t.typed /\ d.op = o
       /\ d.job = NoJob /\ d.mounted = t.mounted
  <2>1. a.mounted = t.mounted
    BY <1>1 DEF a, TabShapes
  <2>2. b.mounted = t.mounted
    BY <1>7, <2>1 DEF b, TabShapes
  <2>3. c.mounted = t.mounted
    BY <1>8, <2>2 DEF c, TabShapes
  <2> QED
    BY <1>9, <2>3 DEF TabShapes, JobShapes
<1> HIDE DEF d
<1>11. /\ u \in TabShapes /\ u.msgs = w /\ u.typed = t.typed /\ u.op = o
       /\ u.job = NoJob /\ u.on = r /\ u.mounted = t.mounted
  BY <1>10, <1>4 DEF TabShapes
<1> HIDE DEF u
<1>12. t.mounted
  BY DEF TabInv, Staged, Loose, PreparingInv
<1>13. JobInv(u) /\ Joined(u) /\ PreparingInv(u)
  BY <1>5, <1>11, <1>12 DEF JobInv, Joined, PreparingInv
<1>14. Staged(u) /\ u.on # None /\ "submitted" \in Statuses
  BY <1>3, <1>4, <1>11, <1>13 DEF Staged, Loose, Statuses
<1>15. TabInv(Becomes(u, "submitted")) /\ Fresh(Becomes(u, "submitted"), u)
  BY <1>14, BecomesStages
<1>16. Fresh(u, t)
  BY <1>11 DEF Fresh
<1> QED
  BY <1>2, <1>6, <1>15, <1>16, FreshTrans DEF m

\* The message to be sent now is put first, and nothing holds the queue.
LEMMA PromoteStages ==
    ASSUME NEW t, TabInv(t), t.op.phase = "cancelling"
    PROVE  TabInv(Promote(t)) /\ Fresh(Promote(t), t)
<1> DEFINE msg == CHOOSE x \in ToSet(t.msgs) : x.id = t.op.msg.id
           s == <<msg>> \o Without(t.msgs, msg.id)
           a == [t EXCEPT !.msgs = s]
           b == [a EXCEPT !.paused = FALSE]
           c == [b EXCEPT !.immediate = msg.id]
           d == [c EXCEPT !.busy = FALSE]
           e == [d EXCEPT !.op = NoOp]
           u == [e EXCEPT !.job = NoJob]
<1>1. /\ t \in TabShapes /\ QueueInv(t.msgs, t.typed) /\ t.typed \in Nat
      /\ t.msgs \in Seq(Queued) /\ Has(t, t.op.msg.id)
  BY DEF TabInv, Staged, Loose, TabShapes, JobInv
<1>2. PICK n \in DOMAIN t.msgs : msg = t.msgs[n]
  <2>1. ToSet(t.msgs) = {t.msgs[n] : n \in DOMAIN t.msgs}
    BY DEF ToSet
  <2>2. \E x \in ToSet(t.msgs) : x.id = t.op.msg.id
    BY <1>1, <2>1 DEF Has
  <2>3. msg \in ToSet(t.msgs)
    BY <2>2
  <2> QED
    BY <2>1, <2>3
<1>3. msg \in Queued /\ msg.id \in Ids
  <2>1. t.msgs[n] \in Queued
    BY <1>1
  <2> QED
    BY <1>2, <2>1 DEF Queued, Ids
<1>4. QueueInv(s, t.typed) /\ s \in Seq(Queued)
  <2>1. QueueInv(<<t.msgs[n]>> \o Without(t.msgs, t.msgs[n].id), t.typed)
    BY <1>1, FirstQueue
  <2>2. QueueInv(s, t.typed)
    BY <1>2, <2>1
  <2> QED
    BY <2>2 DEF QueueInv
<1>5. Promote(t) = Drain(u)
  BY <1>1 DEF Promote, TabShapes
<1> HIDE DEF msg, s
<1>6. /\ a \in TabShapes /\ a.msgs = s /\ a.typed = t.typed /\ a.on = t.on
      /\ a.status = t.status
  BY <1>1, <1>4 DEF TabShapes
<1> HIDE DEF a
<1>7. /\ b \in TabShapes /\ b.msgs = s /\ b.typed = t.typed /\ b.on = t.on
      /\ b.status = t.status
  BY <1>6 DEF TabShapes
<1> HIDE DEF b
<1>8. /\ c \in TabShapes /\ c.msgs = s /\ c.typed = t.typed /\ c.on = t.on
      /\ c.status = t.status
  BY <1>3, <1>7 DEF TabShapes
<1> HIDE DEF c
<1>9. /\ d \in TabShapes /\ d.msgs = s /\ d.typed = t.typed /\ d.on = t.on
      /\ d.status = t.status
  BY <1>8 DEF TabShapes
<1> HIDE DEF d
<1>10. /\ e \in TabShapes /\ e.msgs = s /\ e.typed = t.typed /\ e.on = t.on
       /\ e.status = t.status /\ e.op = NoOp
  BY <1>9 DEF TabShapes, OpShapes
<1> HIDE DEF e
<1>11. /\ u \in TabShapes /\ u.msgs = s /\ u.typed = t.typed /\ u.on = t.on
       /\ u.status = t.status /\ u.op = NoOp /\ u.job = NoJob
  BY <1>10 DEF TabShapes, JobShapes
<1> HIDE DEF u
<1>12. NoOp.phase = "none"
  BY DEF NoOp
<1>13. JobInv(u) /\ Joined(u) /\ PreparingInv(u)
  BY <1>11, <1>12 DEF JobInv, Joined, PreparingInv
<1>14. ReaderInv(u) /\ QueueInv(u.msgs, u.typed)
  BY <1>4, <1>11, <1>12 DEF TabInv, ReaderInv, Busy
<1>15. TabInv(u) /\ Fresh(u, t)
  BY <1>11, <1>13, <1>14 DEF TabInv, Staged, Loose, Fresh
<1> QED
  BY <1>5, <1>15, DrainStages, FreshTrans

-----------------------------------------------------------------------------
(* The user's steps.                                                       *)

\* What a step of the tab keeps.
TabStep == TabInv(tab') /\ Fresh(tab', tab)

\* A job of the user begins.
LEMMA UserJob ==
    ASSUME NEW t, TabInv(t), t.mounted, t.op.phase \notin {"preparing", "cancelling"},
           NEW kind \in {"cancel", "recover"}
    PROVE  TabInv([t EXCEPT !.job = Job(kind, FALSE)])
<1> DEFINE j == Job(kind, FALSE)
           u == [t EXCEPT !.job = j]
<1>1. /\ j \in JobShapes /\ j # NoJob /\ j.kind = kind /\ j.own = FALSE
      /\ j.pc = "ask"
  BY JobShape
<1> HIDE DEF j
<1>2. t \in TabShapes
  BY DEF TabInv, Staged, Loose
<1>3. /\ u \in TabShapes /\ u.msgs = t.msgs /\ u.typed = t.typed /\ u.op = t.op
      /\ u.on = t.on /\ u.status = t.status /\ u.job = j /\ u.mounted = t.mounted
  BY <1>1, <1>2 DEF TabShapes
<1> HIDE DEF u
<1>4. JobInv(u) /\ Joined(u) /\ PreparingInv(u)
  BY <1>1, <1>3 DEF JobInv, Joined, PreparingInv
<1>5. ReaderInv(u) /\ QueueInv(u.msgs, u.typed)
  BY <1>3 DEF TabInv, Staged, Loose, ReaderInv, Busy
<1> QED
  BY <1>3, <1>4, <1>5 DEF TabInv, Staged, Loose, u, j

\* enqueue()
LEMMA EnqueueStep ==
    ASSUME TabInv(tab), Enqueue
    PROVE  TabStep
<1> DEFINE m    == Typed[tab.typed + 1]
           x    == [id |-> m, ver |-> 0]
           idle == ~tab.busy /\ tab.op = NoOp /\ tab.msgs = <<>>
           s    == Append(tab.msgs, x)
           p    == tab.paused /\ ~idle
           im   == IF idle THEN m ELSE tab.immediate
           k == tab.typed + 1
           a == [tab EXCEPT !.typed = k]
           b == [a EXCEPT !.msgs = s]
           c == [b EXCEPT !.paused = p]
           u == [c EXCEPT !.immediate = im]
<1>1. /\ tab \in TabShapes /\ QueueInv(tab.msgs, tab.typed) /\ tab.typed \in Nat
      /\ tab.typed < Len(Typed) /\ tab.mounted /\ tab.paused \in BOOLEAN
      /\ tab.immediate \in Ids
  BY DEF TabInv, Staged, Loose, TabShapes, Enqueue
<1>2. /\ QueueInv(s, tab.typed + 1) /\ x \in Queued
      /\ tab.msgs # <<>> => s # <<>> /\ s[1] = tab.msgs[1]
      /\ \A n \in DOMAIN tab.msgs : n \in DOMAIN s /\ s[n] = tab.msgs[n]
  BY <1>1, AppendQueue
<1>3. s \in Seq(Queued) /\ m \in ToSet(Typed)
  BY <1>2 DEF QueueInv, Queued
<1>4. p \in BOOLEAN /\ (~tab.paused => ~p)
  OBVIOUS
<1>5. im \in Ids
  BY <1>1, <1>3 DEF Ids
<1>6. tab' = Drain(u)
  <2>1. [tab EXCEPT !.typed = @ + 1, !.msgs = Append(@, x),
                    !.paused = @ /\ ~idle, !.immediate = IF idle THEN m ELSE @] = u
    BY <1>1 DEF TabShapes
  <2> QED
    BY <2>1 DEF Enqueue
<1>0. k = tab.typed + 1 /\ k \in Nat
  BY <1>1
<1> HIDE DEF m, x, s, p, im, idle, k
<1>7. /\ a \in TabShapes /\ a.typed = k /\ a.on = tab.on
      /\ a.status = tab.status /\ a.op = tab.op /\ a.job = tab.job
      /\ a.mounted = tab.mounted /\ a.editing = tab.editing
  BY <1>0, <1>1 DEF TabShapes
<1> HIDE DEF a
<1>8. /\ b \in TabShapes /\ b.typed = k /\ b.on = tab.on
      /\ b.status = tab.status /\ b.op = tab.op /\ b.job = tab.job
      /\ b.mounted = tab.mounted /\ b.editing = tab.editing /\ b.msgs = s
  BY <1>3, <1>7 DEF TabShapes
<1> HIDE DEF b
<1>9. /\ c \in TabShapes /\ c.typed = k /\ c.on = tab.on
      /\ c.status = tab.status /\ c.op = tab.op /\ c.job = tab.job
      /\ c.mounted = tab.mounted /\ c.editing = tab.editing /\ c.msgs = s
      /\ c.paused = p
  BY <1>4, <1>8 DEF TabShapes
<1> HIDE DEF c
<1>10. /\ u \in TabShapes /\ u.typed = k /\ u.on = tab.on
       /\ u.status = tab.status /\ u.op = tab.op /\ u.job = tab.job
       /\ u.mounted = tab.mounted /\ u.editing = tab.editing /\ u.msgs = s
       /\ u.paused = p
  BY <1>5, <1>9 DEF TabShapes
<1> HIDE DEF u
<1>11. PreparingInv(u) /\ QueueInv(u.msgs, u.typed)
  BY <1>0, <1>2, <1>4, <1>10 DEF TabInv, Staged, Loose, PreparingInv
<1>12. Joined(u) /\ ReaderInv(u)
  BY <1>10 DEF TabInv, Staged, Joined, ReaderInv, Busy
<1>13. JobInv(u)
  <2>1. Has(tab, tab.op.msg.id) => Has(u, tab.op.msg.id)
    BY <1>2, <1>10 DEF Has
  <2> QED
    BY <1>10, <2>1 DEF TabInv, Staged, Loose, JobInv
<1>14. TabInv(u) /\ Fresh(u, tab)
  BY <1>10, <1>11, <1>12, <1>13 DEF TabInv, Staged, Loose, Fresh
<1> QED
  BY <1>6, <1>14, DrainStages, FreshTrans DEF TabStep

\* handleStop()
LEMMA StopStep ==
    ASSUME TabInv(tab), Stop
    PROVE  TabStep
<1> DEFINE u == Pause(tab)
           j == Job("cancel", FALSE)
<1>1. TabInv(u) /\ SameQueue(u, tab) /\ u.op = NoOp
  BY TornTab, PauseStages
<1>2. u.mounted /\ tab' = [u EXCEPT !.job = j] /\ u \in TabShapes
  BY <1>1 DEF Stop, SameQueue, TabInv, Staged, Loose
<1> HIDE DEF u
<1>3. u.op.phase = "none"
  BY <1>1 DEF NoOp
<1>4. TabInv(tab')
  BY <1>1, <1>2, <1>3, UserJob
<1>5. j.pc = "ask"
  BY JobShape
<1>6. tab'.job = j
  BY <1>2 DEF TabShapes
<1> QED
  BY <1>4, <1>5, <1>6 DEF TabStep, Fresh

\* A recovery begins while no other job runs.
LEMMA ReconcileStep ==
    ASSUME TabInv(tab), Reconcile
    PROVE  TabStep
<1> DEFINE j == Job("recover", FALSE)
<1>1. tab.mounted /\ tab.job = NoJob /\ tab' = [tab EXCEPT !.job = j]
      /\ tab \in TabShapes
  BY DEF Reconcile, TabInv, Staged, Loose
<1>2. tab.op.phase \notin {"preparing", "cancelling"}
  BY <1>1 DEF TabInv, Staged, Loose, Joined, JobInv, NoJob
<1>3. TabInv(tab')
  BY <1>1, <1>2, UserJob
<1>4. j.pc = "ask"
  BY JobShape
<1>5. tab'.job = j
  BY <1>1 DEF TabShapes
<1> QED
  BY <1>3, <1>4, <1>5 DEF TabStep, Fresh

\* sendNow()
LEMMA SendNowStep ==
    ASSUME TabInv(tab), NEW m \in ToSet(Typed), SendNow(m)
    PROVE  TabStep
<1> DEFINE t == Invalidate(tab)
           x == [id |-> m, ver |-> 0]
           o == Op("cancelling", x, TRUE)
           j == Job("cancel", TRUE)
           a == [t EXCEPT !.op = o]
           b == [a EXCEPT !.editing = None]
           u == [b EXCEPT !.job = j]
<1>1. /\ TabInv(t) /\ SameQueue(t, tab)
      /\ t.op = NoOp /\ t.on = tab.on /\ t.status = tab.status
  BY TornTab, InvalidateStages
<1>2. t.mounted /\ Has(t, m) /\ t \in TabShapes /\ QueueInv(t.msgs, t.typed)
      /\ ReaderInv(t)
  BY <1>1 DEF SendNow, SameQueue, Has, TabInv, Staged, Loose
<1>3. tab' = u
  BY <1>2 DEF SendNow, TabShapes
<1> HIDE DEF t
<1>4. /\ o \in OpShapes /\ o # NoOp /\ o.phase = "cancelling" /\ o.msg.id = m
  <2>1. x \in Queued /\ x.id = m
    BY DEF Queued
  <2> HIDE DEF x
  <2> QED
    BY <2>1, OpShape
<1>5. /\ j \in JobShapes /\ j # NoJob /\ j.kind = "cancel" /\ j.own = TRUE
      /\ j.pc = "ask"
  BY JobShape
<1> HIDE DEF o, j
<1>6. /\ a \in TabShapes /\ a.op = o /\ a.msgs = t.msgs /\ a.typed = t.typed
      /\ a.on = t.on /\ a.status = t.status /\ a.mounted = t.mounted
  BY <1>2, <1>4 DEF TabShapes
<1> HIDE DEF a
<1>7. /\ b \in TabShapes /\ b.op = o /\ b.msgs = t.msgs /\ b.typed = t.typed
      /\ b.on = t.on /\ b.status = t.status /\ b.mounted = t.mounted
  BY <1>6 DEF TabShapes, Ids
<1> HIDE DEF b
<1>8. /\ u \in TabShapes /\ u.op = o /\ u.msgs = t.msgs /\ u.typed = t.typed
      /\ u.on = t.on /\ u.status = t.status /\ u.mounted = t.mounted
      /\ u.job = j
  BY <1>5, <1>7 DEF TabShapes
<1> HIDE DEF u
<1>9. JobInv(u) /\ Joined(u) /\ PreparingInv(u)
  BY <1>2, <1>4, <1>5, <1>8 DEF JobInv, Joined, PreparingInv, Has
<1>10. ReaderInv(u) /\ QueueInv(u.msgs, u.typed)
  BY <1>2, <1>4, <1>8 DEF ReaderInv, Busy
<1> QED
  BY <1>3, <1>5, <1>8, <1>9, <1>10 DEF TabStep, TabInv, Staged, Loose, Fresh

\* What an edit, a save or a removal makes of a tab that prepares nothing.
LEMMA Rewritten ==
    ASSUME NEW t, TabInv(t), t.op.phase # "preparing", NEW ed \in Ids, NEW s,
           QueueInv(s, t.typed),
           t.op.phase = "cancelling" => \E n \in DOMAIN s : s[n].id = t.op.msg.id,
           NEW u, u = [[t EXCEPT !.editing = ed] EXCEPT !.msgs = s]
    PROVE  TabInv(u) /\ Fresh(u, t)
<1> DEFINE a == [t EXCEPT !.editing = ed]
<1>1. t \in TabShapes /\ s \in Seq(Queued)
  BY DEF TabInv, Staged, Loose, QueueInv
<1>2. /\ a \in TabShapes /\ a.typed = t.typed /\ a.on = t.on
      /\ a.status = t.status /\ a.op = t.op /\ a.job = t.job
      /\ a.mounted = t.mounted
  BY <1>1 DEF TabShapes
<1>3. u = [a EXCEPT !.msgs = s]
  OBVIOUS
<1> HIDE DEF a
<1>4. /\ u \in TabShapes /\ u.typed = t.typed /\ u.on = t.on
      /\ u.status = t.status /\ u.op = t.op /\ u.job = t.job
      /\ u.mounted = t.mounted /\ u.msgs = s
  BY <1>1, <1>2, <1>3 DEF TabShapes
<1>5. PreparingInv(u) /\ Joined(u) /\ QueueInv(u.msgs, u.typed)
  BY <1>4 DEF PreparingInv, Joined
<1>6. ReaderInv(u)
  BY <1>4 DEF TabInv, ReaderInv, Busy
<1>7. JobInv(u)
  <2>1. t.op.phase = "cancelling" => Has(u, t.op.msg.id)
    BY <1>4 DEF Has
  <2> QED
    BY <1>4, <2>1 DEF TabInv, Staged, Loose, JobInv
<1> QED
  BY <1>4, <1>5, <1>6, <1>7 DEF TabInv, Staged, Loose, Fresh

\* Without touching the queue.
LEMMA Reedited ==
    ASSUME NEW t, TabInv(t), t.op.phase # "preparing", NEW ed \in Ids
    PROVE  LET u == [t EXCEPT !.editing = ed] IN TabInv(u) /\ Fresh(u, t)
<1> DEFINE u == [t EXCEPT !.editing = ed]
<1>1. t \in TabShapes /\ QueueInv(t.msgs, t.typed)
  BY DEF TabInv, Staged, Loose
<1>2. u = [u EXCEPT !.msgs = t.msgs]
  BY <1>1 DEF TabShapes
<1>3. t.op.phase = "cancelling" => \E n \in DOMAIN t.msgs : t.msgs[n].id = t.op.msg.id
  BY DEF TabInv, Staged, Loose, JobInv, Has
<1> QED
  BY <1>1, <1>2, <1>3, Rewritten

\* edit() of a message
LEMMA EditStep ==
    ASSUME TabInv(tab), NEW m \in ToSet(Typed), Edit(m)
    PROVE  TabStep
<1> DEFINE t == Unprepare(tab)
<1>1. TabInv(t) /\ Fresh(t, tab) /\ t.op.phase # "preparing"
  BY UnprepareStages
<1>2. tab' = [t EXCEPT !.editing = m] /\ m \in Ids
  BY DEF Edit, Ids
<1> HIDE DEF t
<1> QED
  BY <1>1, <1>2, Reedited, FreshTrans DEF TabStep

\* edit() of none
LEMMA CancelEditStep ==
    ASSUME TabInv(tab), CancelEdit
    PROVE  TabStep
<1> DEFINE t == Unprepare(tab)
           u == [t EXCEPT !.editing = None]
<1>1. TabInv(t) /\ Fresh(t, tab) /\ t.op.phase # "preparing"
  BY UnprepareStages
<1>2. tab' = Drain(u) /\ None \in Ids
  BY DEF CancelEdit, Ids
<1> HIDE DEF t
<1>3. TabInv(u) /\ Fresh(u, t)
  BY <1>1, <1>2, Reedited
<1> HIDE DEF u
<1>4. TabInv(Drain(u)) /\ Fresh(Drain(u), u)
  BY <1>3, DrainStages
<1>5. Fresh(tab', t)
  BY <1>2, <1>3, <1>4, FreshTrans
<1> QED
  BY <1>1, <1>2, <1>4, <1>5, FreshTrans DEF TabStep

\* save()
LEMMA SaveStep ==
    ASSUME TabInv(tab), Save
    PROVE  TabStep
<1> DEFINE s == Saved(tab.msgs, tab.editing)
           a == [tab EXCEPT !.editing = None]
           u == [a EXCEPT !.msgs = s]
<1>1. /\ tab \in TabShapes /\ QueueInv(tab.msgs, tab.typed) /\ tab.typed \in Nat
      /\ tab.editing # None /\ None \in Ids
  BY DEF TabInv, Staged, Loose, TabShapes, Save, Ids
<1>2. /\ QueueInv(s, tab.typed) /\ DOMAIN s = DOMAIN tab.msgs
      /\ \A n \in DOMAIN tab.msgs : s[n].id = tab.msgs[n].id
  BY <1>1, SavedQueue
<1>3. tab.op.phase # "preparing"
  BY <1>1 DEF TabInv, Staged, Loose, PreparingInv
<1>4. tab' = Drain(u)
  BY <1>1 DEF Save, TabShapes
<1> HIDE DEF s
<1>5. tab.op.phase = "cancelling" => \E n \in DOMAIN s : s[n].id = tab.op.msg.id
  BY <1>2 DEF TabInv, Staged, Loose, JobInv, Has
<1>6. TabInv(u) /\ Fresh(u, tab)
  BY <1>1, <1>2, <1>3, <1>5, Rewritten
<1> HIDE DEF u
<1> QED
  BY <1>4, <1>6, DrainStages, FreshTrans DEF TabStep

\* remove()
LEMMA RemoveQueuedStep ==
    ASSUME TabInv(tab), NEW m \in ToSet(Typed), RemoveQueued(m)
    PROVE  TabStep
<1> DEFINE t  == Unprepare(tab)
           s  == Without(t.msgs, m)
           ed == IF t.editing = m THEN None ELSE t.editing
           a  == [t EXCEPT !.editing = ed]
           u  == [a EXCEPT !.msgs = s]
<1>1. /\ TabInv(t) /\ Fresh(t, tab) /\ t.op.phase # "preparing"
      /\ t.op = tab.op \/ t.op = NoOp
  BY UnprepareStages
<1>2. /\ t \in TabShapes /\ QueueInv(t.msgs, t.typed) /\ t.typed \in Nat
      /\ t.editing \in Ids /\ JobInv(t)
  BY <1>1 DEF TabInv, Staged, Loose, TabShapes
<1>3. tab' = Drain(u) /\ ~Sending(m)
  BY <1>2 DEF RemoveQueued, TabShapes
<1> HIDE DEF t
<1>4. /\ QueueInv(s, t.typed)
      /\ \A n \in DOMAIN t.msgs : t.msgs[n].id # m =>
             \E k \in DOMAIN s : s[k].id = t.msgs[n].id
  BY <1>2, WithoutQueue
<1>5. ed \in Ids
  BY <1>2 DEF Ids
<1> HIDE DEF s, ed
<1>6. t.op.phase = "cancelling" => \E n \in DOMAIN s : s[n].id = t.op.msg.id
  <2> SUFFICES ASSUME t.op.phase = "cancelling"
               PROVE  \E n \in DOMAIN s : s[n].id = t.op.msg.id
    OBVIOUS
  <2>1. t.op = tab.op
    BY <1>1 DEF NoOp
  <2>2. t.op.msg.id # m
    BY <1>3, <2>1 DEF Sending
  <2>3. PICK n \in DOMAIN t.msgs : t.msgs[n].id = t.op.msg.id
    BY <1>2 DEF JobInv, Has
  <2> QED
    BY <1>4, <2>2, <2>3
<1>7. TabInv(u) /\ Fresh(u, t)
  BY <1>1, <1>4, <1>5, <1>6, Rewritten
<1> HIDE DEF u
<1>8. TabInv(Drain(u)) /\ Fresh(Drain(u), u)
  BY <1>7, DrainStages
<1>9. Fresh(tab', t)
  BY <1>3, <1>7, <1>8, FreshTrans
<1> QED
  BY <1>1, <1>3, <1>8, <1>9, FreshTrans DEF TabStep

\* The chat is left,
LEMMA UnmountStep ==
    ASSUME TabInv(tab), Unmount
    PROVE  TabStep
<1> DEFINE t == Invalidate(tab)
           a == [t EXCEPT !.job = NoJob]
           b == [a EXCEPT !.status = "ready"]
           c == [b EXCEPT !.on = None]
           u == [c EXCEPT !.mounted = FALSE]
<1>1. TabInv(t) /\ t.op = NoOp
  BY TornTab, InvalidateStages
<1>2. t \in TabShapes /\ QueueInv(t.msgs, t.typed)
  BY <1>1 DEF TabInv, Staged, Loose
<1>3. tab' = u
  BY <1>2 DEF Unmount, TabShapes
<1> HIDE DEF t
<1>4. /\ a \in TabShapes /\ a.msgs = t.msgs /\ a.typed = t.typed /\ a.op = NoOp
      /\ a.job = NoJob
  BY <1>1, <1>2 DEF TabShapes, JobShapes
<1> HIDE DEF a
<1>5. /\ b \in TabShapes /\ b.msgs = t.msgs /\ b.typed = t.typed /\ b.op = NoOp
      /\ b.job = NoJob /\ b.status = "ready"
  BY <1>4 DEF TabShapes, Statuses
<1> HIDE DEF b
<1>6. /\ c \in TabShapes /\ c.msgs = t.msgs /\ c.typed = t.typed /\ c.op = NoOp
      /\ c.job = NoJob /\ c.status = "ready" /\ c.on = None
  BY <1>5 DEF TabShapes, OnShapes
<1> HIDE DEF c
<1>7. /\ u \in TabShapes /\ u.msgs = t.msgs /\ u.typed = t.typed /\ u.op = NoOp
      /\ u.job = NoJob /\ u.status = "ready" /\ u.on = None
  BY <1>6 DEF TabShapes
<1> HIDE DEF u
<1>8. u.op.phase = "none"
  BY <1>7 DEF NoOp
<1>9. JobInv(u) /\ Joined(u) /\ PreparingInv(u) /\ ReaderInv(u)
  BY <1>7, <1>8 DEF JobInv, Joined, PreparingInv, ReaderInv, Busy
<1> QED
  BY <1>2, <1>3, <1>7, <1>9 DEF TabStep, TabInv, Staged, Loose, Fresh

\* and opened again.
LEMMA MountStep ==
    ASSUME TabInv(tab), Mount
    PROVE  TabStep
<1> DEFINE j == Job("recover", FALSE)
           a == [tab EXCEPT !.mounted = TRUE]
           u == [a EXCEPT !.job = j]
<1>1. /\ tab \in TabShapes /\ QueueInv(tab.msgs, tab.typed)
      /\ tab.op = NoOp /\ tab.op.phase = "none"
  BY DEF TabInv, Staged, Loose, JobInv, Mount, NoOp
<1>2. tab' = Becomes(u, "ready")
  BY <1>1 DEF Mount, TabShapes
<1>3. /\ j \in JobShapes /\ j # NoJob /\ j.kind = "recover" /\ j.own = FALSE
      /\ j.pc = "ask"
  BY JobShape
<1> HIDE DEF j
<1>4. /\ a \in TabShapes /\ a.msgs = tab.msgs /\ a.typed = tab.typed
      /\ a.op = tab.op /\ a.mounted = TRUE
  BY <1>1 DEF TabShapes
<1> HIDE DEF a
<1>5. /\ u \in TabShapes /\ u.msgs = tab.msgs /\ u.typed = tab.typed
      /\ u.op = tab.op /\ u.mounted = TRUE /\ u.job = j
  BY <1>3, <1>4 DEF TabShapes
<1> HIDE DEF u
<1>6. JobInv(u) /\ Joined(u) /\ PreparingInv(u)
  BY <1>1, <1>3, <1>5 DEF JobInv, Joined, PreparingInv
<1>7. Staged(u) /\ "ready" \in Statuses
  BY <1>1, <1>5, <1>6 DEF Staged, Loose, Statuses
<1>8. TabInv(Becomes(u, "ready")) /\ Fresh(Becomes(u, "ready"), u)
  BY <1>7, BecomesStages
<1>9. Fresh(tab', tab)
  BY <1>2, <1>3, <1>5, <1>8 DEF Fresh
<1> QED
  BY <1>2, <1>8, <1>9 DEF TabStep

-----------------------------------------------------------------------------
(* The coordinator's steps.                                                *)

\* A job goes on.
LEMMA JobGoesOn ==
    ASSUME NEW t, TabInv(t), t.job # NoJob, NEW j \in JobShapes, j # NoJob,
           j.kind = t.job.kind, j.own = t.job.own,
           j.pc # "ask" => j.seen \in Answers
    PROVE  TabInv([t EXCEPT !.job = j])
<1> DEFINE u == [t EXCEPT !.job = j]
<1>1. t \in TabShapes
  BY DEF TabInv, Staged, Loose
<1>2. /\ u \in TabShapes /\ u.msgs = t.msgs /\ u.typed = t.typed /\ u.op = t.op
      /\ u.on = t.on /\ u.status = t.status /\ u.job = j /\ u.mounted = t.mounted
      /\ u.paused = t.paused /\ u.editing = t.editing
  BY <1>1 DEF TabShapes
<1> HIDE DEF u
<1>3. JobInv(u)
  BY <1>2 DEF TabInv, Staged, Loose, JobInv, Has
<1>4. Joined(u) /\ PreparingInv(u) /\ ReaderInv(u) /\ QueueInv(u.msgs, u.typed)
  BY <1>2 DEF TabInv, Staged, Loose, Joined, PreparingInv, ReaderInv, Busy
<1> QED
  BY <1>2, <1>3, <1>4 DEF TabInv, Staged, Loose, u

\* What a job has been told is an answer.
LEMMA TabFields ==
    ASSUME TabInv(tab), tab.job # NoJob
    PROVE  /\ tab \in TabShapes /\ tab.job \in JobShapes
           /\ tab.job.pc # "ask" => tab.job.seen \in Answers
  BY DEF TabInv, Staged, Loose, JobInv, TabShapes

\* The status of the chat arrives.
LEMMA ServeStatusStep ==
    ASSUME TabInv(tab), State \in Answers, ServeStatus
    PROVE  /\ TabInv(tab') /\ tab.job # NoJob
           /\ tab'.job = [[tab.job EXCEPT !.pc = "told"] EXCEPT !.seen = State]
<1> DEFINE i == [tab.job EXCEPT !.pc = "told"]
           j == [i EXCEPT !.seen = State]
<1>1. tab.job # NoJob /\ tab \in TabShapes /\ tab.job \in JobShapes
  BY TabFields DEF ServeStatus, Asking
<1>2. tab' = [tab EXCEPT !.job = j]
  BY <1>1 DEF ServeStatus, TabShapes, JobShapes, NoJob
<1>3. /\ j \in JobShapes /\ j.kind = tab.job.kind /\ j.own = tab.job.own
      /\ j.seen \in Answers
  BY <1>1 DEF JobShapes, NoJob
<1>4. j # NoJob
  BY <1>1 DEF JobShapes, NoJob
<1> HIDE DEF j
<1>5. tab'.job = j
  BY <1>1, <1>2 DEF TabShapes
<1> QED
  BY <1>1, <1>2, <1>3, <1>4, <1>5, JobGoesOn DEF j

\* A job asks again.
LEMMA AskAgainStep ==
    ASSUME TabInv(tab), tab.job # NoJob, NEW c \in Slots \cup {None},
           NEW j, j = [[[tab.job EXCEPT !.pc = "ask"] EXCEPT !.seen = None]
                           EXCEPT !.cancelled = c],
           tab' = [tab EXCEPT !.job = j]
    PROVE  TabStep
<1>1. tab \in TabShapes /\ tab.job \in JobShapes
  BY TabFields
<1>2. /\ j \in JobShapes /\ j.kind = tab.job.kind /\ j.own = tab.job.own
      /\ j.pc = "ask"
  BY <1>1 DEF JobShapes, NoJob
<1>3. j # NoJob
  BY <1>1 DEF JobShapes, NoJob
<1>4. TabInv(tab')
  BY <1>2, <1>3, JobGoesOn
<1>5. tab'.job = j
  BY <1>1 DEF TabShapes
<1> QED
  BY <1>2, <1>4, <1>5 DEF TabStep, Fresh

\* A job that was told something has an answer.
LEMMA JobTold ==
    ASSUME TabInv(tab), NEW kind \in {"prepare", "cancel", "recover"}, Told(kind)
    PROVE  tab.job # NoJob /\ tab.job.kind = kind /\ tab.job.seen \in Answers
<1>1. tab.job # NoJob /\ tab.job.pc # "ask"
  BY DEF Told, NoJob
<1> QED
  BY <1>1, TabFields DEF Told

\* A preparation ends: only what was prepared is submitted.
LEMMA AdmittedStep ==
    ASSUME TabInv(tab), Admitted
    PROVE  TabStep /\ net' \subseteq net \cup (ToSet(Typed) \cap {tab.op.msg.id})
<1> DEFINE t == IF tab.job.seen.exists THEN Settled(tab) ELSE tab
<1>1. tab.job # NoJob /\ tab.job.kind = "prepare"
  BY JobTold DEF Admitted
<1>2. tab.op.phase = "preparing"
  BY <1>1 DEF TabInv, Staged, Loose, JobInv
<1>3. Calm(t, tab)
  BY StopCalm DEF Calm, Fresh, SameQueue
<1>4. \/ tab' = Send(t) /\ net' = net \cup {tab.op.msg.id}
      \/ tab' = Pause(t) /\ net' = net
  BY DEF Admitted
<1> HIDE DEF t
<1>5. TabInv(t) /\ Fresh(t, tab) /\ t.job = tab.job /\ t.op = tab.op
  BY <1>1, <1>2, <1>3 DEF Calm
<1>6. TabInv(Send(t)) /\ Fresh(Send(t), t) /\ tab.op.msg.id \in ToSet(Typed)
  BY <1>1, <1>2, <1>5, SendStages
<1>7. TabInv(Pause(t)) /\ Fresh(Pause(t), t)
  BY <1>5, TornTab, PauseStages
<1> QED
  BY <1>4, <1>5, <1>6, <1>7, FreshTrans DEF TabStep

\* A cancellation ends, for the queue or for the user.
LEMMA CancelledStep ==
    ASSUME TabInv(tab), Cancelled
    PROVE  TabStep
<1> DEFINE t == IF tab.job.seen.exists THEN Settled(tab) ELSE Stopped(tab)
<1>1. tab.job # NoJob /\ tab.job.kind = "cancel"
  BY JobTold DEF Cancelled
<1>2. Calm(t, tab)
  BY StopCalm
<1>3. tab' = IF tab.job.own THEN Promote(t) ELSE EndJob(t)
  BY DEF Cancelled
<1> HIDE DEF t
<1>4. TabInv(t) /\ Fresh(t, tab) /\ t.job = tab.job
  BY <1>1, <1>2 DEF Calm
<1>5. CASE tab.job.own
  <2>1. t.op.phase = "cancelling"
    BY <1>1, <1>4, <1>5 DEF TabInv, Staged, Loose, JobInv
  <2>2. TabInv(Promote(t)) /\ Fresh(Promote(t), t)
    BY <1>4, <2>1, PromoteStages
  <2> QED
    BY <1>3, <1>4, <1>5, <2>2, FreshTrans DEF TabStep
<1>6. CASE ~tab.job.own
  <2>1. TabInv(EndJob(t)) /\ Fresh(EndJob(t), t)
    BY <1>1, <1>4, <1>6, EndJobStages
  <2> QED
    BY <1>3, <1>4, <1>6, <2>1, FreshTrans DEF TabStep
<1> QED
  BY <1>5, <1>6

\* A recovery ends.
LEMMA RecoveredStep ==
    ASSUME TabInv(tab), Recovered
    PROVE  TabStep
<1> DEFINE t == IF tab.job.seen.exists THEN Settled(tab) ELSE tab
<1>1. tab.job # NoJob /\ tab.job.kind = "recover"
  BY JobTold DEF Recovered
<1>2. Calm(t, tab)
  BY StopCalm DEF Calm, Fresh, SameQueue
<1>3. tab' = EndJob(t)
  BY DEF Recovered
<1> HIDE DEF t
<1>4. TabInv(t) /\ Fresh(t, tab) /\ t.job = tab.job
  BY <1>1, <1>2 DEF Calm
<1>5. ~t.job.own
  BY <1>1, <1>4 DEF TabInv, Staged, Loose, JobInv
<1>6. TabInv(EndJob(t)) /\ Fresh(EndJob(t), t)
  BY <1>1, <1>4, <1>5, EndJobStages
<1> QED
  BY <1>3, <1>4, <1>6, FreshTrans DEF TabStep

\* A cancellation is posted; what was seen is kept.
LEMMA PostCancelStep ==
    ASSUME TabInv(tab), PostCancel
    PROVE  /\ TabInv(tab') /\ tab.job # NoJob /\ tab.job.pc # "ask"
           /\ tab'.job = [tab.job EXCEPT !.pc = "posted"]
           /\ tab'.job.seen = tab.job.seen
<1> DEFINE j == [tab.job EXCEPT !.pc = "posted"]
<1>1. tab.job # NoJob /\ tab.job.seen \in Answers /\ tab.job.pc = "told"
  BY JobTold DEF PostCancel, Told
<1>2. tab \in TabShapes /\ tab.job \in JobShapes
  BY <1>1, TabFields
<1>3. tab' = [tab EXCEPT !.job = j]
  BY <1>2 DEF PostCancel, TabShapes
<1>4. /\ j \in JobShapes /\ j.kind = tab.job.kind /\ j.own = tab.job.own
      /\ j.seen = tab.job.seen /\ j # NoJob
  BY <1>1, <1>2 DEF JobShapes, NoJob
<1> HIDE DEF j
<1>5. tab'.job = j
  BY <1>2, <1>3 DEF TabShapes
<1>6. TabInv(tab')
  BY <1>1, <1>3, <1>4, JobGoesOn
<1> QED
  BY <1>1, <1>4, <1>5, <1>6 DEF j

\* It is answered, and the job asks again.
LEMMA CancelServedStep ==
    ASSUME TabInv(tab), CancelServed
    PROVE  TabStep
<1> DEFINE c == tab.job.seen.active
           j == [[[tab.job EXCEPT !.pc = "ask"] EXCEPT !.seen = None]
                     EXCEPT !.cancelled = c]
<1>1. tab.job # NoJob /\ tab.job.pc # "ask"
  BY DEF CancelServed
<1>2. tab \in TabShapes /\ tab.job \in JobShapes /\ tab.job.seen \in Answers
  BY <1>1, TabFields
<1>3. c \in Slots \cup {None}
  BY <1>2 DEF Answers
<1>4. tab' = [tab EXCEPT !.job = j]
  BY <1>1, <1>2 DEF CancelServed, TabShapes, JobShapes, NoJob
<1> QED
  BY <1>1, <1>3, <1>4, AskAgainStep

\* A job asks again after a while.
LEMMA AskedAgainStep ==
    ASSUME TabInv(tab), AskAgain
    PROVE  TabStep
<1> DEFINE c == tab.job.cancelled
           j == [[[tab.job EXCEPT !.pc = "ask"] EXCEPT !.seen = None]
                     EXCEPT !.cancelled = c]
<1>1. tab.job # NoJob
  BY JobTold DEF AskAgain
<1>2. tab \in TabShapes /\ tab.job \in JobShapes
  BY <1>1, TabFields
<1>3. c \in Slots \cup {None}
  BY <1>1, <1>2 DEF JobShapes, NoJob
<1>4. tab' = [tab EXCEPT !.job = j]
  BY <1>1, <1>2 DEF AskAgain, TabShapes, JobShapes, NoJob
<1> QED
  BY <1>1, <1>3, <1>4, AskAgainStep

\* The reader is replaced by one that resumes; the job that does it stays.
LEMMA ResumedStages ==
    ASSUME TabInv(tab), tab.job # NoJob, tab.job.kind = "recover"
    PROVE  TabInv(Resumed(tab)) /\ Resumed(tab).job = tab.job
<1> DEFINE s == Settled(tab)
           g == [at |-> "get"]
           t == [s EXCEPT !.on = g]
           u == Becomes(t, "submitted")
<1>1. Resumed(tab) = u
  BY DEF Resumed
<1>2. TabInv(s) /\ s.job = tab.job
  BY StopCalm DEF Calm
<1>3. g \in OnShapes /\ g # None
  <2>1. g \in Readings
    BY DEF Readings
  <2> QED
    BY <2>1, ChatTabAssumption DEF OnShapes
<1> HIDE DEF s, g
<1>4. s \in TabShapes
  BY <1>2 DEF TabInv, Staged, Loose
<1>5. /\ t \in TabShapes /\ t.msgs = s.msgs /\ t.typed = s.typed /\ t.op = s.op
      /\ t.on = g /\ t.job = s.job /\ t.mounted = s.mounted
      /\ t.paused = s.paused /\ t.editing = s.editing
  BY <1>3, <1>4 DEF TabShapes
<1> HIDE DEF t
<1>6. JobInv(t) /\ Joined(t) /\ PreparingInv(t) /\ QueueInv(t.msgs, t.typed)
  BY <1>2, <1>5 DEF TabInv, Staged, Loose, Joined, PreparingInv, JobInv, Has
<1>7. Staged(t) /\ "submitted" \in Statuses
  BY <1>5, <1>6 DEF Staged, Loose, Statuses
<1> QED
  BY <1>1, <1>2, <1>3, <1>5, <1>7, BecomesStages

\* It is resumed once.
LEMMA ResumeReaderStep ==
    ASSUME TabInv(tab), ResumeReader
    PROVE  TabStep
<1> DEFINE u == Resumed(tab)
           i == [u.job EXCEPT !.resumed = TRUE]
           k == [i EXCEPT !.pc = "ask"]
           j == [k EXCEPT !.seen = None]
<1>1. tab.job # NoJob /\ tab.job.kind = "recover"
  BY JobTold DEF ResumeReader
<1>2. tab' = [u EXCEPT !.job.resumed = TRUE, !.job.pc = "ask", !.job.seen = None]
  BY DEF ResumeReader
<1>3. TabInv(u) /\ u.job = tab.job
  BY <1>1, ResumedStages
<1> HIDE DEF u
<1>4. u \in TabShapes /\ u.job \in JobShapes /\ u.job # NoJob
  BY <1>1, <1>3 DEF TabInv, Staged, Loose, TabShapes
<1>5. tab' = [u EXCEPT !.job = j]
  BY <1>2, <1>4 DEF TabShapes, JobShapes, NoJob
<1>6. /\ i \in JobShapes /\ i.kind = u.job.kind /\ i.own = u.job.own
      /\ i # NoJob
  BY <1>4 DEF JobShapes, NoJob
<1> HIDE DEF i
<1>7. /\ j \in JobShapes /\ j.kind = u.job.kind /\ j.own = u.job.own
      /\ j.pc = "ask" /\ j # NoJob
  BY <1>6 DEF JobShapes, NoJob
<1> HIDE DEF j
<1>8. TabInv(tab')
  BY <1>3, <1>4, <1>5, <1>7, JobGoesOn
<1>9. tab'.job = j
  BY <1>4, <1>5 DEF TabShapes
<1> QED
  BY <1>7, <1>8, <1>9 DEF TabStep, Fresh

\* A recovery ends in a hidden tab.
LEMMA EndInBackgroundStep ==
    ASSUME TabInv(tab), EndInBackground
    PROVE  TabStep
<1> DEFINE t == IF tab.job.resumed THEN tab ELSE Resumed(tab)
<1>1. tab.job # NoJob /\ tab.job.kind = "recover"
  BY JobTold DEF EndInBackground
<1>2. TabInv(t) /\ t.job = tab.job
  BY <1>1, ResumedStages
<1>3. tab' = EndJob(t)
  BY DEF EndInBackground
<1> HIDE DEF t
<1>4. ~t.job.own
  BY <1>1, <1>2 DEF TabInv, Staged, Loose, JobInv
<1>5. TabInv(EndJob(t)) /\ Fresh(EndJob(t), t)
  BY <1>1, <1>2, <1>4, EndJobStages
<1>6. Fresh(t, tab)
  BY <1>2 DEF Fresh
<1> QED
  BY <1>3, <1>5, <1>6, FreshTrans DEF TabStep

\* A job fails, and the queue with it if it waits for the job.
LEMMA JobFailsStep ==
    ASSUME TabInv(tab), JobFails
    PROVE  TabStep
<1> DEFINE u == [tab EXCEPT !.job = NoJob]
<1>1. tab.job # NoJob
  BY DEF JobFails
<1>2. CASE tab.job.own \/ tab.op.phase = "preparing"
  BY <1>2, BrokenStages DEF JobFails, TabStep
<1>3. CASE ~(tab.job.own \/ tab.op.phase = "preparing")
  <2>1. tab' = u /\ tab \in TabShapes
    BY <1>1, <1>3, TabFields DEF JobFails
  <2>2. /\ u \in TabShapes /\ u.msgs = tab.msgs /\ u.typed = tab.typed
        /\ u.op = tab.op /\ u.on = tab.on /\ u.job = NoJob /\ u.status = tab.status
    BY <2>1 DEF TabShapes, JobShapes
  <2> HIDE DEF u
  <2>3. tab.op.phase # "cancelling"
    BY <1>3 DEF TabInv, Staged, Loose, JobInv
  <2>4. u.mounted = tab.mounted
    BY <2>1 DEF u, TabShapes
  <2>5. JobInv(u) /\ Joined(u) /\ PreparingInv(u)
    BY <1>3, <2>2, <2>3, <2>4 DEF TabInv, Staged, Loose, JobInv, Joined, PreparingInv
  <2>6. ReaderInv(u) /\ QueueInv(u.msgs, u.typed)
    BY <2>2 DEF TabInv, Staged, Loose, ReaderInv, Busy
  <2> QED
    BY <2>1, <2>2, <2>5, <2>6 DEF TabStep, TabInv, Staged, Loose, Fresh
<1> QED
  BY <1>2, <1>3

\* A cancellation is aborted after 30 seconds.
LEMMA TimesOutStep ==
    ASSUME TabInv(tab), TimesOut
    PROVE  TabStep
<1>1. tab.job # NoJob
  BY DEF TimesOut, NoJob
<1>2. CASE tab.job.own
  BY <1>2, BrokenStages DEF TimesOut, TabStep
<1>3. CASE ~tab.job.own
  BY <1>1, <1>3, EndJobStages DEF TimesOut, TabStep
<1> QED
  BY <1>2, <1>3

-----------------------------------------------------------------------------
(* The reader's steps.                                                     *)

LEMMA ReaderOver ==
    ASSUME TabInv(tab), NEW status \in {"ready", "error"},
           tab' = Becomes(tab, status)
    PROVE  TabStep
<1>1. Staged(tab) /\ status \in Statuses
  BY DEF TabInv, Statuses
<1> QED
  BY <1>1, BecomesStages DEF TabStep

\* The reader reads a stream.
LEMMA ReaderAttached ==
    ASSUME TabInv(tab), NEW i \in Slots,
           tab' = Becomes([tab EXCEPT !.on = [at |-> "stream", slot |-> i]],
                          "streaming")
    PROVE  TabStep
<1> DEFINE g == [at |-> "stream", slot |-> i]
           t == [tab EXCEPT !.on = g]
<1>1. g \in OnShapes /\ g # None
  <2>1. g \in Readings
    BY DEF Readings
  <2> QED
    BY <2>1, ChatTabAssumption DEF OnShapes
<1>2. tab' = Becomes(t, "streaming") /\ tab \in TabShapes
  BY DEF TabInv, Staged, Loose
<1> HIDE DEF g
<1>3. /\ t \in TabShapes /\ t.msgs = tab.msgs /\ t.typed = tab.typed
      /\ t.op = tab.op /\ t.on = g /\ t.job = tab.job /\ t.mounted = tab.mounted
      /\ t.paused = tab.paused /\ t.editing = tab.editing
  BY <1>1, <1>2 DEF TabShapes
<1> HIDE DEF t
<1>4. JobInv(t) /\ Joined(t) /\ PreparingInv(t) /\ QueueInv(t.msgs, t.typed)
  BY <1>3 DEF TabInv, Staged, Loose, Joined, PreparingInv, JobInv, Has
<1>5. Staged(t) /\ "streaming" \in Statuses
  BY <1>3, <1>4 DEF Staged, Loose, Statuses
<1>6. TabInv(Becomes(t, "streaming")) /\ Fresh(Becomes(t, "streaming"), t)
  BY <1>1, <1>3, <1>5, BecomesStages
<1>7. Fresh(t, tab)
  BY <1>3 DEF Fresh
<1> QED
  BY <1>2, <1>6, <1>7, FreshTrans DEF TabStep

\* Whatever the reader gets, or a broken connection.
LEMMA ReadStep ==
    ASSUME TInv, TabInv(tab), Read \/ Drop
    PROVE  TabStep
<1>1. CASE Opened
  <2> DEFINE H == Handlers(tab.on.req)
             i == CHOOSE x \in H : \A j \in H : x <= j
  <2>1. H \subseteq Slots /\ H # {}
    BY <1>1 DEF Opened, Handlers
  <2>2. i \in Slots
    <3> HIDE DEF H
    <3>1. H \subseteq Nat
      BY <2>1, SlotsNat
    <3>2. \E x \in H : \A j \in H : x <= j
      BY <2>1, <3>1, Least
    <3>3. i \in H
      BY <3>2
    <3> QED
      BY <2>1, <3>3
  <2>3. \/ tab' = Becomes([tab EXCEPT !.on = [at |-> "stream", slot |-> i]],
                          "streaming")
        \/ tab' = Becomes(tab, "error")
    BY <1>1 DEF Opened
  <2> HIDE DEF i
  <2> QED
    BY <2>2, <2>3, ReaderOver, ReaderAttached
<1>2. CASE Unanswered
  BY <1>2, ReaderOver DEF Unanswered
<1>3. CASE Ended
  <2>1. PICK status \in {"ready", "error"} : tab' = Becomes(tab, status)
    BY <1>3 DEF Ended
  <2> QED
    BY <2>1, ReaderOver
<1>4. CASE Reattached
  <2>1. active \in Slots
    BY <1>4 DEF Reattached, TInv, TypeInv
  <2> QED
    BY <1>4, <2>1, ReaderAttached DEF Reattached
<1>5. CASE NoStream
  BY <1>5, ReaderOver DEF NoStream
<1>6. CASE Drop
  BY <1>6, ReaderOver DEF Drop
<1> QED
  BY <1>1, <1>2, <1>3, <1>4, <1>5, <1>6 DEF Read

-----------------------------------------------------------------------------
(* The server's steps.                                                     *)

\* The row started last, and the voice lease.
ServerInv ==
    /\ newest \in Slots \cup {None}
    /\ newest # None => gen[newest] # "none"
    /\ lease \in [holder : Speech \cup {None}, live : BOOLEAN]

\* The row of a turn that is over, or has lost the chat, stays as it is.
RowsStand ==
    \A k \in Slots :
        gen[k] # "none" /\ active # k => gen'[k] = gen[k] /\ active' # k

\* A turn that completes writes its own row only.
LEMMA CompleteRows ==
    ASSUME TInv, ServerInv, NEW i \in Slots, NEW status \in Outcomes,
           NEW answer \in BOOLEAN, Complete(i, status, answer), UNCHANGED lease
    PROVE  ServerInv' /\ RowsStand
<1>1. gen \in [Slots -> {"none", "running"} \cup Outcomes]
  BY DEF TInv, TypeInv
<1>2. CASE active # i
  BY <1>2 DEF Complete, chat, ServerInv, RowsStand
<1>3. CASE active = i
  <2>1. /\ active' = None /\ newest' = newest
        /\ gen' = [gen EXCEPT ![i] = IF @ = "running" THEN status ELSE @]
    BY <1>3 DEF Complete
  <2>2. \A k \in Slots : gen[k] # "none" => gen'[k] # "none"
    BY <1>1, <2>1 DEF Outcomes
  <2>3. \A k \in Slots : k # i => gen'[k] = gen[k]
    BY <1>1, <2>1
  <2> QED
    BY <1>3, <2>1, <2>2, <2>3, NoneApart DEF ServerInv, RowsStand
<1> QED
  BY <1>2, <1>3

\* Every step of the turns keeps the last row, the lease and finished rows.
LEMMA ServerStep ==
    ASSUME TInv, ServerInv, [TurnsNext]_turns
    PROVE  ServerInv' /\ RowsStand
<1>1. /\ gen \in [Slots -> {"none", "running"} \cup Outcomes]
      /\ active \in Slots \cup {None}
  BY DEF TInv, TypeInv
<1>2. ASSUME UNCHANGED chat, UNCHANGED lease
      PROVE  ServerInv' /\ RowsStand
  BY <1>2 DEF chat, ServerInv, RowsStand
<1>3. ASSUME NEW i \in Slots, Claim(i)
      PROVE  ServerInv' /\ RowsStand
  <2>1. gen[i] = "none"
    BY <1>3 DEF Claim, TInv, HandlerInv
  <2>2. /\ gen' = [gen EXCEPT ![i] = "running"] /\ newest' = i /\ active' = i
        /\ lease' = lease
    BY <1>3 DEF Claim
  <2>3. gen'[i] = "running" /\ \A k \in Slots : k # i => gen'[k] = gen[k]
    BY <1>1, <2>2
  <2> QED
    BY <2>1, <2>2, <2>3 DEF ServerInv, RowsStand
<1>4. ASSUME NEW i \in Slots, NEW status \in Outcomes, NEW answer \in BOOLEAN,
             Finish(i, status, answer)
      PROVE  ServerInv' /\ RowsStand
  BY <1>4, CompleteRows DEF Finish
<1>5. ASSUME NEW i \in Slots, NEW freed \in BOOLEAN, FinishUnsaved(i, freed)
      PROVE  ServerInv' /\ RowsStand
  <2>1. /\ UNCHANGED <<gen, newest, lease>> /\ (active' = None \/ active' = active)
    BY <1>5 DEF FinishUnsaved
  <2> QED
    BY <2>1, NoneApart DEF ServerInv, RowsStand
<1>6. CASE Cancel
  <2>1. active \in Slots /\ lease' = lease
    BY <1>1, <1>6 DEF Cancel
  <2>2. CASE UNCHANGED chat
    BY <1>2, <2>1, <2>2
  <2>3. CASE Complete(active, "aborted", FALSE)
    BY <2>1, <2>3, CompleteRows DEF Outcomes
  <2> QED
    BY <1>6, <2>2, <2>3 DEF Cancel
<1>7. CASE Resume
  <2>1. active \in Slots /\ Complete(active, "error", FALSE) /\ lease' = lease
    BY <1>1, <1>7 DEF Resume, Orphan
  <2> QED
    BY <2>1, CompleteRows DEF Outcomes
<1>8. ASSUME UNCHANGED chat, lease' \in [holder : Speech \cup {None}, live : BOOLEAN]
      PROVE  ServerInv' /\ RowsStand
  BY <1>8 DEF chat, ServerInv, RowsStand
<1>9. ASSUME NEW c \in Speech, ClaimVoice(c)
      PROVE  ServerInv' /\ RowsStand
  BY <1>8, <1>9 DEF ClaimVoice, chat
<1>10. ASSUME NEW c \in Speech, EndVoice(c)
       PROVE  ServerInv' /\ RowsStand
  BY <1>8, <1>10 DEF EndVoice, NoLease
<1>11. CASE Expire
  <2>1. lease' \in [holder : Speech \cup {None}, live : BOOLEAN]
    BY <1>11 DEF Expire, ServerInv
  <2> QED
    BY <1>8, <1>11, <2>1 DEF Expire, chat
<1>12. CASE UNCHANGED turns
  BY <1>2, <1>12 DEF turns
<1>13. ASSUME NEW i \in Slots, NEW r \in Requests, NEW plan \in Plans(r),
              Receive(i, r, plan)
       PROVE  ServerInv' /\ RowsStand
  BY <1>2, <1>13 DEF Receive
<1>14. ASSUME NEW i \in Slots, Refuse(i)
       PROVE  ServerInv' /\ RowsStand
  BY <1>2, <1>14 DEF Refuse
<1>15. CASE Crash
  BY <1>2, <1>15 DEF Crash
<1>16. ASSUME NEW c \in Speech, NEW i \in Slots, Interrupt(c, i) \/ Unleased(c, i)
       PROVE  ServerInv' /\ RowsStand
  BY <1>2, <1>16 DEF Interrupt, Unleased
<1> QED
  BY <1>3, <1>4, <1>5, <1>6, <1>7, <1>9, <1>10, <1>11, <1>12, <1>13, <1>14,
     <1>15, <1>16 DEF TurnsNext

-----------------------------------------------------------------------------
(* The tab and the server together.                                        *)

\* What a job has been told of the last turn when none was under way still
\* is true of that turn.
SeenInv ==
    LET j == tab.job
    IN  j # NoJob /\ j.pc # "ask" /\ j.seen.exists /\ j.seen.active = None =>
            /\ j.seen.last \in Slots /\ active # j.seen.last
            /\ gen[j.seen.last] = j.seen.status /\ gen[j.seen.last] # "none"

CInv == /\ TInv /\ ServerInv /\ TabInv(tab) /\ SeenInv
        /\ net \subseteq ToSet(Typed)

\* The chat begins well.
LEMMA ChatInit == Init => TurnsInit /\ CInv
<1> SUFFICES ASSUME Init PROVE CInv
  BY DEF Init
<1>1. TInv /\ ServerInv
  BY TurnsInitInv DEF Init, TurnsInit, ServerInv, NoLease
<1>2. /\ tab.msgs = <<>> /\ tab.op = NoOp /\ tab.job = NoJob /\ tab.mounted
      /\ tab.status = "ready" /\ tab.on = None /\ tab.typed = 0
  BY DEF Init
<1>3. tab \in TabShapes
  BY DEF Init, TabShapes, Ids, OpShapes, Statuses, OnShapes, JobShapes
<1>4. QueueInv(tab.msgs, tab.typed)
  <2>1. <<>> \in Seq(Queued) /\ DOMAIN <<>> = {} /\ Len(Typed) \in Nat
    BY TypedOK
  <2> QED
    BY <1>2, <2>1 DEF QueueInv
<1>5. tab.op.phase = "none"
  BY <1>2 DEF NoOp
<1>6. PreparingInv(tab) /\ JobInv(tab) /\ Joined(tab) /\ ReaderInv(tab)
  BY <1>2, <1>5 DEF PreparingInv, JobInv, Joined, ReaderInv, Busy
<1>7. SeenInv
  BY <1>2 DEF SeenInv
<1> QED
  BY <1>1, <1>3, <1>4, <1>6, <1>7 DEF CInv, TabInv, Staged, Loose, Init

\* Whatever the tab, other tabs and voice connections do is, for the turns of
\* the chat, a step of ChatTurn or none.
LEMMA StepOfTurns ==
    ASSUME CInv, Next
    PROVE  [TurnsNext]_turns
<1>1. CASE UserActs \/ EndInBackground \/ JobFails \/ TimesOut \/ Drop
  BY <1>1 DEF UserActs, Enqueue, Stop, CancelEdit, Save, Reconcile, Unmount,
     Mount, SendNow, Edit, RemoveQueued, EndInBackground, JobFails, TimesOut,
     Drop, Unseen
<1>2. CASE Poll
  <2>1. CASE CancelServed
    BY <2>1 DEF CancelServed, TurnsNext
  <2> QED
    BY <1>2, <2>1 DEF Poll, ServeStatus, Admitted, Cancelled, PostCancel,
       Recovered, ResumeReader, AskAgain
<1>3. CASE Read
  <2>1. CASE NoStream
    BY <2>1 DEF NoStream, TurnsNext
  <2> QED
    BY <1>3, <2>1 DEF Read, Opened, Unanswered, Ended, Reattached
<1>4. ASSUME NEW i \in Slots, NEW r \in Requests, NEW plan \in Plans(r),
             Receive(i, r, plan)
      PROVE  TurnsNext
  BY <1>4 DEF TurnsNext
<1>5. \A r : Plan(None, r, None) \in Plans(r)
  BY DEF Plans
<1>6. CASE Arrive
  <2>1. PICK i \in Slots, m \in net : Receive(i, m, Plan(None, m, None))
    BY <1>6 DEF Arrive
  <2>2. m \in Requests
    BY TypedOK DEF CInv, Requests
  <2> QED
    BY <1>4, <1>5, <2>1, <2>2
<1>7. CASE RivalPosts
  <2>1. PICK i \in Slots, r \in Rivals : \E plan \in Plans(r) : Receive(i, r, plan)
    BY <1>7 DEF RivalPosts
  <2>2. r \in Requests
    BY ChatTabAssumption DEF Requests
  <2> QED
    BY <1>4, <2>1, <2>2
<1>8. CASE VoicePosts
  <2>1. PICK i \in Slots, c \in Speech : Receive(i, c, Plan(None, c, None))
    BY <1>8 DEF VoicePosts
  <2>2. c \in Requests
    BY DEF Requests
  <2> QED
    BY <1>4, <1>5, <2>1, <2>2
<1>9. CASE Voice
  BY <1>9 DEF Voice, TurnsNext
<1>10. CASE Serve
  <2>1. PICK i \in Slots :
            \/ Claim(i) \/ Refuse(i)
            \/ Finish(i, "complete", TRUE)
            \/ \E answer \in BOOLEAN : Finish(i, "aborted", answer)
    BY <1>10 DEF Serve
  <2> QED
    BY <2>1 DEF TurnsNext, Outcomes
<1>11. CASE ServeFails
  <2>1. PICK i \in Slots :
            Refuse(i) \/ \E answer \in BOOLEAN : Finish(i, "error", answer)
    BY <1>11 DEF ServeFails
  <2> QED
    BY <2>1 DEF TurnsNext, Outcomes
<1>12. CASE SaveFails
  BY <1>12 DEF SaveFails, TurnsNext
<1>13. CASE StrayServed
  BY <1>13 DEF StrayServed, TurnsNext
<1>14. CASE ServerCrash
  BY <1>14 DEF ServerCrash, TurnsNext
<1> QED
  BY <1>1, <1>2, <1>3, <1>6, <1>7, <1>8, <1>9, <1>10, <1>11, <1>12, <1>13, <1>14
     DEF Next

\* What the tab submits it has typed, and only a preparation submits.
Submits ==
    \/ net' \subseteq net
    \/ Admitted /\ net' \subseteq net \cup (ToSet(Typed) \cap {tab.op.msg.id})

\* The tab and its jobs.
LEMMA StepOfTab ==
    ASSUME CInv, Next
    PROVE  /\ TabInv(tab') /\ Submits
           /\ TabStep \/ ServeStatus \/ PostCancel
<1>1. TabInv(tab) /\ TInv
  BY DEF CInv
<1>2. CASE UserActs
  <2>1. net' = net
    BY <1>2 DEF UserActs, Enqueue, Stop, CancelEdit, Save, Reconcile, Unmount,
       Mount, SendNow, Edit, RemoveQueued, Unseen
  <2>2. TabStep
    BY <1>1, <1>2, EnqueueStep, StopStep, CancelEditStep, SaveStep,
       ReconcileStep, UnmountStep, MountStep, SendNowStep, EditStep,
       RemoveQueuedStep DEF UserActs
  <2> QED
    BY <2>1, <2>2 DEF TabStep, Submits
<1>3. CASE Poll
  <2>1. CASE ServeStatus
    <3>1. State \in Answers
      <4>1. /\ gen \in [Slots -> {"none", "running"} \cup Outcomes]
            /\ active \in Slots \cup {None} /\ newest \in Slots \cup {None}
        BY DEF CInv, TInv, TypeInv, ServerInv
      <4> DEFINE st == IF active # None THEN "running"
                       ELSE IF newest # None THEN gen[newest] ELSE "idle"
      <4>2. st \in {"idle", "none", "running"} \cup Outcomes
        BY <4>1
      <4> DEFINE ex == newest # None
      <4>3. ex \in BOOLEAN
        OBVIOUS
      <4>4. State = [exists |-> ex, active |-> active, last |-> newest, status |-> st]
        BY DEF State
      <4> HIDE DEF st, ex
      <4> QED
        BY <4>1, <4>2, <4>3, <4>4 DEF Answers
    <3>2. TabInv(tab')
      BY <1>1, <2>1, <3>1, ServeStatusStep
    <3> QED
      BY <2>1, <3>2 DEF ServeStatus, Submits
  <2>2. CASE PostCancel
    BY <1>1, <2>2, PostCancelStep DEF PostCancel, Submits
  <2>3. CASE Admitted
    BY <1>1, <2>3, AdmittedStep DEF TabStep, Submits
  <2>4. CASE Cancelled \/ CancelServed \/ Recovered \/ ResumeReader \/ AskAgain
    <3>1. net' = net
      BY <2>4 DEF Cancelled, CancelServed, Recovered, ResumeReader, AskAgain
    <3>2. TabStep
      BY <1>1, <2>4, CancelledStep, CancelServedStep, RecoveredStep,
         ResumeReaderStep, AskedAgainStep
    <3> QED
      BY <3>1, <3>2 DEF TabStep, Submits
  <2> QED
    BY <1>3, <2>1, <2>2, <2>3, <2>4 DEF Poll
<1>4. CASE EndInBackground \/ JobFails \/ TimesOut
  <2>1. net' = net
    BY <1>4 DEF EndInBackground, JobFails, TimesOut
  <2> QED
    BY <1>1, <1>4, <2>1, EndInBackgroundStep, JobFailsStep, TimesOutStep
       DEF TabStep, Submits
<1>5. CASE Read \/ Drop
  <2>1. net' \subseteq net
    BY <1>5 DEF Read, Drop, Opened, Unanswered, Ended, Reattached, NoStream
  <2> QED
    BY <1>1, <1>5, <2>1, ReadStep DEF TabStep, Submits
<1>6. ASSUME UNCHANGED tab, net' \subseteq net
      PROVE  TabStep /\ Submits
  BY <1>1, <1>6 DEF TabStep, Fresh, Submits
<1>7. CASE Arrive
  BY <1>6, <1>7 DEF Arrive, TabStep
<1>8. CASE RivalPosts \/ VoicePosts \/ Voice \/ Serve \/ ServeFails \/ SaveFails
           \/ StrayServed \/ ServerCrash
  BY <1>6, <1>8 DEF RivalPosts, VoicePosts, Voice, Serve, ServeFails, SaveFails,
     StrayServed, ServerCrash, Outside, TabStep
<1> QED
  BY <1>2, <1>3, <1>4, <1>5, <1>7, <1>8 DEF Next

\* Every step keeps the invariant and is one of the turns, or none.
LEMMA ChatStep ==
    ASSUME CInv, [Next]_vars
    PROVE  CInv' /\ [TurnsNext]_turns
<1>1. CASE UNCHANGED vars
  <2>1. UNCHANGED turns /\ UNCHANGED tab /\ UNCHANGED net
    BY <1>1 DEF vars
  <2>2. TInv' /\ ServerInv'
    BY <2>1, Step, ServerStep DEF CInv
  <2> QED
    BY <2>1, <2>2 DEF CInv, SeenInv, turns, chat
<1>2. CASE Next
  <2>1. [TurnsNext]_turns
    BY <1>2, StepOfTurns
  <2>2. TInv' /\ ServerInv' /\ RowsStand
    BY <2>1, Step, ServerStep DEF CInv
  <2>3. /\ TabInv(tab') /\ Submits
        /\ TabStep \/ ServeStatus \/ PostCancel
    BY <1>2, StepOfTab
  <2>4. net' \subseteq ToSet(Typed)
    BY <2>3 DEF CInv, Submits
  <2>5. SeenInv'
    <3>1. CASE TabStep
      BY <2>2, <3>1 DEF CInv, TabStep, Fresh, SeenInv, RowsStand
    <3>2. CASE PostCancel
      <4>1. /\ tab.job # NoJob /\ tab.job.pc # "ask"
            /\ tab'.job.seen = tab.job.seen
        BY <3>2, PostCancelStep DEF CInv
      <4> QED
        BY <2>2, <4>1 DEF CInv, SeenInv, RowsStand
    <3>3. CASE ServeStatus
      <4>1. /\ tab.job \in JobShapes /\ tab.job # NoJob
            /\ UNCHANGED <<active, gen, newest>>
            /\ tab' = [tab EXCEPT !.job.pc = "told", !.job.seen = State]
            /\ tab \in TabShapes
        BY <3>3, TabFields DEF CInv, ServeStatus, Asking, turns, chat
      <4>2. tab'.job.seen = State
        BY <4>1 DEF TabShapes, JobShapes, NoJob
      <4>3. State.exists /\ State.active = None =>
                /\ State.last \in Slots /\ active # State.last
                /\ gen[State.last] = State.status /\ gen[State.last] # "none"
        BY NoneApart DEF State, CInv, ServerInv
      <4> QED
        BY <4>1, <4>2, <4>3 DEF SeenInv
    <3> QED
      BY <2>3, <3>1, <3>2, <3>3
  <2> QED
    BY <2>1, <2>2, <2>3, <2>4, <2>5 DEF CInv
<1> QED
  BY <1>1, <1>2

-----------------------------------------------------------------------------
(* The theorems about the chat opened in a tab.                            *)

\* The inductive invariant of the chat: what the queue (chat-queue.ts), the
\* coordinator (chat-generation.ts) and the reader are doing fits together,
\* and what the tab was told of a turn that is over remains true.
THEOREM ChatInvariance == Spec => []CInv
<1>1. Init => CInv
  BY ChatInit
<1>2. CInv /\ [Next]_vars => CInv'
  BY ChatStep
<1> QED
  BY <1>1, <1>2, PTL DEF Spec

\* Whatever the tab does, together with other tabs and voice connections, the
\* server's turns behave as ChatTurn says: what is proved of ChatTurn holds
\* of the whole chat.
THEOREM ChatIsTurns == Spec => TurnsSpec
<1>1. Init => TurnsInit
  BY ChatInit
<1>2. CInv /\ [Next]_vars => [TurnsNext]_turns
  BY ChatStep
<1> QED
  BY ChatInvariance, <1>1, <1>2, PTL DEF Spec, TurnsSpec

\* A preparation has a job to wait for, a cancellation has its own, a send()
\* has a reader, and a chat that is left does nothing.
THEOREM ChatTypes == Spec => []TypeOK
<1>1. ASSUME CInv PROVE TypeOK
  <2>1. TurnsOK
    <3>1. \A i \in Slots : handlers[i] # Free => handlers[i] \in HandlerShapes
      BY <1>1 DEF CInv, TInv, TypeInv
    <3>2. \A i \in Slots : handlers[i] # Free =>
              /\ handlers[i].phase \in {"setup", "live", "done", "refused", "lost"}
              /\ handlers[i].req \in Requests /\ handlers[i].abort \in BOOLEAN
      BY <3>1 DEF HandlerShapes, Phases
    <3>3. lease.holder \in Speech \cup {None} /\ lease.live \in BOOLEAN
      BY <1>1 DEF CInv, ServerInv
    <3> QED
      BY <1>1, <3>2, <3>3 DEF TurnsOK, CInv, TInv, TypeInv, ServerInv, IdInv
  <2>2. /\ tab.status \in {"ready", "submitted", "streaming", "error"}
        /\ tab.op \in OpShapes
    BY <1>1 DEF CInv, TabInv, Staged, Loose, TabShapes, Statuses
  <2>3. tab.op.phase \in {"none", "preparing", "sending", "cancelling"}
    BY <2>2, OpPhase
  <2>4. /\ Busy(tab) <=> tab.on # None
        /\ tab.op.phase = "preparing" => tab.job # NoJob
        /\ tab.op.phase = "cancelling" => tab.job.kind = "cancel" /\ tab.job.own
        /\ tab.op.phase = "sending" => Busy(tab)
        /\ ~tab.mounted => tab.op = NoOp /\ tab.job = NoJob
    BY <1>1 DEF CInv, TabInv, Staged, Loose, ReaderInv, Joined, JobInv
  <2>5. \A m, n \in DOMAIN tab.msgs : tab.msgs[m].id = tab.msgs[n].id => m = n
    BY <1>1 DEF CInv, TabInv, Staged, Loose, QueueInv
  <2> QED
    BY <2>1, <2>2, <2>3, <2>4, <2>5 DEF TypeOK
<1> QED
  BY ChatInvariance, <1>1, PTL

\* drain() submits the message shown first, as it was last saved, while
\* nothing holds the queue; and unless the user asked for it, not after a
\* turn the tab has been told failed or was stopped.
THEOREM SubmittedAsShown == Spec => SentAsShown
<1> DEFINE Shown ==
        \A m \in net' \ net :
          /\ tab.mounted /\ ~tab.paused /\ tab.editing = None
          /\ tab.msgs # <<>> /\ Head(tab.msgs) = tab.op.msg /\ tab.op.msg.id = m
          /\ newest # None /\ newest = tab.job.seen.last
                 /\ gen[newest] \in {"aborted", "error"} => tab.op.explicit
<1>1. ASSUME CInv, Next
      PROVE  Shown
  <2> SUFFICES ASSUME NEW m \in net' \ net
               PROVE  /\ tab.mounted /\ ~tab.paused /\ tab.editing = None
                      /\ tab.msgs # <<>> /\ Head(tab.msgs) = tab.op.msg
                      /\ tab.op.msg.id = m
                      /\ newest # None /\ newest = tab.job.seen.last
                             /\ gen[newest] \in {"aborted", "error"} => tab.op.explicit
    OBVIOUS
  <2>1. Admitted /\ tab.op.msg.id = m
    BY <1>1, StepOfTab DEF Submits
  <2>2. TabInv(tab) /\ SeenInv
    BY <1>1 DEF CInv
  <2>3. /\ tab.job # NoJob /\ tab.job.kind = "prepare" /\ tab.job.pc = "told"
        /\ tab.job.seen \in Answers
    BY <2>1, <2>2, JobTold DEF Admitted, Told
  <2>4. tab.op.phase = "preparing"
    BY <2>2, <2>3 DEF TabInv, Staged, Loose, JobInv
  <2>5. /\ tab.mounted /\ ~tab.paused /\ tab.editing = None
        /\ tab.msgs # <<>> /\ Head(tab.msgs) = tab.op.msg
    BY <2>2, <2>4 DEF TabInv, Staged, Loose, PreparingInv, QueueInv
  <2>6. ASSUME newest # None, newest = tab.job.seen.last,
               gen[newest] \in {"aborted", "error"}
        PROVE  tab.op.explicit
    <3>1. \/ tab.op.explicit
          \/ /\ tab.job.seen.exists
             /\ tab.job.seen.status \notin {"aborted", "error"}
      BY <2>1 DEF Admitted
    <3>2. CASE tab.job.seen.exists
      <4>1. tab.job.seen.active = None
        BY <2>1, <3>2 DEF Admitted, Over
      <4>2. gen[tab.job.seen.last] = tab.job.seen.status
        BY <2>2, <2>3, <3>2, <4>1 DEF SeenInv
      <4> QED
        BY <2>6, <3>1, <4>2
    <3> QED
      BY <3>1, <3>2
  <2> QED
    BY <2>1, <2>5, <2>6
<1>2. CInv /\ [Next]_vars => [Shown]_vars
  BY <1>1
<1> QED
  BY ChatInvariance, <1>2, PTL DEF Spec, SentAsShown

\* What was proved of the turns, for the chat with the queue, the coordinator
\* and the reader of its tab in front of them.
THEOREM ChatKeepsPromises ==
    Spec => /\ []SoleGeneration /\ []OncePerRequest
            /\ VoiceSparesOthers /\ ImplementsTurnTaking
  BY ChatIsTurns, SoleGenerationHolds, OncePerRequestHolds,
     VoiceSparesOthersHolds, TurnsAlternate
=============================================================================
