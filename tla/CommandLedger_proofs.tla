------------------------ MODULE CommandLedger_proofs ------------------------
(***************************************************************************)
(* Proofs about CommandLedger, for any number of requests, sessions, slots,*)
(* crashes, disconnections and deletions.                                  *)
(*                                                                         *)
(* The argument: the ledger entry is written before the provider gets the  *)
(* command, one command of a session is carried out at a time, and an      *)
(* entry disappears only in a barrier, which runs when no slot is in use.  *)
(* That the slot counter tells the truth (SlotInv) is therefore part of    *)
(* the argument that nothing is executed twice.                            *)
(***************************************************************************)
EXTENDS CommandLedger, TLAPS, FiniteSetTheorems, SequenceTheorems

-----------------------------------------------------------------------------
(* The inductive invariant.                                                *)

RequestsOf(s) == {r \in Requests : Session(r) = s}

JobsOf(s) ==
    [request : RequestsOf(s), stage : {"opening", "acting", "acted"},
     answer : {"none"}]
    \cup [request : RequestsOf(s), stage : {"answering"}, answer : Answers]

Jobs == UNION {JobsOf(s) : s \in Sessions}

StreamItems == [kind : {"request"}, request : Requests]
               \cup [kind : {"stop"}, session : Sessions]
               \cup [kind : {"sync"}, sessions : SUBSET Sessions]

AnswerItems == [kind : Answers, request : Requests]
               \cup [kind : {"stopped"}, session : Sessions]

ServerTypes ==
    /\ verdict \in [Requests -> Verdicts]
    /\ active \subseteq Sessions /\ stopping \subseteq active
    /\ listed \subseteq SUBSET Sessions

ProcessTypes ==
    /\ stream \in Seq(StreamItems)
    /\ phase \in {"up", "draining", "down"} /\ busy \in 0 .. LaneLimit
    /\ lane \in Seq(Requests)
    /\ owner \in [Sessions -> Jobs \cup {NoJob}]
    /\ behind \in [Sessions -> Seq(Requests)]
    /\ \A s \in Sessions : /\ owner[s] \in JobsOf(s) \cup {NoJob}
                           /\ behind[s] \in Seq(RequestsOf(s))

StoreTypes ==
    /\ ledger \in [Commands -> {"none", "pending", "done", "refused"}]
    /\ answers \in Seq(AnswerItems)
    /\ attempts \in [Commands -> Nat] /\ purged \in [Commands -> Nat]
    /\ settled \subseteq Commands

TypeInv == ServerTypes /\ ProcessTypes /\ StoreTypes

SlotInv == IsFiniteSet(Slots) /\ busy = Cardinality(Slots)

OnceInv == \A c \in Commands :
               attempts[c] <= purged[c] + (IF ledger[c] = "none" THEN 0 ELSE 1)

OpenInv == \A s \in Sessions :
               owner[s].stage = "opening" =>
                   LET c == CommandOf[owner[s].request]
                   IN  ledger[c] = "pending" /\ attempts[c] <= purged[c]

LInv == TypeInv /\ SlotInv /\ OnceInv /\ OpenInv

-----------------------------------------------------------------------------
(* Slots, as a function of the owners and the chains behind them.          *)

Places(o, b, s) == (IF o[s] = NoJob THEN 1 ELSE 0) .. Len(b[s])

SlotsOf(o, b) == UNION {{<<s, i>> : i \in Places(o, b, s)} : s \in Sessions}

\* The pairs a slot set consists of.
LEMMA SlotMember ==
    ASSUME NEW o, NEW b
    PROVE  \A x : x \in SlotsOf(o, b) <=>
                     \E s \in Sessions : \E i \in Places(o, b, s) : x = <<s, i>>
<1> DEFINE R(s) == Places(o, b, s)
           T(s) == {<<s, i>> : i \in R(s)}
<1>1. SlotsOf(o, b) = UNION {T(s) : s \in Sessions}
  BY DEF SlotsOf
<1>2. ASSUME NEW x PROVE x \in UNION {T(s) : s \in Sessions}
                             <=> \E s \in Sessions : x \in T(s)
  <2> HIDE DEF T
  <2> QED
    OBVIOUS
<1>3. ASSUME NEW x, NEW s \in Sessions
      PROVE  x \in T(s) <=> \E i \in R(s) : x = <<s, i>>
  <2> HIDE DEF R
  <2> QED
    OBVIOUS
<1> HIDE DEF T
<1> QED
  BY <1>1, <1>2, <1>3

\* A place is a slot of its session.
LEMMA SlotAt ==
    ASSUME NEW o, NEW b, NEW s \in Sessions, NEW i
    PROVE  <<s, i>> \in SlotsOf(o, b) <=> i \in Places(o, b, s)
<1> HIDE DEF Places, SlotsOf
<1> QED
  BY SlotMember

\* Slots are known by the places of every session.
LEMMA SlotsEqual ==
    ASSUME NEW o, NEW b, NEW S,
           \A x \in S : \E s \in Sessions, i \in Int : x = <<s, i>>,
           \A s \in Sessions : \A i \in Int :
               <<s, i>> \in S <=> i \in Places(o, b, s)
    PROVE  SlotsOf(o, b) = S
<1>1. \A s \in Sessions : Places(o, b, s) \subseteq Int
  BY DEF Places
<1> HIDE DEF Places, SlotsOf
<1>2. \A x \in S : x \in SlotsOf(o, b)
  BY SlotAt
<1>3. \A x \in SlotsOf(o, b) : x \in S
  BY <1>1, SlotMember
<1> QED
  BY <1>2, <1>3

\* Every slot is a pair of a session and a number.
LEMMA SlotShape ==
    ASSUME NEW o, NEW b
    PROVE  \A x \in SlotsOf(o, b) : \E s \in Sessions, i \in Int : x = <<s, i>>
<1>1. \A s \in Sessions : Places(o, b, s) \subseteq Int
  BY DEF Places
<1> HIDE DEF Places, SlotsOf
<1>2. TAKE x \in SlotsOf(o, b)
<1>3. PICK s \in Sessions : \E i \in Places(o, b, s) : x = <<s, i>>
  BY SlotMember
<1>4. PICK i \in Places(o, b, s) : x = <<s, i>>
  BY <1>3
<1>5. i \in Int
  BY <1>1, <1>3, <1>4
<1> QED
  BY <1>4, <1>5

\* A command that joins a chain takes one slot,
LEMMA SlotAdded ==
    ASSUME NEW o, NEW b \in [Sessions -> Seq(Requests)], NEW t \in Sessions,
           NEW r \in Requests
    PROVE  LET x == <<t, Len(b[t]) + 1>>
           IN  /\ SlotsOf(o, [b EXCEPT ![t] = Append(@, r)]) = SlotsOf(o, b) \cup {x}
               /\ x \notin SlotsOf(o, b)
<1> DEFINE x == <<t, Len(b[t]) + 1>>
           d == [b EXCEPT ![t] = Append(@, r)]
           S == SlotsOf(o, b) \cup {x}
<1>1. Len(b[t]) \in Nat
  BY LenProperties
<1>2. x \notin SlotsOf(o, b)
  <2>1. Len(b[t]) + 1 \notin Places(o, b, t)
    BY <1>1 DEF Places
  <2> QED
    BY <2>1, SlotAt
<1>3. Len(d[t]) = Len(b[t]) + 1 /\ \A s \in Sessions \ {t} : d[s] = b[s]
  OBVIOUS
<1>4. \A y \in S : \E s \in Sessions, i \in Int : y = <<s, i>>
  BY <1>1, SlotShape
<1>5. ASSUME NEW s \in Sessions, NEW i \in Int
      PROVE  <<s, i>> \in S <=> i \in Places(o, d, s)
  <2>1. <<s, i>> \in SlotsOf(o, b) <=> i \in Places(o, b, s)
    BY SlotAt
  <2>2. CASE s = t
    BY <2>1, <2>2, <1>1, <1>3 DEF Places
  <2>3. CASE s # t
    BY <2>1, <2>3, <1>3 DEF Places
  <2> QED
    BY <2>2, <2>3
<1> HIDE DEF S, d
<1>6. SlotsOf(o, d) = S
  BY <1>4, <1>5, SlotsEqual
<1> QED
  BY <1>2, <1>6 DEF S, d

\* one that is over frees one,
LEMMA SlotFreed ==
    ASSUME NEW o, NEW b \in [Sessions -> Seq(Requests)], NEW t \in Sessions,
           o \in [Sessions -> Jobs \cup {NoJob}],
           o[t] # NoJob
    PROVE  /\ SlotsOf([o EXCEPT ![t] = NoJob], b) = SlotsOf(o, b) \ {<<t, 0>>}
           /\ <<t, 0>> \in SlotsOf(o, b)
<1> DEFINE p == [o EXCEPT ![t] = NoJob]
           S == SlotsOf(o, b) \ {<<t, 0>>}
<1>1. \A s \in Sessions : Len(b[s]) \in Nat
  BY LenProperties
<1>2. <<t, 0>> \in SlotsOf(o, b)
  BY <1>1, SlotAt DEF Places
<1>3. p[t] = NoJob /\ \A s \in Sessions \ {t} : p[s] = o[s]
  OBVIOUS
<1>4. \A y \in S : \E s \in Sessions, i \in Int : y = <<s, i>>
  BY SlotShape
<1>5. ASSUME NEW s \in Sessions, NEW i \in Int
      PROVE  <<s, i>> \in S <=> i \in Places(p, b, s)
  <2>1. <<s, i>> \in SlotsOf(o, b) <=> i \in Places(o, b, s)
    BY SlotAt
  <2>2. CASE s = t
    BY <2>1, <2>2, <1>1, <1>3 DEF Places
  <2>3. CASE s # t
    BY <2>1, <2>3, <1>3 DEF Places
  <2> QED
    BY <2>2, <2>3
<1> HIDE DEF S, p
<1>6. SlotsOf(p, b) = S
  BY <1>4, <1>5, SlotsEqual
<1> QED
  BY <1>2, <1>6 DEF S, p

\* and an owner replaced by another keeps it.
LEMMA SlotKept ==
    ASSUME NEW o, NEW b, NEW p,
           \A s \in Sessions : p[s] = NoJob <=> o[s] = NoJob
    PROVE  SlotsOf(p, b) = SlotsOf(o, b)
<1>1. \A s \in Sessions : Places(p, b, s) = Places(o, b, s)
  BY DEF Places
<1> QED
  BY <1>1, SlotMember

\* A command that leaves the head of the chain to become the owner keeps its
\* slot: the last place of the chain becomes free, the owner's is taken.
LEMMA SlotMoved ==
    ASSUME NEW o, NEW b \in [Sessions -> Seq(Requests)], NEW t \in Sessions,
           o \in [Sessions -> Jobs \cup {NoJob}],
           NEW j, j # NoJob, o[t] = NoJob, b[t] # <<>>
    PROVE  LET x == <<t, Len(b[t])>>
           IN  /\ SlotsOf([o EXCEPT ![t] = j], [b EXCEPT ![t] = Tail(@)])
                      = (SlotsOf(o, b) \ {x}) \cup {<<t, 0>>}
               /\ x \in SlotsOf(o, b) /\ <<t, 0>> \notin SlotsOf(o, b)
<1> DEFINE x == <<t, Len(b[t])>>
           p == [o EXCEPT ![t] = j]
           d == [b EXCEPT ![t] = Tail(@)]
           S == (SlotsOf(o, b) \ {x}) \cup {<<t, 0>>}
<1>1. /\ \A s \in Sessions : Len(b[s]) \in Nat
      /\ Len(b[t]) \in Nat \ {0}
  BY LenProperties, EmptySeq
<1>2. x \in SlotsOf(o, b) /\ <<t, 0>> \notin SlotsOf(o, b)
  BY <1>1, SlotAt DEF Places
<1>3. /\ p[t] = j /\ Len(d[t]) = Len(b[t]) - 1
      /\ \A s \in Sessions \ {t} : p[s] = o[s] /\ d[s] = b[s]
  BY HeadTailProperties
<1>4. \A y \in S : \E s \in Sessions, i \in Int : y = <<s, i>>
  BY SlotShape
<1>5. ASSUME NEW s \in Sessions, NEW i \in Int
      PROVE  <<s, i>> \in S <=> i \in Places(p, d, s)
  <2>1. <<s, i>> \in SlotsOf(o, b) <=> i \in Places(o, b, s)
    BY SlotAt
  <2>2. CASE s = t
    <3>1. Places(o, b, s) = 1 .. Len(b[t]) /\ Places(p, d, s) = 0 .. Len(b[t]) - 1
      BY <2>2, <1>3 DEF Places
    <3>2. <<s, i>> \in S <=> (i \in 1 .. Len(b[t]) /\ i # Len(b[t])) \/ i = 0
      BY <2>1, <2>2, <3>1, SMTT(30)
    <3> QED
      BY <1>1, <3>1, <3>2
  <2>3. CASE s # t
    BY <2>1, <2>3, <1>3 DEF Places
  <2> QED
    BY <2>2, <2>3
<1> HIDE DEF S, p, d
<1>6. SlotsOf(p, d) = S
  BY <1>4, <1>5, SlotsEqual
<1> QED
  BY <1>2, <1>6 DEF S, p, d

-----------------------------------------------------------------------------
(* Initial states and steps.                                               *)

LEMMA InitLedger == Init => LInv
<1> SUFFICES ASSUME Init PROVE LInv
  OBVIOUS
<1>1. TypeInv
  <2>1. ServerTypes
    BY DEF Init, ServerTypes, Verdicts
  <2>2. ProcessTypes
    <3>1. owner \in [Sessions -> Jobs \cup {NoJob}]
      BY DEF Init
    <3>2. behind \in [Sessions -> Seq(Requests)]
      BY EmptySeq DEF Init
    <3>3. \A s \in Sessions : /\ owner[s] \in JobsOf(s) \cup {NoJob}
                              /\ behind[s] \in Seq(RequestsOf(s))
      BY EmptySeq DEF Init
    <3>4. stream \in Seq(StreamItems) /\ lane \in Seq(Requests)
      BY EmptySeq DEF Init
    <3>5. phase \in {"up", "draining", "down"} /\ busy \in 0 .. LaneLimit
      BY LedgerAssumption DEF Init
    <3> QED
      BY <3>1, <3>2, <3>3, <3>4, <3>5 DEF ProcessTypes
  <2>3. StoreTypes
    BY DEF Init, StoreTypes
  <2> QED
    BY <2>1, <2>2, <2>3 DEF TypeInv
<1>2. \A s \in Sessions : Places(owner, behind, s) = {}
  BY DEF Init, Places
<1>3. SlotsOf(owner, behind) = {}
  BY <1>2, SlotMember
<1>4. SlotInv
  BY <1>3, FS_EmptySet DEF Init, SlotInv, Slots, SlotsOf, Places
<1>5. OnceInv /\ OpenInv
  BY DEF Init, OnceInv, OpenInv, NoJob
<1> QED
  BY <1>1, <1>4, <1>5 DEF LInv

\* Steps of the server and of the link leave the daemon and its ledger alone.
LEMMA QuietLedger ==
    ASSUME LInv, UNCHANGED <<process, ledger, history>>
    PROVE  SlotInv' /\ OnceInv' /\ OpenInv'
BY DEF LInv, process, history, SlotInv, Slots, OnceInv, OpenInv

\* What begins a sequence is a sequence of the same things.
LEMMA PrefixTyped ==
    ASSUME NEW S, NEW q \in Seq(S)
    PROVE  \A t \in Prefixes(q) : t \in Seq(S)
<1> TAKE t \in Prefixes(q)
<1>1. PICK n \in 0 .. Len(q) : t = SubSeq(q, 1, n)
  BY DEF Prefixes
<1>2. \A i \in 1 .. n : q[i] \in S
  BY ElementOfSeq, LenProperties
<1> QED
  BY <1>1, <1>2, SubSeqProperties

\* The broker and the connection.
LEMMA BrokerStep == LInv /\ (Broker \/ Disconnect) => LInv'
<1> SUFFICES ASSUME LInv, Broker \/ Disconnect PROVE LInv'
  OBVIOUS
<1>1. UNCHANGED <<process, ledger, history>>
  BY DEF Broker, Disconnect, Ask, TimesOut, AskStop, StopGivesUp, Deliver,
         OpenChannel, Register, Unregister, ServerRestart, store
<1>2. ServerTypes'
  <2> USE DEF LInv, TypeInv, ServerTypes, Verdicts
  <2>1. CASE \E r \in Requests : Ask(r) \/ TimesOut(r)
    <3>1. PICK r \in Requests, v \in {"pending", "offline", "unknown"} :
              verdict' = [verdict EXCEPT ![r] = v]
      BY <2>1 DEF Ask, TimesOut
    <3>2. UNCHANGED <<active, stopping, listed>>
      BY <2>1 DEF Ask, TimesOut
    <3> QED
      BY <3>1, <3>2 DEF Answers
  <2>2. CASE \E s \in Sessions : AskStop(s) \/ StopGivesUp(s)
    BY <2>2 DEF AskStop, StopGivesUp
  <2>3. CASE \E acknowledged \in BOOLEAN : Deliver(acknowledged)
    <3>1. answers # <<>>
      BY <2>3 DEF Deliver
    <3>2. Head(answers) \in AnswerItems
      BY <3>1, HeadTailProperties DEF StoreTypes
    <3>3. CASE Head(answers).kind = "stopped"
      BY <2>3, <3>3 DEF Deliver
    <3>4. CASE Head(answers).kind # "stopped"
      BY <2>3, <3>2, <3>4 DEF Deliver, AnswerItems, Answers
    <3> QED
      BY <3>3, <3>4
  <2>4. CASE OpenChannel \/ Register \/ Unregister \/ ServerRestart \/ Disconnect
    BY <2>4 DEF OpenChannel, Register, Unregister, ServerRestart, Disconnect,
                serverVars
  <2> QED
    BY <2>1, <2>2, <2>3, <2>4 DEF Broker
<1>3. stream' \in Seq(StreamItems)
  <2>1. stream \in Seq(StreamItems)
    BY DEF LInv, TypeInv, ProcessTypes
  <2>2. CASE \E r \in Requests : Ask(r)
    <3>1. PICK r \in Requests : Ask(r)
      BY <2>2
    <3>2. Execute(r) \in StreamItems
      BY DEF Execute, StreamItems
    <3> QED
      BY <2>1, <3>1, <3>2 DEF Ask, Sent
  <2>3. CASE \E s \in Sessions : AskStop(s)
    <3>1. PICK s \in Sessions : AskStop(s)
      BY <2>3
    <3>2. StopSession(s) \in StreamItems
      BY DEF StopSession, StreamItems
    <3> QED
      BY <2>1, <3>1, <3>2 DEF AskStop, Sent
  <2>4. CASE Register
    <3>1. PICK S \in listed, q \in Orders(Pending) :
              stream' = <<Sync(S)>> \o [i \in DOMAIN q |-> Execute(q[i])]
      BY <2>4 DEF Register
    <3>2. Sync(S) \in StreamItems
      BY DEF Sync, StreamItems, LInv, TypeInv, ServerTypes
    <3>3. [i \in DOMAIN q |-> Execute(q[i])] \in Seq(StreamItems)
      <4>1. q \in [1 .. Cardinality(Pending) -> Requests]
        BY DEF Orders, Pending
      <4>2. \A i \in DOMAIN q : Execute(q[i]) \in StreamItems
        BY <4>1 DEF Execute, StreamItems
      <4>3. \E n \in Nat : DOMAIN q = 1 .. n
        <5>1. Cardinality(Pending) \in Nat
          BY LedgerAssumption, FS_Subset, FS_CardinalityType DEF Pending
        <5> QED
          BY <4>1, <5>1
      <4> QED
        BY <4>2, <4>3
    <3> QED
      BY <3>1, <3>2, <3>3
  <2>5. CASE ServerRestart \/ Disconnect
    BY <2>1, <2>5, PrefixTyped DEF ServerRestart, Disconnect
  <2>6. CASE \/ \E r \in Requests : TimesOut(r)
             \/ \E s \in Sessions : StopGivesUp(s)
             \/ \E acknowledged \in BOOLEAN : Deliver(acknowledged)
             \/ OpenChannel \/ Unregister
    BY <2>1, <2>6 DEF TimesOut, StopGivesUp, Deliver, OpenChannel, Unregister, link
  <2> QED
    BY <2>2, <2>3, <2>4, <2>5, <2>6 DEF Broker
<1>4. answers' \in Seq(AnswerItems)
  <2>1. answers \in Seq(AnswerItems)
    BY DEF LInv, TypeInv, StoreTypes
  <2>2. answers' = answers \/ (answers # <<>> /\ answers' = Tail(answers))
    BY DEF Broker, Disconnect, Ask, TimesOut, AskStop, StopGivesUp, Deliver,
           OpenChannel, Register, Unregister, ServerRestart, store
  <2> QED
    BY <2>1, <2>2, HeadTailProperties
<1>5. ProcessTypes' /\ StoreTypes'
  BY <1>1, <1>3, <1>4 DEF LInv, TypeInv, ProcessTypes, StoreTypes, process, history
<1> QED
  BY <1>1, <1>2, <1>5, QuietLedger DEF LInv, TypeInv

\* The parts of an owner's record that a step of the daemon relies on.
LEMMA OwnerFacts ==
    ASSUME LInv, NEW s \in Sessions, owner[s] # NoJob
    PROVE  /\ owner[s] \in JobsOf(s) /\ owner[s].request \in Requests
           /\ CommandOf[owner[s].request] \in Commands
           /\ Session(owner[s].request) = s
BY LedgerAssumption DEF LInv, TypeInv, ProcessTypes, JobsOf, RequestsOf

\* Two sessions never work on the same command.
LEMMA OwnersDiffer ==
    ASSUME LInv, NEW s \in Sessions, NEW t \in Sessions, s # t,
           owner[s] # NoJob, owner[t] # NoJob
    PROVE  CommandOf[owner[s].request] # CommandOf[owner[t].request]
BY OwnerFacts DEF Session

\* A request handed to the daemon goes to the end of its session's chain.
LEMMA QueuedFacts ==
    ASSUME LInv, NEW r \in Requests
    PROVE  /\ Session(r) \in Sessions
           /\ Queued(r) \in [Sessions -> Seq(Requests)]
           /\ \A s \in Sessions : Queued(r)[s] \in Seq(RequestsOf(s))
           /\ Queued(r) = [behind EXCEPT ![Session(r)] =
                               Append(behind[Session(r)], r)]
<1>1. Session(r) \in Sessions
  BY LedgerAssumption DEF Session
<1>2. behind \in [Sessions -> Seq(Requests)]
  BY DEF LInv, TypeInv, ProcessTypes
<1>3. r \in RequestsOf(Session(r))
  BY DEF RequestsOf
<1>4. Append(behind[Session(r)], r) \in Seq(Requests)
  BY <1>1, <1>2
<1>5. behind[Session(r)] \in Seq(RequestsOf(Session(r)))
  BY <1>1 DEF LInv, TypeInv, ProcessTypes
<1>6. Append(behind[Session(r)], r) \in Seq(RequestsOf(Session(r)))
  BY <1>3, <1>5
<1>7. ASSUME NEW s \in Sessions PROVE Queued(r)[s] \in Seq(RequestsOf(s))
  <2>1. CASE s = Session(r)
    BY <1>2, <1>6, <2>1 DEF Queued
  <2>2. CASE s # Session(r)
    BY <1>2, <2>2 DEF Queued, LInv, TypeInv, ProcessTypes
  <2> QED
    BY <2>1, <2>2
<1> QED
  BY <1>1, <1>2, <1>4, <1>7 DEF Queued

\* enqueue(): the counter and the slots grow together.
LEMMA ReadRequestStep == LInv /\ ReadRequest => LInv'
<1> SUFFICES ASSUME LInv, ReadRequest PROVE LInv'
  OBVIOUS
<1> DEFINE r == Head(stream).request
<1>1. stream # <<>> /\ Head(stream).kind = "request" /\ stream' = Tail(stream)
  BY DEF ReadRequest
<1>2. stream' \in Seq(StreamItems) /\ r \in Requests
  <2>1. stream \in Seq(StreamItems)
    BY DEF LInv, TypeInv, ProcessTypes
  <2>2. Head(stream) \in StreamItems /\ Tail(stream) \in Seq(StreamItems)
    BY <1>1, <2>1, HeadTailProperties
  <2>3. r \in Requests
    BY <1>1, <2>2 DEF StreamItems
  <2> QED
    BY <1>1, <2>2, <2>3
<1>3. UNCHANGED <<verdict, active, stopping, listed, phase, owner, ledger,
                  answers, attempts, settled, purged>>
  BY DEF ReadRequest, serverVars, store, history
<1>4. ServerTypes' /\ StoreTypes' /\ OnceInv' /\ OpenInv'
  BY <1>3 DEF LInv, TypeInv, ServerTypes, StoreTypes, OnceInv, OpenInv
<1> HIDE DEF r
<1>5. \/ UNCHANGED <<lane, busy, behind>>
      \/ lane' = Append(lane, r) /\ UNCHANGED <<busy, behind>>
      \/ busy < LaneLimit /\ busy' = busy + 1 /\ behind' = Queued(r)
         /\ UNCHANGED lane
  BY DEF ReadRequest, r
<1>6. ProcessTypes'
  <2>1. lane' \in Seq(Requests)
    <3>1. lane \in Seq(Requests)
      BY DEF LInv, TypeInv, ProcessTypes
    <3> QED
      BY <1>2, <1>5, <3>1
  <2>2. busy' \in 0 .. LaneLimit
    BY <1>5, LedgerAssumption DEF LInv, TypeInv, ProcessTypes
  <2>3. /\ behind' \in [Sessions -> Seq(Requests)]
        /\ \A s \in Sessions : behind'[s] \in Seq(RequestsOf(s))
    BY <1>2, <1>5, QueuedFacts DEF LInv, TypeInv, ProcessTypes
  <2> QED
    BY <1>2, <1>3, <2>1, <2>2, <2>3 DEF LInv, TypeInv, ProcessTypes
<1>7. SlotInv'
  <2>1. CASE UNCHANGED <<busy, behind>>
    BY <1>3, <2>1 DEF LInv, SlotInv, Slots
  <2>2. CASE busy' = busy + 1 /\ behind' = Queued(r)
    <3> DEFINE t == Session(r)
               x == <<t, Len(behind[t]) + 1>>
    <3>1. behind' = [behind EXCEPT ![t] = Append(@, r)] /\ t \in Sessions
      BY <1>2, <2>2, QueuedFacts
    <3>2. behind \in [Sessions -> Seq(Requests)]
      BY DEF LInv, TypeInv, ProcessTypes
    <3>3. SlotsOf(owner, behind') = SlotsOf(owner, behind) \cup {x}
          /\ x \notin SlotsOf(owner, behind)
      <4>1. SlotsOf(owner, [behind EXCEPT ![t] = Append(@, r)])
                = SlotsOf(owner, behind) \cup {x}
            /\ x \notin SlotsOf(owner, behind)
        BY <1>2, <3>1, <3>2, SlotAdded
      <4> QED
        BY <3>1, <4>1
    <3>4. Slots' = Slots \cup {x} /\ x \notin Slots
      BY <1>3, <3>3 DEF Slots, SlotsOf, Places
    <3> HIDE DEF x
    <3> QED
      BY <2>2, <3>4, FS_AddElement DEF LInv, SlotInv
  <2> QED
    BY <1>5, <2>1, <2>2
<1> QED
  BY <1>4, <1>6, <1>7 DEF LInv, TypeInv

\* While the scheduler is idle, runCommand() is working on nothing.
LEMMA IdleMeansQuiet == LInv /\ busy = 0 => \A s \in Sessions : owner[s] = NoJob
<1> SUFFICES ASSUME LInv, busy = 0, NEW s \in Sessions, owner[s] # NoJob
             PROVE  FALSE
  OBVIOUS
<1>1. Slots = {}
  <2>1. IsFiniteSet(Slots) /\ Cardinality(Slots) = 0
    BY DEF LInv, SlotInv
  <2> HIDE DEF Slots
  <2> QED
    BY <2>1, FS_EmptySet
<1>2. behind[s] \in Seq(Requests)
  BY DEF LInv, TypeInv, ProcessTypes
<1>3. 0 \in Places(owner, behind, s)
  BY <1>2, LenProperties DEF Places
<1>4. <<s, 0>> \in SlotsOf(owner, behind)
  BY <1>3, SlotAt
<1> QED
  BY <1>1, <1>4 DEF Slots, SlotsOf, Places

\* A barrier deletes entries of commands nobody works on.
LEMMA ReadBarrierStep == LInv /\ ReadBarrier => LInv'
<1> SUFFICES ASSUME LInv, ReadBarrier PROVE LInv'
  OBVIOUS
<1>1. UNCHANGED <<verdict, active, stopping, listed, phase, lane, busy, owner,
                  behind, attempts, settled>>
  BY DEF ReadBarrier, serverVars, process
<1>2. PICK S : Purge(S)
  BY DEF ReadBarrier
<1>3. stream \in Seq(StreamItems) /\ stream # <<>> /\ stream' = Tail(stream)
  BY DEF ReadBarrier, LInv, TypeInv, ProcessTypes
<1>4. stream' \in Seq(StreamItems)
  BY <1>3, HeadTailProperties
<1>5. \A s \in Sessions : owner[s] = NoJob
  BY IdleMeansQuiet DEF ReadBarrier, Idle
<1>6. /\ ledger' \in [Commands -> {"none", "pending", "done", "refused"}]
      /\ purged' \in [Commands -> Nat]
  BY <1>2 DEF Purge, LInv, TypeInv, StoreTypes
<1>7. answers' \in Seq(AnswerItems)
  <2>1. answers \in Seq(AnswerItems)
    BY DEF LInv, TypeInv, StoreTypes
  <2>2. CASE Head(stream).kind = "stop" /\ answers' = Append(answers,
                 [kind |-> "stopped", session |-> Head(stream).session])
    <3>1. Head(stream) \in StreamItems
      BY <1>3, HeadTailProperties
    <3>2. Head(stream).session \in Sessions
      BY <2>2, <3>1 DEF StreamItems
    <3>3. [kind |-> "stopped", session |-> Head(stream).session] \in AnswerItems
      BY <3>2 DEF AnswerItems
    <3> QED
      BY <2>1, <2>2, <3>3
  <2> QED
    BY <2>1, <2>2 DEF ReadBarrier
<1>8. TypeInv'
  BY <1>1, <1>4, <1>6, <1>7 DEF LInv, TypeInv, ServerTypes, ProcessTypes,
                                StoreTypes
<1>9. SlotInv'
  BY <1>1 DEF LInv, SlotInv, Slots
<1>10. OnceInv'
  BY <1>1, <1>2 DEF Purge, LInv, TypeInv, StoreTypes, OnceInv
<1>11. OpenInv'
  BY <1>1, <1>5 DEF OpenInv, NoJob
<1> QED
  BY <1>8, <1>9, <1>10, <1>11 DEF LInv

-----------------------------------------------------------------------------
(* Steps of runCommand().                                                  *)

\* What a step that only changes the owner of one session keeps.
LEMMA OwnerStep ==
    ASSUME LInv, NEW s \in Sessions, NEW j \in JobsOf(s), owner[s] # NoJob,
           owner' = [owner EXCEPT ![s] = j],
           UNCHANGED <<stream, phase, lane, busy, behind>>
    PROVE  ProcessTypes' /\ SlotInv'
<1>1. owner \in [Sessions -> Jobs \cup {NoJob}]
  BY DEF LInv, TypeInv, ProcessTypes
<1>2. j # NoJob
  BY DEF JobsOf, NoJob
<1>3. owner' \in [Sessions -> Jobs \cup {NoJob}]
  <2>1. j \in Jobs
    BY DEF Jobs
  <2> QED
    BY <1>1, <2>1
<1>4. /\ owner'[s] = j
      /\ \A t \in Sessions \ {s} : owner'[t] = owner[t]
  BY <1>1
<1>5. ASSUME NEW t \in Sessions
      PROVE  owner'[t] \in JobsOf(t) \cup {NoJob} /\ behind'[t] \in Seq(RequestsOf(t))
  <2>1. CASE t = s
    BY <1>4, <2>1 DEF LInv, TypeInv, ProcessTypes
  <2>2. CASE t # s
    BY <1>4, <2>2 DEF LInv, TypeInv, ProcessTypes
  <2> QED
    BY <2>1, <2>2
<1>6. ProcessTypes'
  BY <1>3, <1>5 DEF LInv, TypeInv, ProcessTypes
<1>7. \A t \in Sessions : owner'[t] = NoJob <=> owner[t] = NoJob
  BY <1>2, <1>4
<1>8. Slots' = Slots
  <2>1. PICK p : p = owner'
    OBVIOUS
  <2>2. SlotsOf(p, behind) = SlotsOf(owner, behind)
    BY <1>7, <2>1, SlotKept
  <2> QED
    BY <2>1, <2>2 DEF Slots, SlotsOf, Places
<1>9. SlotInv'
  BY <1>8 DEF LInv, SlotInv
<1> QED
  BY <1>6, <1>9

\* A step that changes entries of one command only, the one its owner works
\* on, leaves what is claimed of the other sessions' commands alone.
LEMMA OthersOpen ==
    ASSUME LInv, NEW s \in Sessions, owner[s] # NoJob,
           NEW c \in Commands, c = CommandOf[owner[s].request],
           \A t \in Sessions \ {s} : owner'[t] = owner[t],
           owner'[s].stage # "opening",
           \A d \in Commands \ {c} : ledger'[d] = ledger[d] /\ attempts'[d] = attempts[d],
           UNCHANGED purged
    PROVE  OpenInv'
<1> SUFFICES ASSUME NEW t \in Sessions, owner'[t].stage = "opening"
             PROVE  /\ ledger'[CommandOf[owner'[t].request]] = "pending"
                    /\ attempts'[CommandOf[owner'[t].request]]
                           <= purged'[CommandOf[owner'[t].request]]
  BY DEF OpenInv
<1>1. t # s /\ owner'[t] = owner[t]
  OBVIOUS
<1>2. owner[t] # NoJob
  BY <1>1 DEF NoJob
<1>3. CommandOf[owner[t].request] \in Commands \ {c}
  BY <1>1, <1>2, OwnerFacts, OwnersDiffer
<1>4. /\ ledger[CommandOf[owner[t].request]] = "pending"
      /\ attempts[CommandOf[owner[t].request]] <= purged[CommandOf[owner[t].request]]
  BY <1>1 DEF LInv, OpenInv
<1> QED
  BY <1>1, <1>3, <1>4

\* The session whose step it is has an owner.
LEMMA Owned ==
    ASSUME LInv, NEW s \in Sessions, NEW g \in Stages, At(s, g)
    PROVE  /\ owner[s] # NoJob /\ owner[s].stage = g
           /\ owner[s].request \in RequestsOf(s)
           /\ CommandOf[owner[s].request] \in Commands
           /\ owner \in [Sessions -> Jobs \cup {NoJob}]
           /\ owner[s] \in JobsOf(s)
<1>1. owner[s].stage = g /\ g # "none"
  BY DEF At, Stages
<1>2. owner[s] # NoJob
  BY <1>1 DEF NoJob
<1> QED
  BY <1>1, <1>2, OwnerFacts DEF RequestsOf, LInv, TypeInv, ProcessTypes

\* A session cannot be opened: OpenFails().
LEMMA OpenFailsStep ==
    ASSUME LInv, NEW s \in Sessions, OpenFails(s) PROVE LInv'
<1> DEFINE c == CommandOf[owner[s].request]
           j == Job(owner[s].request, "answering", "refused")
<1>1. /\ owner[s] # NoJob /\ owner[s].request \in RequestsOf(s) /\ c \in Commands
      /\ owner \in [Sessions -> Jobs \cup {NoJob}] /\ owner[s].stage = "opening"
  BY Owned DEF OpenFails, Stages
<1>2. /\ owner' = [owner EXCEPT ![s] = j]
      /\ ledger' = [ledger EXCEPT ![c] = "refused"]
      /\ UNCHANGED <<verdict, active, stopping, listed, stream, phase, lane, busy,
                     behind, answers, attempts, settled, purged>>
  BY DEF OpenFails, Recorded, Answering, serverVars, link, history
<1>3. j \in JobsOf(s)
  BY <1>1 DEF Job, JobsOf, Answers
<1>4. ProcessTypes' /\ SlotInv'
  BY <1>1, <1>2, <1>3, OwnerStep
<1>5. ServerTypes' /\ StoreTypes'
  BY <1>2 DEF LInv, TypeInv, ServerTypes, StoreTypes
<1>6. ledger[c] = "pending"
  BY <1>1 DEF LInv, OpenInv
<1>7. OnceInv'
  BY <1>2, <1>6 DEF LInv, OnceInv, TypeInv, StoreTypes
<1>8. owner'[s] = j /\ \A t \in Sessions \ {s} : owner'[t] = owner[t]
  BY <1>1, <1>2
<1>9. j.stage # "opening"
  BY DEF Job
<1>10. \A d \in Commands \ {c} : ledger'[d] = ledger[d] /\ attempts'[d] = attempts[d]
  BY <1>2 DEF LInv, TypeInv, StoreTypes
<1> HIDE DEF c, j
<1>11. OpenInv'
  BY <1>1, <1>2, <1>8, <1>9, <1>10, OthersOpen DEF c
<1> QED
  BY <1>4, <1>5, <1>7, <1>11 DEF LInv, TypeInv

\* Act() is where the write-ahead entry pays: the attempt is counted while the
\* entry is pending, and the session has not attempted this one yet.
LEMMA ActStep ==
    ASSUME LInv, NEW s \in Sessions, Act(s) PROVE LInv'
<1> DEFINE c == CommandOf[owner[s].request]
           j == [owner[s] EXCEPT !.stage = "acting"]
<1>1. /\ owner[s] # NoJob /\ owner[s].request \in RequestsOf(s) /\ c \in Commands
      /\ owner \in [Sessions -> Jobs \cup {NoJob}] /\ owner[s].stage = "opening"
      /\ owner[s] \in JobsOf(s)
  BY Owned DEF Act, Stages
<1>2. /\ owner' = [owner EXCEPT ![s] = j]
      /\ attempts' = [attempts EXCEPT ![c] = @ + 1]
      /\ UNCHANGED <<verdict, active, stopping, listed, stream, phase, lane, busy,
                     behind, ledger, answers, settled, purged>>
  BY DEF Act, Moves, serverVars, link, store
<1>3. j \in JobsOf(s) /\ j.stage # "opening"
  BY <1>1 DEF JobsOf
<1>4. ProcessTypes' /\ SlotInv'
  BY <1>1, <1>2, <1>3, OwnerStep
<1>5. ServerTypes' /\ StoreTypes'
  BY <1>1, <1>2 DEF LInv, TypeInv, ServerTypes, StoreTypes
<1>6. ledger[c] = "pending" /\ attempts[c] <= purged[c]
  BY <1>1 DEF LInv, OpenInv
<1>7. OnceInv'
  <2> SUFFICES ASSUME NEW d \in Commands
               PROVE  attempts'[d] <= purged[d] + (IF ledger[d] = "none" THEN 0 ELSE 1)
    BY <1>2 DEF OnceInv
  <2>1. attempts \in [Commands -> Nat] /\ purged \in [Commands -> Nat]
    BY DEF LInv, TypeInv, StoreTypes
  <2>2. CASE d = c
    BY <1>1, <1>2, <1>6, <2>1, <2>2
  <2>3. CASE d # c
    BY <1>2, <2>1, <2>3 DEF LInv, OnceInv
  <2> QED
    BY <2>2, <2>3
<1>8. owner'[s] = j /\ \A t \in Sessions \ {s} : owner'[t] = owner[t]
  BY <1>1, <1>2
<1>9. \A d \in Commands \ {c} : ledger'[d] = ledger[d] /\ attempts'[d] = attempts[d]
  BY <1>2 DEF LInv, TypeInv, StoreTypes
<1> HIDE DEF c, j
<1>10. OpenInv'
  BY <1>1, <1>2, <1>3, <1>8, <1>9, OthersOpen DEF c
<1> QED
  BY <1>4, <1>5, <1>7, <1>10 DEF LInv, TypeInv

\* What the provider answers changes no entry.
LEMMA ActionEndsStep ==
    ASSUME LInv, NEW s \in Sessions, ActionSucceeds(s) \/ ActionFails(s)
    PROVE  LInv'
<1> DEFINE c == CommandOf[owner[s].request]
<1>1. /\ owner[s] # NoJob /\ owner[s].request \in RequestsOf(s) /\ c \in Commands
      /\ owner \in [Sessions -> Jobs \cup {NoJob}] /\ owner[s] \in JobsOf(s)
      /\ ActionSucceeds(s) => owner[s].stage = "acting"
  BY Owned DEF ActionSucceeds, ActionFails, Stages
<1>2. PICK j : /\ j \in JobsOf(s) /\ j.stage # "opening"
               /\ owner' = [owner EXCEPT ![s] = j]
  <2>1. CASE ActionSucceeds(s)
    <3> DEFINE k == [owner[s] EXCEPT !.stage = "acted"]
    <3>1. k \in JobsOf(s) /\ k.stage # "opening"
      BY <1>1, <2>1 DEF JobsOf
    <3>2. owner' = [owner EXCEPT ![s] = k]
      BY <2>1 DEF ActionSucceeds, Moves
    <3> QED
      BY <3>1, <3>2
  <2>2. CASE ActionFails(s)
    <3> DEFINE k == Job(owner[s].request, "answering", "unknown")
    <3>1. k \in JobsOf(s) /\ k.stage # "opening"
      BY <1>1 DEF Job, JobsOf, Answers
    <3>2. owner' = [owner EXCEPT ![s] = k]
      BY <2>2 DEF ActionFails, Answering
    <3> QED
      BY <3>1, <3>2
  <2> QED
    BY <2>1, <2>2
<1>3. /\ UNCHANGED <<verdict, active, stopping, listed, stream, phase, lane, busy,
                     behind, ledger, answers, attempts, purged>>
      /\ settled' \in {settled, settled \cup {c}}
  BY DEF ActionSucceeds, ActionFails, serverVars, link, store, history
<1>4. ProcessTypes' /\ SlotInv'
  BY <1>1, <1>2, <1>3, OwnerStep
<1>5. ServerTypes' /\ StoreTypes'
  BY <1>1, <1>3 DEF LInv, TypeInv, ServerTypes, StoreTypes
<1>6. OnceInv'
  BY <1>3 DEF LInv, OnceInv
<1>7. owner'[s] = j /\ \A t \in Sessions \ {s} : owner'[t] = owner[t]
  BY <1>1, <1>2
<1> HIDE DEF c
<1>8. OpenInv'
  BY <1>1, <1>2, <1>3, <1>7, OthersOpen DEF c
<1> QED
  BY <1>4, <1>5, <1>6, <1>8 DEF LInv, TypeInv

\* A command has been carried out: Complete().
LEMMA CompleteStep ==
    ASSUME LInv, NEW s \in Sessions, Complete(s) PROVE LInv'
<1> DEFINE c == CommandOf[owner[s].request]
           j == Job(owner[s].request, "answering", "done")
<1>1. /\ owner[s] # NoJob /\ owner[s].request \in RequestsOf(s) /\ c \in Commands
      /\ owner \in [Sessions -> Jobs \cup {NoJob}]
  BY Owned DEF Complete, Stages
<1>2. /\ owner' = [owner EXCEPT ![s] = j]
      /\ ledger' = [ledger EXCEPT ![c] = "done"]
      /\ UNCHANGED <<verdict, active, stopping, listed, stream, phase, lane, busy,
                     behind, answers, attempts, settled, purged>>
  BY DEF Complete, Recorded, Answering, serverVars, link, history
<1>3. j \in JobsOf(s) /\ j.stage # "opening"
  BY <1>1 DEF Job, JobsOf, Answers
<1>4. ProcessTypes' /\ SlotInv'
  BY <1>1, <1>2, <1>3, OwnerStep
<1>5. ServerTypes' /\ StoreTypes'
  BY <1>2 DEF LInv, TypeInv, ServerTypes, StoreTypes
<1>6. OnceInv'
  <2> SUFFICES ASSUME NEW d \in Commands
               PROVE  attempts[d] <= purged[d] + (IF ledger'[d] = "none" THEN 0 ELSE 1)
    BY <1>2 DEF OnceInv
  <2>1. /\ attempts \in [Commands -> Nat] /\ purged \in [Commands -> Nat]
        /\ ledger' [d] \in {ledger[d], "done"}
    BY <1>2 DEF LInv, TypeInv, StoreTypes
  <2> QED
    BY <2>1 DEF LInv, OnceInv
<1>7. owner'[s] = j /\ \A t \in Sessions \ {s} : owner'[t] = owner[t]
  BY <1>1, <1>2
<1>8. \A d \in Commands \ {c} : ledger'[d] = ledger[d] /\ attempts'[d] = attempts[d]
  BY <1>2 DEF LInv, TypeInv, StoreTypes
<1> HIDE DEF c, j
<1>9. OpenInv'
  BY <1>1, <1>2, <1>3, <1>7, <1>8, OthersOpen DEF c
<1> QED
  BY <1>4, <1>5, <1>6, <1>9 DEF LInv, TypeInv

\* beginCommand(): the entry is written in the step that makes the request the
\* session's current one, which keeps its slot.
LEMMA BeginStep ==
    ASSUME LInv, NEW s \in Sessions, Begin(s) PROVE LInv'
<1> DEFINE r == Head(behind[s])
           c == CommandOf[r]
           x == <<s, Len(behind[s])>>
<1>1. /\ owner[s].stage = "none" /\ behind[s] # <<>>
      /\ behind' = [behind EXCEPT ![s] = Tail(@)]
      /\ UNCHANGED <<verdict, active, stopping, listed, stream, phase, lane, busy,
                     answers, attempts, settled, purged>>
  BY DEF Begin, At, serverVars, link, history
<1>2. /\ owner \in [Sessions -> Jobs \cup {NoJob}]
      /\ behind \in [Sessions -> Seq(Requests)]
      /\ behind[s] \in Seq(RequestsOf(s)) /\ owner[s] = NoJob
      /\ ledger \in [Commands -> {"none", "pending", "done", "refused"}]
      /\ attempts \in [Commands -> Nat] /\ purged \in [Commands -> Nat]
  BY <1>1 DEF LInv, TypeInv, ProcessTypes, StoreTypes, JobsOf
<1>3. r \in RequestsOf(s) /\ Tail(behind[s]) \in Seq(RequestsOf(s))
      /\ Tail(behind[s]) \in Seq(Requests)
  BY <1>1, <1>2, HeadTailProperties
<1>4. r \in Requests /\ Session(r) = s /\ c \in Commands
  BY <1>3, LedgerAssumption DEF RequestsOf
<1>5. PICK j \in JobsOf(s) :
          /\ owner' = [owner EXCEPT ![s] = j]
          /\ \/ /\ ledger[c] = "none" /\ ledger' = [ledger EXCEPT ![c] = "pending"]
                /\ j.request = r
             \/ ledger' = ledger /\ j.stage # "opening"
  <2>1. CASE ledger[c] = "none"
    <3> DEFINE k == Job(r, "opening", "none")
    <3>1. k \in JobsOf(s) /\ k.request = r
      BY <1>3 DEF Job, JobsOf
    <3>2. owner' = [owner EXCEPT ![s] = k] /\ ledger' = [ledger EXCEPT ![c] = "pending"]
      BY <2>1 DEF Begin, Begun
    <3> QED
      BY <2>1, <3>1, <3>2
  <2>2. CASE ledger[c] # "none"
    <3> DEFINE a == IF ledger[c] = "pending" THEN "unknown" ELSE ledger[c]
               k == Job(r, "answering", a)
    <3>1. a \in Answers
      BY <1>2, <1>4, <2>2 DEF Answers
    <3> HIDE DEF a
    <3>2. k \in JobsOf(s) /\ k.stage # "opening"
      BY <1>3, <3>1 DEF Job, JobsOf
    <3>3. owner' = [owner EXCEPT ![s] = k] /\ ledger' = ledger
      BY <2>2 DEF Begin, a
    <3> QED
      BY <3>2, <3>3
  <2> QED
    BY <2>1, <2>2
<1>6. /\ owner'[s] = j /\ behind'[s] = Tail(behind[s])
      /\ \A t \in Sessions \ {s} : owner'[t] = owner[t] /\ behind'[t] = behind[t]
  BY <1>1, <1>2, <1>5
<1>7. ProcessTypes'
  <2>1. j \in Jobs
    BY <1>5 DEF Jobs
  <2>2. /\ owner' \in [Sessions -> Jobs \cup {NoJob}]
        /\ behind' \in [Sessions -> Seq(Requests)]
    BY <1>1, <1>2, <1>3, <1>5, <2>1
  <2>3. ASSUME NEW t \in Sessions
        PROVE  owner'[t] \in JobsOf(t) \cup {NoJob} /\ behind'[t] \in Seq(RequestsOf(t))
    <3>1. CASE t = s
      BY <1>3, <1>5, <1>6, <3>1
    <3>2. CASE t # s
      BY <1>6, <3>2 DEF LInv, TypeInv, ProcessTypes
    <3> QED
      BY <3>1, <3>2
  <2> QED
    BY <1>1, <2>2, <2>3 DEF LInv, TypeInv, ProcessTypes
<1>8. SlotInv'
  <2>1. j # NoJob
    BY <1>5 DEF JobsOf, NoJob
  <2>2. /\ SlotsOf([owner EXCEPT ![s] = j], [behind EXCEPT ![s] = Tail(@)])
               = (SlotsOf(owner, behind) \ {x}) \cup {<<s, 0>>}
        /\ x \in SlotsOf(owner, behind) /\ <<s, 0>> \notin SlotsOf(owner, behind)
    BY <1>1, <1>2, <2>1, SlotMoved
  <2>3. /\ Slots' = (Slots \ {x}) \cup {<<s, 0>>}
        /\ x \in Slots /\ <<s, 0>> \notin Slots
    BY <1>1, <1>5, <2>2 DEF Slots, SlotsOf, Places
  <2>4. IsFiniteSet(Slots) /\ busy = Cardinality(Slots)
    BY DEF LInv, SlotInv
  <2> DEFINE y == <<s, 0>>
             T == Slots \ {x}
  <2> HIDE DEF x, y, Slots
  <2>5. IsFiniteSet(T) /\ Cardinality(T) = Cardinality(Slots) - 1
    BY <2>3, <2>4, FS_RemoveElement
  <2>6. y \notin T /\ Slots' = T \cup {y}
    BY <2>3 DEF y
  <2>7. Cardinality(Slots) \in Nat
    BY <2>4, FS_CardinalityType
  <2> HIDE DEF T
  <2>8. IsFiniteSet(T \cup {y}) /\ Cardinality(T \cup {y}) = Cardinality(T) + 1
    BY <2>5, <2>6, FS_AddElement
  <2> QED
    BY <1>1, <2>4, <2>5, <2>6, <2>7, <2>8 DEF SlotInv
<1>9. ServerTypes' /\ StoreTypes'
  BY <1>1, <1>5 DEF LInv, TypeInv, ServerTypes, StoreTypes
<1>10. OnceInv'
  <2>1. \A d \in Commands : ledger'[d] = "none" => ledger[d] = "none"
    BY <1>2, <1>5
  <2> QED
    BY <1>1, <1>2, <2>1 DEF LInv, OnceInv
<1>11. OpenInv'
  <2> SUFFICES ASSUME NEW t \in Sessions, owner'[t].stage = "opening"
               PROVE  /\ ledger'[CommandOf[owner'[t].request]] = "pending"
                      /\ attempts[CommandOf[owner'[t].request]]
                             <= purged[CommandOf[owner'[t].request]]
    BY <1>1 DEF OpenInv
  <2>1. CASE t = s
    <3>1. owner'[t].request = r /\ ledger[c] = "none" /\ ledger'[c] = "pending"
      BY <1>2, <1>4, <1>5, <1>6, <2>1
    <3>2. attempts[c] <= purged[c]
      BY <1>2, <1>4, <3>1 DEF LInv, OnceInv
    <3> QED
      BY <3>1, <3>2
  <2>2. CASE t # s
    <3> DEFINE e == CommandOf[owner[t].request]
    <3>1. owner'[t] = owner[t] /\ owner[t] # NoJob
      BY <1>6, <2>2 DEF NoJob
    <3>2. Session(owner[t].request) = t /\ e \in Commands
      BY <3>1, OwnerFacts
    <3>3. e # c
      BY <1>4, <2>2, <3>2 DEF Session
    <3>4. ledger[e] = "pending" /\ attempts[e] <= purged[e]
      BY <3>1 DEF LInv, OpenInv
    <3> HIDE DEF c
    <3>5. ledger'[e] = ledger[e]
      BY <1>2, <1>5, <3>2, <3>3
    <3> QED
      BY <3>1, <3>4, <3>5
  <2> QED
    BY <2>1, <2>2
<1> QED
  BY <1>7, <1>8, <1>9, <1>10, <1>11 DEF LInv, TypeInv

\* finished(): the slot is freed, or handed to the first command that waits.
LEMMA RespondStep ==
    ASSUME LInv, NEW s \in Sessions, Respond(s) PROVE LInv'
<1> DEFINE r == Head(lane)
           a == [kind |-> owner[s].answer, request |-> owner[s].request]
           y == <<s, 0>>
           T == Slots \ {y}
<1>1. /\ owner[s] # NoJob /\ owner[s].request \in RequestsOf(s)
      /\ owner \in [Sessions -> Jobs \cup {NoJob}]
      /\ owner[s] \in JobsOf(s) /\ owner[s].stage = "answering"
  BY Owned DEF Respond, Stages
<1>2. /\ answers' = Append(answers, a)
      /\ owner' = [owner EXCEPT ![s] = NoJob]
      /\ \/ lane = <<>> /\ busy' = busy - 1 /\ lane' = lane /\ behind' = behind
         \/ lane # <<>> /\ busy' = busy /\ lane' = Tail(lane) /\ behind' = Queued(r)
      /\ UNCHANGED <<verdict, active, stopping, listed, stream, phase, ledger,
                     attempts, settled, purged>>
  BY DEF Respond, Finished, serverVars, link, history
<1>3. /\ behind \in [Sessions -> Seq(Requests)] /\ lane \in Seq(Requests)
      /\ stream \in Seq(StreamItems) /\ busy \in 0 .. LaneLimit
      /\ \A t \in Sessions : owner[t] \in JobsOf(t) \cup {NoJob}
                            /\ behind[t] \in Seq(RequestsOf(t))
      /\ answers \in Seq(AnswerItems)
  BY DEF LInv, TypeInv, ProcessTypes, StoreTypes
<1>4. lane # <<>> => r \in Requests /\ Tail(lane) \in Seq(Requests)
  BY <1>3, HeadTailProperties
<1>5. a \in AnswerItems
  BY <1>1 DEF JobsOf, AnswerItems, RequestsOf
<1>6. /\ owner'[s] = NoJob
      /\ \A t \in Sessions \ {s} : owner'[t] = owner[t]
  BY <1>1, <1>2
<1> HIDE DEF r, a
<1>7. /\ behind' \in [Sessions -> Seq(Requests)]
      /\ \A t \in Sessions : behind'[t] \in Seq(RequestsOf(t))
      /\ lane' \in Seq(Requests)
  <2>1. CASE lane = <<>> /\ lane' = lane /\ behind' = behind
    BY <1>3, <2>1
  <2>2. CASE lane # <<>> /\ lane' = Tail(lane) /\ behind' = Queued(r)
    BY <1>4, <2>2, QueuedFacts
  <2> QED
    BY <1>2, <2>1, <2>2
<1>8. /\ SlotsOf([owner EXCEPT ![s] = NoJob], behind) = SlotsOf(owner, behind) \ {<<s, 0>>}
      /\ <<s, 0>> \in SlotsOf(owner, behind)
  BY <1>1, <1>3, SlotFreed
<1>9. /\ SlotsOf([owner EXCEPT ![s] = NoJob], behind) = T /\ y \in Slots
      /\ Slots' = SlotsOf(owner', behind')
      /\ IsFiniteSet(Slots) /\ busy = Cardinality(Slots)
  BY <1>8 DEF Slots, SlotsOf, Places, LInv, SlotInv
<1> HIDE DEF y, Slots
<1>10. /\ IsFiniteSet(T) /\ Cardinality(T) = busy - 1 /\ Cardinality(T) \in Nat
  BY <1>9, FS_RemoveElement, FS_CardinalityType
<1> HIDE DEF T
<1>11. IsFiniteSet(Slots') /\ busy' = Cardinality(Slots') /\ busy' \in 0 .. LaneLimit
  <2>1. CASE behind' = behind /\ busy' = busy - 1
    <3>1. Slots' = T
      BY <1>2, <1>9, <2>1
    <3> QED
      BY <1>3, <1>10, <2>1, <3>1, LedgerAssumption
  <2>2. CASE lane # <<>> /\ behind' = Queued(r) /\ busy' = busy
    <3> DEFINE t == Session(r)
               x == <<t, Len(behind[t]) + 1>>
    <3>1. behind' = [behind EXCEPT ![t] = Append(@, r)] /\ t \in Sessions
      BY <1>4, <2>2, QueuedFacts
    <3>2. PICK o : o = [owner EXCEPT ![s] = NoJob]
      OBVIOUS
    <3>3. SlotsOf(o, [behind EXCEPT ![t] = Append(@, r)]) = SlotsOf(o, behind) \cup {x}
          /\ x \notin SlotsOf(o, behind)
      BY <1>3, <1>4, <2>2, <3>1, SlotAdded
    <3>4. Slots' = T \cup {x} /\ x \notin T
      BY <1>2, <1>9, <3>1, <3>2, <3>3
    <3> HIDE DEF x
    <3>5. IsFiniteSet(T \cup {x}) /\ Cardinality(T \cup {x}) = Cardinality(T) + 1
      BY <1>10, <3>4, FS_AddElement
    <3> QED
      BY <1>3, <1>10, <2>2, <3>4, <3>5
  <2> QED
    BY <1>2, <2>1, <2>2
<1>12. SlotInv'
  BY <1>11 DEF SlotInv
<1>13. ProcessTypes'
  <2>1. owner' \in [Sessions -> Jobs \cup {NoJob}]
    BY <1>1, <1>2
  <2>2. \A t \in Sessions : owner'[t] \in JobsOf(t) \cup {NoJob}
    BY <1>3, <1>6
  <2>3. stream' \in Seq(StreamItems) /\ phase' \in {"up", "draining", "down"}
    BY <1>2, <1>3 DEF LInv, TypeInv, ProcessTypes
  <2> QED
    BY <1>7, <1>11, <2>1, <2>2, <2>3 DEF ProcessTypes
<1>14. ServerTypes' /\ StoreTypes'
  BY <1>2, <1>3, <1>5 DEF LInv, TypeInv, ServerTypes, StoreTypes
<1>15. OnceInv'
  BY <1>2 DEF LInv, OnceInv
<1>16. OpenInv'
  BY <1>2, <1>6 DEF LInv, OpenInv, NoJob
<1> QED
  BY <1>12, <1>13, <1>14, <1>15, <1>16 DEF LInv, TypeInv

-----------------------------------------------------------------------------
(* The life of the process.                                                *)

LEMMA StopStep == LInv /\ Stop => LInv'
<1> SUFFICES ASSUME LInv, Stop PROVE LInv'
  OBVIOUS
<1>1. /\ phase' = "draining" /\ lane' = <<>> /\ stream' \in Prefixes(stream)
      /\ listed' = {}
      /\ UNCHANGED <<verdict, active, stopping, busy, owner, behind, ledger, answers,
                     attempts, settled, purged>>
  BY DEF Stop, store, history
<1>2. stream' \in Seq(StreamItems) /\ lane' \in Seq(Requests)
  BY <1>1, PrefixTyped, EmptySeq DEF LInv, TypeInv, ProcessTypes
<1>3. ServerTypes' /\ StoreTypes'
  BY <1>1 DEF LInv, TypeInv, ServerTypes, StoreTypes
<1>4. ProcessTypes'
  BY <1>1, <1>2 DEF LInv, TypeInv, ProcessTypes
<1>5. SlotInv' /\ OnceInv' /\ OpenInv'
  BY <1>1 DEF LInv, SlotInv, Slots, OnceInv, OpenInv
<1> QED
  BY <1>3, <1>4, <1>5 DEF LInv, TypeInv

\* A crash loses the chains and the counter together, and no entry.
LEMMA EndsStep == LInv /\ Ends => LInv'
<1> SUFFICES ASSUME LInv, Ends PROVE LInv'
  OBVIOUS
<1>1. /\ phase' = "down" /\ lane' = <<>> /\ busy' = 0 /\ stream' = <<>>
      /\ owner' = [s \in Sessions |-> NoJob]
      /\ behind' = [s \in Sessions |-> <<>>]
      /\ listed' = {}
      /\ UNCHANGED <<verdict, active, stopping, ledger, answers, attempts, settled,
                     purged>>
  BY DEF Ends, store, history
<1>2. ServerTypes' /\ StoreTypes'
  BY <1>1 DEF LInv, TypeInv, ServerTypes, StoreTypes
<1>3. ProcessTypes'
  <2>1. owner' \in [Sessions -> Jobs \cup {NoJob}]
    BY <1>1
  <2>2. behind' \in [Sessions -> Seq(Requests)]
    BY <1>1, EmptySeq
  <2>3. \A s \in Sessions : owner'[s] \in JobsOf(s) \cup {NoJob}
                         /\ behind'[s] \in Seq(RequestsOf(s))
    BY <1>1, EmptySeq
  <2>4. stream' \in Seq(StreamItems) /\ lane' \in Seq(Requests)
    BY <1>1, EmptySeq
  <2>5. phase' \in {"up", "draining", "down"} /\ busy' \in 0 .. LaneLimit
    BY <1>1, LedgerAssumption
  <2> QED
    BY <2>1, <2>2, <2>3, <2>4, <2>5 DEF ProcessTypes
<1>4. SlotInv'
  <2>1. PICK o, b : o = owner' /\ b = behind'
    OBVIOUS
  <2>2. \A s \in Sessions : Places(o, b, s) = {}
    BY <1>1, <2>1 DEF Places
  <2>3. SlotsOf(o, b) = {}
    <3>1. \A x : x \in SlotsOf(o, b) <=>
                    \E s \in Sessions : \E i \in Places(o, b, s) : x = <<s, i>>
      BY SlotMember
    <3> QED
      BY <2>2, <3>1
  <2>4. Slots' = {}
    <3>1. Slots' = SlotsOf(owner', behind')
      BY DEF Slots, SlotsOf, Places
    <3> QED
      BY <2>1, <2>3, <3>1
  <2> QED
    BY <1>1, <2>4, FS_EmptySet DEF SlotInv
<1>5. OnceInv' /\ OpenInv'
  BY <1>1 DEF LInv, OnceInv, OpenInv, NoJob
<1> QED
  BY <1>2, <1>3, <1>4, <1>5 DEF LInv, TypeInv

\* The connector starts.
LEMMA StartStep == LInv /\ Start => LInv'
<1> SUFFICES ASSUME LInv, Start PROVE LInv'
  OBVIOUS
<1>1. /\ phase' = "up"
      /\ UNCHANGED <<verdict, active, stopping, listed, stream, lane, busy, owner,
                     behind, ledger, answers, attempts, settled, purged>>
  BY DEF Start, serverVars, link, store, history
<1>2. ServerTypes' /\ ProcessTypes' /\ StoreTypes'
  BY <1>1 DEF LInv, TypeInv, ServerTypes, ProcessTypes, StoreTypes
<1>3. SlotInv' /\ OnceInv' /\ OpenInv'
  BY <1>1 DEF LInv, SlotInv, Slots, OnceInv, OpenInv
<1> QED
  BY <1>2, <1>3 DEF LInv, TypeInv

\* A step that changes nothing.
LEMMA StutterStep == LInv /\ UNCHANGED vars => LInv'
BY DEF LInv, TypeInv, ServerTypes, ProcessTypes, StoreTypes, SlotInv, Slots,
       OnceInv, OpenInv, vars, serverVars, link, process, store, history

-----------------------------------------------------------------------------
(* Theorems.                                                               *)

LEMMA LedgerStep == LInv /\ [Next]_vars => LInv'
<1> SUFFICES ASSUME LInv, [Next]_vars PROVE LInv'
  OBVIOUS
<1>1. CASE Broker \/ Disconnect
  BY <1>1, BrokerStep
<1>2. CASE Daemon
  <2>1. CASE ReadRequest \/ ReadBarrier
    BY <2>1, ReadRequestStep, ReadBarrierStep
  <2>2. CASE \E s \in Sessions : \/ Begin(s) \/ OpenFails(s) \/ Act(s)
                                 \/ ActionSucceeds(s) \/ ActionFails(s)
                                 \/ Complete(s) \/ Respond(s)
    BY <2>2, BeginStep, OpenFailsStep, ActStep, ActionEndsStep, CompleteStep,
       RespondStep
  <2>3. CASE Stop \/ Drained \/ Crash \/ Start
    BY <2>3, StopStep, EndsStep, StartStep DEF Drained, Crash
  <2> QED
    BY <1>2, <2>1, <2>2, <2>3 DEF Daemon
<1>3. CASE UNCHANGED vars
  BY <1>3, StutterStep
<1> QED
  BY <1>1, <1>2, <1>3 DEF Next

\* The inductive invariant holds in every behaviour, fair or not.
THEOREM LedgerInvariance == Spec => []LInv
BY InitLedger, LedgerStep, PTL DEF Spec

\* A command reaches its provider at most once for each time its session was
\* forgotten: runCommand()'s write-ahead entry, its serialization per session
\* and the barriers together rule out a second execution.
THEOREM AtMostOnce == Spec => []AttemptedOnce
<1>1. LInv => AttemptedOnce
  <2> SUFFICES ASSUME LInv, NEW c \in Commands PROVE attempts[c] <= 1 + purged[c]
    BY DEF AttemptedOnce
  <2>1. attempts[c] \in Nat /\ purged[c] \in Nat
    BY DEF LInv, TypeInv, StoreTypes
  <2> QED
    BY <2>1 DEF LInv, OnceInv
<1> QED
  BY <1>1, LedgerInvariance, PTL

\* Every variable keeps its type, and a session's current request is one of
\* that session's.
THEOREM LedgerTypes == Spec => []TypeOK
<1>1. LInv => TypeOK
  <2> SUFFICES ASSUME LInv PROVE TypeOK
    OBVIOUS
  <2>1. ASSUME NEW s \in Sessions
        PROVE  \/ owner[s] = NoJob
               \/ /\ owner[s].request \in Requests /\ Session(owner[s].request) = s
                  /\ owner[s].stage \in Stages
    BY DEF LInv, TypeInv, ProcessTypes, JobsOf, RequestsOf, Stages
  <2> QED
    BY <2>1 DEF LInv, TypeInv, ServerTypes, ProcessTypes, StoreTypes, TypeOK
<1> QED
  BY <1>1, LedgerInvariance, PTL

\* The scheduler's counter is the number of commands in the daemon's hands.
THEOREM CounterIsTrue == Spec => []SlotsAccounted
<1>1. LInv => SlotsAccounted
  BY DEF LInv, SlotInv, SlotsAccounted
<1> QED
  BY <1>1, LedgerInvariance, PTL

\* A command waits for a slot only while all of them are taken.
THEOREM WorkConserving == Spec => []LaneWorkConserving
<1>1. Init => LaneWorkConserving
  BY DEF Init, LaneWorkConserving
<1>2. LInv /\ LaneWorkConserving /\ [Next]_vars => LaneWorkConserving'
  <2> SUFFICES ASSUME LInv, LaneWorkConserving, [Next]_vars PROVE LaneWorkConserving'
    OBVIOUS
  <2>1. CASE ReadRequest
    <3>1. busy \in 0 .. LaneLimit
      BY DEF LInv, TypeInv, ProcessTypes
    <3>2. \/ UNCHANGED <<lane, busy>>
          \/ UNCHANGED lane /\ busy < LaneLimit
          \/ UNCHANGED busy /\ ~(busy < LaneLimit)
      BY <2>1 DEF ReadRequest
    <3> QED
      BY <3>1, <3>2, LedgerAssumption DEF LaneWorkConserving
  <2>2. CASE \E s \in Sessions : Respond(s)
    <3>1. \/ lane' = <<>>
          \/ lane # <<>> /\ UNCHANGED busy
      BY <2>2 DEF Respond, Finished
    <3> QED
      BY <3>1 DEF LaneWorkConserving
  <2>3. CASE Stop \/ Drained \/ Crash
    BY <2>3 DEF Stop, Drained, Crash, Ends, LaneWorkConserving
  <2>4. CASE UNCHANGED <<lane, busy>>
    BY <2>4 DEF LaneWorkConserving
  <2>5. CASE Broker \/ Disconnect
    BY <2>4, <2>5 DEF Broker, Disconnect, Ask, TimesOut, AskStop, StopGivesUp,
       Deliver, OpenChannel, Register, Unregister, ServerRestart, process
  <2>6. CASE ReadBarrier \/ Start \/ UNCHANGED vars
    BY <2>4, <2>6 DEF ReadBarrier, Start, vars, process
  <2>7. CASE \E s \in Sessions : \/ Begin(s) \/ OpenFails(s) \/ Act(s)
                                 \/ ActionSucceeds(s) \/ ActionFails(s)
                                 \/ Complete(s)
    BY <2>4, <2>7 DEF Begin, OpenFails, Act, ActionSucceeds, ActionFails, Complete
  <2> QED
    BY <2>1, <2>2, <2>3, <2>5, <2>6, <2>7 DEF Next, Daemon
<1> QED
  BY <1>1, <1>2, LedgerInvariance, PTL DEF Spec

\* Only a barrier deletes ledger entries, and it does so while runCommand() is
\* working on nothing.
THEOREM QuietDeletion == Spec => PurgedWhenQuiet
<1>1. LInv /\ [Next]_vars =>
          [\A c \in Commands :
              purged'[c] > purged[c] => owner[SessionOf[c]] = NoJob]_vars
  <2> SUFFICES ASSUME LInv, [Next]_vars, NEW c \in Commands, purged'[c] > purged[c]
               PROVE  owner[SessionOf[c]] = NoJob
    OBVIOUS
  <2>1. CASE ReadBarrier
    <3>1. SessionOf[c] \in Sessions
      BY LedgerAssumption
    <3> QED
      BY <2>1, <3>1, IdleMeansQuiet DEF ReadBarrier, Idle
  <2>2. CASE purged' = purged
    <3>1. purged[c] \in Nat
      BY DEF LInv, TypeInv, StoreTypes
    <3> QED
      BY <2>2, <3>1
  <2>3. CASE ~ReadBarrier
    <3>1. purged' = purged
      BY <2>3 DEF Next, Broker, Disconnect, Daemon, Ask, TimesOut, AskStop, StopGivesUp,
         Deliver, OpenChannel, Register, Unregister, ServerRestart, ReadRequest,
         Begin, OpenFails, Act, ActionSucceeds, ActionFails, Complete, Respond,
         Stop, Drained, Crash, Ends, Start, vars, history
    <3> QED
      BY <2>2, <3>1
  <2> QED
    BY <2>1, <2>3
<1> QED
  BY <1>1, LedgerInvariance, PTL DEF Spec, PurgedWhenQuiet

-----------------------------------------------------------------------------
(***************************************************************************)
(* Proofs about the answers CommandLedger gives: what a browser is told of *)
(* its command is true, and what the connector answers it has written to   *)
(* its ledger before.                                                      *)
(*                                                                         *)
(* The argument: a "done" or a "refused" starts in the ledger and is then  *)
(* only carried on, from the entry to the response, from the response to   *)
(* the durable journal and from there to the request that waits            *)
(* (HonestStep).  It is therefore enough that an entry is true when it is  *)
(* written, and that it stays true: an entry that says "refused" is an     *)
(* entry without an attempt, and as every attempt needs an entry of its    *)
(* own, the provider's attempts stay one behind the entries for good       *)
(* (Unspent), whatever becomes of the entry.                               *)
(***************************************************************************)

(* The inductive invariant.                                                *)

Work(s) == owner[s].stage \in {"opening", "acting", "acted"}

Opens(c) == \E s \in Sessions : /\ owner[s].stage = "opening"
                                /\ CommandOf[owner[s].request] = c

\* One of the command's entries has not led, and will not lead, to an attempt.
Unspent(c) == attempts[c] + (IF Opens(c) THEN 1 ELSE 0) + 1
                <= purged[c] + (IF ledger[c] = "none" THEN 0 ELSE 1)

\* The daemon's answer to the command, before and after it is journaled.
Responding(kind, c) ==
    \E s \in Sessions : /\ owner[s].stage = "answering" /\ owner[s].answer = kind
                        /\ CommandOf[owner[s].request] = c

Journaled(kind, c) ==
    \E i \in DOMAIN answers : /\ answers[i].kind = kind
                              /\ CommandOf[answers[i].request] = c

Told(kind, c) == \E r \in Requests : verdict[r] = kind /\ CommandOf[r] = c

Said(kind, c) == \/ ledger[c] = kind \/ Responding(kind, c)
                 \/ Journaled(kind, c) \/ Told(kind, c)

\* What runCommand() works on has a pending entry, which nobody deletes.
WorkInv == \A s \in Sessions :
               Work(s) => /\ ledger[CommandOf[owner[s].request]] = "pending"
                          /\ owner[s].stage = "acted" =>
                                 CommandOf[owner[s].request] \in settled

ReceiptInv == \A kind \in {"done", "refused"}, c \in Commands :
                  Responding(kind, c) \/ Journaled(kind, c) =>
                      ledger[c] = kind \/ purged[c] > 0

DoneInv    == \A c \in Commands : Said("done", c) => c \in settled
RefusedInv == \A c \in Commands : Said("refused", c) => Unspent(c)

RInv == WorkInv /\ ReceiptInv /\ DoneInv /\ RefusedInv
-----------------------------------------------------------------------------
(* What a step may do with an answer.                                      *)

\* An entry is written true, and deleted only with its session.
EntryMoves(c) ==
    \/ ledger'[c] = ledger[c] /\ purged'[c] = purged[c]
    \/ ledger[c] = "none" /\ ledger'[c] = "pending" /\ purged'[c] = purged[c]
    \/ /\ ledger[c] = "pending" /\ purged'[c] = purged[c]
       /\ \/ ledger'[c] = "done" /\ c \in settled
          \/ ledger'[c] = "refused" /\ Unspent(c)'
    \/ ledger'[c] = "none" /\ purged'[c] = purged[c] + 1

\* An answer is the ledger's, if it is not "unknown".
OwnerMoves(s) ==
    \/ owner'[s] = owner[s]
    \/ owner'[s].stage # "answering"
    \/ owner'[s].answer = "unknown"
    \/ owner'[s].answer = ledger'[CommandOf[owner'[s].request]]

\* A journaled response is an answer, and a verdict a journaled response.
AnswerMoves(a) ==
    \/ a.kind = "stopped"
    \/ \E i \in DOMAIN answers : a = answers[i]
    \/ \E s \in Sessions : /\ owner[s].stage = "answering"
                           /\ a.kind = owner[s].answer
                           /\ a.request = owner[s].request

VerdictMoves(r) ==
    \/ verdict'[r] = verdict[r]
    \/ verdict'[r] \notin {"done", "refused"}
    \/ \E i \in DOMAIN answers : /\ answers[i].kind = verdict'[r]
                                 /\ answers[i].request = r

HonestStep ==
    /\ settled \subseteq settled'
    /\ \A c \in Commands : EntryMoves(c) /\ (Unspent(c) => Unspent(c)')
    /\ \A s \in Sessions : OwnerMoves(s)
    /\ \A i \in DOMAIN answers' : AnswerMoves(answers'[i])
    /\ \A r \in Requests : VerdictMoves(r)

\* After such a step the daemon's answer is an earlier one or the ledger's,
\* and whatever is journaled was an answer or journaled before.
LEMMA AnswersCarried ==
    ASSUME HonestStep, NEW kind \in {"done", "refused"}, NEW c
    PROVE  /\ Responding(kind, c)' => Responding(kind, c) \/ ledger'[c] = kind
           /\ Journaled(kind, c)' => Responding(kind, c) \/ Journaled(kind, c)
           /\ Told(kind, c)' => Told(kind, c) \/ Journaled(kind, c)
<1>1. ASSUME Responding(kind, c)' PROVE Responding(kind, c) \/ ledger'[c] = kind
  <2>1. PICK s \in Sessions : /\ owner'[s].stage = "answering"
                              /\ owner'[s].answer = kind
                              /\ CommandOf[owner'[s].request] = c
    BY <1>1 DEF Responding
  <2>2. OwnerMoves(s)
    BY DEF HonestStep
  <2> QED
    BY <2>1, <2>2 DEF OwnerMoves, Responding
<1>2. ASSUME Journaled(kind, c)' PROVE Responding(kind, c) \/ Journaled(kind, c)
  <2>1. PICK i \in DOMAIN answers' : /\ answers'[i].kind = kind
                                     /\ CommandOf[answers'[i].request] = c
    BY <1>2 DEF Journaled
  <2>2. AnswerMoves(answers'[i])
    BY DEF HonestStep
  <2> QED
    BY <2>1, <2>2 DEF AnswerMoves, Responding, Journaled
<1>3. ASSUME Told(kind, c)' PROVE Told(kind, c) \/ Journaled(kind, c)
  <2>1. PICK r \in Requests : verdict'[r] = kind /\ CommandOf[r] = c
    BY <1>3 DEF Told
  <2>2. VerdictMoves(r)
    BY DEF HonestStep
  <2> QED
    BY <2>1, <2>2 DEF VerdictMoves, Told, Journaled
<1> QED
  BY <1>1, <1>2, <1>3

\* What is said after the step was said before it, or is a new entry.
LEMMA NothingInvented ==
    ASSUME HonestStep, NEW kind \in {"done", "refused"}, NEW c,
           Said(kind, c)'
    PROVE  Said(kind, c) \/ ledger'[c] = kind
BY AnswersCarried DEF Said

\* Answers stay true and covered by the ledger.
LEMMA HonestyKept ==
    ASSUME StoreTypes, RInv, HonestStep
    PROVE  ReceiptInv' /\ DoneInv' /\ RefusedInv'
<1>1. ReceiptInv'
  <2> SUFFICES ASSUME NEW kind \in {"done", "refused"}, NEW c \in Commands,
                      Responding(kind, c)' \/ Journaled(kind, c)'
               PROVE  ledger'[c] = kind \/ purged'[c] > 0
    BY DEF ReceiptInv
  <2>1. purged[c] \in Nat
    BY DEF StoreTypes
  <2>2. EntryMoves(c)
    BY DEF HonestStep
  <2>3. CASE ledger'[c] = kind
    BY <2>3
  <2>4. CASE ledger[c] = kind \/ purged[c] > 0
    BY <2>1, <2>2, <2>4 DEF EntryMoves
  <2> QED
    BY <2>3, <2>4, AnswersCarried DEF RInv, ReceiptInv
<1>2. DoneInv'
  <2> SUFFICES ASSUME NEW c \in Commands, Said("done", c)' PROVE c \in settled'
    BY DEF DoneInv
  <2>1. EntryMoves(c) /\ settled \subseteq settled'
    BY DEF HonestStep
  <2>2. CASE Said("done", c)
    BY <2>1, <2>2 DEF RInv, DoneInv
  <2>3. CASE ledger'[c] = "done"
    <3>1. Said("done", c) \/ c \in settled
      BY <2>1, <2>3 DEF EntryMoves, Said
    <3> QED
      BY <2>1, <3>1 DEF RInv, DoneInv
  <2> QED
    BY <2>2, <2>3, NothingInvented
<1>3. RefusedInv'
  <2> SUFFICES ASSUME NEW c \in Commands, Said("refused", c)' PROVE Unspent(c)'
    BY DEF RefusedInv
  <2>1. EntryMoves(c) /\ (Unspent(c) => Unspent(c)')
    BY DEF HonestStep
  <2>2. CASE Said("refused", c)
    BY <2>1, <2>2 DEF RInv, RefusedInv
  <2>3. CASE ledger'[c] = "refused"
    <3>1. Said("refused", c) \/ Unspent(c)'
      BY <2>1, <2>3 DEF EntryMoves, Said
    <3> QED
      BY <2>1, <3>1 DEF RInv, RefusedInv
  <2> QED
    BY <2>2, <2>3, NothingInvented
<1> QED
  BY <1>1, <1>2, <1>3

-----------------------------------------------------------------------------
(* Lemmas about the steps.                                                 *)

\* A step that attempts nothing, deletes nothing and opens nothing.
LEMMA UnspentKept ==
    ASSUME StoreTypes, NEW c \in Commands, Opens(c)' => Opens(c),
           attempts'[c] = attempts[c], purged'[c] = purged[c],
           ledger'[c] = "none" => ledger[c] = "none"
    PROVE  Unspent(c) => Unspent(c)'
BY DEF StoreTypes, Unspent

\* Steps that leave the entries and their owners alone.
LEMMA SameEntries ==
    ASSUME StoreTypes, UNCHANGED <<ledger, owner, attempts, settled, purged>>
    PROVE  /\ settled \subseteq settled'
           /\ \A c \in Commands : EntryMoves(c) /\ (Unspent(c) => Unspent(c)')
           /\ \A s \in Sessions : OwnerMoves(s)
           /\ WorkInv => WorkInv'
BY DEF EntryMoves, Unspent, Opens, OwnerMoves, WorkInv, Work

\* The connection, the streams, the scheduler's lane and the server's other
\* books have no part in it.
LEMMA QuietHonest ==
    ASSUME StoreTypes, WorkInv, UNCHANGED <<ledger, owner, answers, attempts, settled, purged>>,
           \A r \in Requests : VerdictMoves(r)
    PROVE  HonestStep /\ WorkInv'
<1>1. \A i \in DOMAIN answers' : AnswerMoves(answers'[i])
  BY DEF AnswerMoves
<1> QED
  BY <1>1, SameEntries DEF HonestStep
\* An owner whose stage is known is an owner.
LEMMA Occupied ==
    ASSUME LInv, NEW s \in Sessions, owner[s].stage \in Stages
    PROVE  /\ owner[s] # NoJob /\ owner[s] \in JobsOf(s)
           /\ owner[s].request \in Requests
           /\ CommandOf[owner[s].request] \in Commands
           /\ owner \in [Sessions -> Jobs \cup {NoJob}]
           /\ \A t \in Sessions \ {s} :
                  owner[t].stage \in Stages =>
                      CommandOf[owner[t].request] # CommandOf[owner[s].request]
<1>1. \A t \in Sessions : owner[t].stage \in Stages => owner[t] # NoJob
  BY DEF NoJob, Stages
<1> QED
  BY <1>1, OwnerFacts, OwnersDiffer DEF LInv, TypeInv, ProcessTypes

\* A step of one session that writes at most the entry of the command the
\* session works on, and does not open anything.
LEMMA OwnStep ==
    ASSUME LInv, WorkInv, NEW s \in Sessions, Work(s),
           NEW c, c = CommandOf[owner[s].request],
           NEW j, owner' = [owner EXCEPT ![s] = j], j.stage # "opening",
           j.stage \in {"acting", "acted"} =>
               /\ ledger'[c] = "pending" /\ CommandOf[j.request] = c
               /\ j.stage = "acted" => c \in settled',
           j.stage = "answering" => \/ j.answer = "unknown"
                                    \/ j.answer = ledger'[CommandOf[j.request]],
           EntryMoves(c), Unspent(c) => Unspent(c)',
           \A d \in Commands \ {c} :
               ledger'[d] = ledger[d] /\ attempts'[d] = attempts[d],
           settled \subseteq settled',
           UNCHANGED <<purged, answers, verdict>>
    PROVE  HonestStep /\ WorkInv'
<1>1. /\ owner[s] # NoJob /\ c \in Commands
      /\ owner \in [Sessions -> Jobs \cup {NoJob}]
      /\ \A t \in Sessions \ {s} : owner[t].stage \in Stages =>
             CommandOf[owner[t].request] \in Commands \ {c}
  BY Occupied DEF Work, Stages
<1>2. owner'[s] = j /\ \A t \in Sessions \ {s} : owner'[t] = owner[t]
  BY <1>1
<1>3. ASSUME NEW d \in Commands PROVE EntryMoves(d) /\ (Unspent(d) => Unspent(d)')
  <2>1. CASE d = c
    BY <2>1
  <2>2. CASE d # c
    <3>1. ledger'[d] = ledger[d] /\ attempts'[d] = attempts[d] /\ purged'[d] = purged[d]
      BY <2>2
    <3>2. Opens(d)' => Opens(d)
      BY <1>2 DEF Opens
    <3>3. EntryMoves(d)
      BY <3>1 DEF EntryMoves
    <3> QED
      BY <3>1, <3>2, <3>3, UnspentKept DEF LInv, TypeInv
  <2> QED
    BY <2>1, <2>2
<1>4. \A t \in Sessions : OwnerMoves(t)
  BY <1>2 DEF OwnerMoves
<1>5. \A i \in DOMAIN answers' : AnswerMoves(answers'[i])
  BY DEF AnswerMoves
<1>6. \A r \in Requests : VerdictMoves(r)
  BY DEF VerdictMoves
<1>7. WorkInv'
  <2> SUFFICES ASSUME NEW t \in Sessions, Work(t)'
               PROVE  /\ ledger'[CommandOf[owner'[t].request]] = "pending"
                      /\ owner'[t].stage = "acted" =>
                             CommandOf[owner'[t].request] \in settled'
    BY DEF WorkInv
  <2>1. CASE t = s
    BY <1>2, <2>1 DEF Work
  <2>2. CASE t # s
    <3>1. owner'[t] = owner[t] /\ Work(t)
      BY <1>2, <2>2 DEF Work
    <3>2. CommandOf[owner[t].request] \in Commands \ {c}
      BY <1>1, <2>2, <3>1 DEF Work, Stages
    <3> QED
      BY <3>1, <3>2 DEF WorkInv
  <2> QED
    BY <2>1, <2>2
<1> QED
  BY <1>3, <1>4, <1>5, <1>6, <1>7 DEF HonestStep

-----------------------------------------------------------------------------
(* The steps.                                                              *)

\* The server: a verdict comes from the journal or is neither of the two.
LEMMA BrokerHonest ==
    ASSUME LInv, WorkInv, Broker \/ Disconnect PROVE HonestStep /\ WorkInv'
<1>1. UNCHANGED <<ledger, owner, attempts, settled, purged>>
  BY DEF Broker, Disconnect, Ask, TimesOut, AskStop, StopGivesUp, Deliver,
         OpenChannel, Register, Unregister, ServerRestart, store, process, history
<1>2. /\ answers \in Seq(AnswerItems)
      /\ verdict \in [Requests -> Verdicts]
  BY DEF LInv, TypeInv, StoreTypes, ServerTypes
<1>3. ASSUME NEW i \in DOMAIN answers' PROVE AnswerMoves(answers'[i])
  <2>1. answers' = answers \/ (answers # <<>> /\ answers' = Tail(answers))
    BY DEF Broker, Disconnect, Ask, TimesOut, AskStop, StopGivesUp, Deliver,
           OpenChannel, Register, Unregister, ServerRestart, store
  <2>2. CASE answers' = answers
    BY <2>2 DEF AnswerMoves
  <2>3. CASE answers # <<>> /\ answers' = Tail(answers)
    <3>1. /\ Len(answers) \in Nat /\ DOMAIN answers = 1 .. Len(answers)
          /\ Len(Tail(answers)) = Len(answers) - 1
          /\ DOMAIN Tail(answers) = 1 .. Len(Tail(answers))
      BY <1>2, <2>3
    <3>2. i + 1 \in DOMAIN answers /\ answers'[i] = answers[i + 1]
      BY <1>2, <2>3, <3>1
    <3> QED
      BY <3>2 DEF AnswerMoves
  <2> QED
    BY <2>1, <2>2, <2>3
<1>4. ASSUME NEW r \in Requests PROVE VerdictMoves(r)
  <2>1. CASE \E q \in Requests : Ask(q) \/ TimesOut(q)
    <3>1. PICK q \in Requests, v \in {"pending", "offline", "unknown"} :
              verdict' = [verdict EXCEPT ![q] = v]
      BY <2>1 DEF Ask, TimesOut
    <3>2. verdict'[r] = verdict[r] \/ verdict'[r] = v
      BY <1>2, <3>1
    <3> QED
      BY <3>2 DEF VerdictMoves
  <2>2. CASE \E acknowledged \in BOOLEAN : Deliver(acknowledged)
    <3> DEFINE a == Head(answers)
    <3>1. answers # <<>>
      BY <2>2 DEF Deliver
    <3>2. 1 \in DOMAIN answers /\ a = answers[1]
      BY <1>2, <3>1
    <3>3. verdict' = verdict \/ verdict' = [verdict EXCEPT ![a.request] = a.kind]
      BY <2>2 DEF Deliver
    <3>4. verdict'[r] = verdict[r] \/ (verdict'[r] = a.kind /\ r = a.request)
      BY <1>2, <3>3
    <3> QED
      BY <3>2, <3>4 DEF VerdictMoves
  <2>3. CASE ServerRestart
    BY <2>3 DEF ServerRestart, VerdictMoves
  <2>4. CASE verdict' = verdict
    BY <2>4 DEF VerdictMoves
  <2> QED
    BY <2>1, <2>2, <2>3, <2>4 DEF Broker, Disconnect, AskStop, StopGivesUp,
       OpenChannel, Register, Unregister, serverVars
<1> QED
  BY <1>1, <1>3, <1>4, SameEntries DEF HonestStep, LInv, TypeInv

\* The stream, the scheduler's lane and the life of the process.
LEMMA ProcessHonest ==
    ASSUME LInv, WorkInv, ReadRequest \/ Stop \/ Start \/ UNCHANGED vars
    PROVE  HonestStep /\ WorkInv'
<1>1. UNCHANGED <<ledger, owner, answers, attempts, settled, purged, verdict>>
  BY DEF ReadRequest, Stop, Start, vars, serverVars, store, process, history
<1>2. \A r \in Requests : VerdictMoves(r)
  BY <1>1 DEF VerdictMoves
<1> QED
  BY <1>1, <1>2, QuietHonest DEF LInv, TypeInv

\* A crash ends all work, and its entries stay.
LEMMA EndsHonest ==
    ASSUME LInv, WorkInv, Ends PROVE HonestStep /\ WorkInv'
<1>1. /\ owner' = [s \in Sessions |-> NoJob]
      /\ UNCHANGED <<ledger, answers, attempts, settled, purged, verdict>>
  BY DEF Ends, store, history
<1>2. \A s \in Sessions : owner'[s].stage = "none"
  BY <1>1 DEF NoJob
<1>3. \A c \in Commands : ~Opens(c)'
  BY <1>2 DEF Opens
<1>4. \A c \in Commands : EntryMoves(c) /\ (Unspent(c) => Unspent(c)')
  BY <1>1, <1>3, UnspentKept DEF EntryMoves, LInv, TypeInv
<1>5. \A s \in Sessions : OwnerMoves(s)
  BY <1>2 DEF OwnerMoves
<1>6. \A i \in DOMAIN answers' : AnswerMoves(answers'[i])
  BY <1>1 DEF AnswerMoves
<1>7. \A r \in Requests : VerdictMoves(r)
  BY <1>1 DEF VerdictMoves
<1>8. WorkInv'
  BY <1>2 DEF WorkInv, Work
<1> QED
  BY <1>1, <1>4, <1>5, <1>6, <1>7, <1>8 DEF HonestStep

\* A barrier deletes entries while nobody works: an entry not attempted is
\* then counted among the deleted ones.
LEMMA BarrierHonest ==
    ASSUME LInv, WorkInv, ReadBarrier PROVE HonestStep /\ WorkInv'
<1>1. UNCHANGED <<owner, attempts, settled, verdict>>
  BY DEF ReadBarrier, serverVars, process
<1>2. PICK S : Purge(S)
  BY DEF ReadBarrier
<1>3. \A s \in Sessions : owner[s] = NoJob
  BY IdleMeansQuiet DEF ReadBarrier, Idle
<1>4. /\ ledger \in [Commands -> {"none", "pending", "done", "refused"}]
      /\ purged \in [Commands -> Nat] /\ attempts \in [Commands -> Nat]
      /\ answers \in Seq(AnswerItems)
  BY DEF LInv, TypeInv, StoreTypes
<1>5. \A c \in Commands : ~Opens(c) /\ ~Opens(c)'
  BY <1>1, <1>3 DEF Opens, NoJob
<1>6. ASSUME NEW c \in Commands PROVE EntryMoves(c) /\ (Unspent(c) => Unspent(c)')
  <2>1. \/ ledger'[c] = ledger[c] /\ purged'[c] = purged[c]
        \/ ledger'[c] = "none" /\ ledger[c] # "none" /\ purged'[c] = purged[c] + 1
    BY <1>2 DEF Purge
  <2> QED
    BY <1>1, <1>4, <1>5, <2>1 DEF EntryMoves, Unspent
<1>7. ASSUME NEW i \in DOMAIN answers' PROVE AnswerMoves(answers'[i])
  <2>1. \/ answers' = answers
        \/ answers' = Append(answers, [kind |-> "stopped",
                                       session |-> Head(stream).session])
    BY DEF ReadBarrier
  <2> QED
    BY <1>4, <2>1, SMTT(30) DEF AnswerMoves
<1>8. \A s \in Sessions : OwnerMoves(s)
  BY <1>1 DEF OwnerMoves
<1>9. \A r \in Requests : VerdictMoves(r)
  BY <1>1 DEF VerdictMoves
<1>10. WorkInv'
  BY <1>1, <1>3 DEF WorkInv, Work, NoJob
<1> QED
  BY <1>1, <1>6, <1>7, <1>8, <1>9, <1>10 DEF HonestStep
\* The entry of a command the runtime did not open for is refused, and no
\* attempt has been made for it.
LEMMA OpenFailsHonest ==
    ASSUME LInv, WorkInv, NEW s \in Sessions, OpenFails(s)
    PROVE  HonestStep /\ WorkInv'
<1>0. PICK c : c = CommandOf[owner[s].request]
  OBVIOUS
<1> DEFINE j == Job(owner[s].request, "answering", "refused")
<1>1. owner[s].stage = "opening" /\ Work(s)
  BY DEF OpenFails, At, Work
<1>2. /\ c \in Commands /\ ledger[c] = "pending" /\ attempts[c] <= purged[c]
      /\ owner \in [Sessions -> Jobs \cup {NoJob}]
      /\ \A t \in Sessions \ {s} : owner[t].stage = "opening" =>
             CommandOf[owner[t].request] # c
  BY <1>0, <1>1, Occupied DEF Stages, LInv, OpenInv
<1>3. /\ owner' = [owner EXCEPT ![s] = j]
      /\ ledger' = [ledger EXCEPT ![c] = "refused"]
      /\ UNCHANGED <<verdict, answers, attempts, settled, purged>>
  BY <1>0 DEF OpenFails, Recorded, Answering, serverVars, history
<1>4. /\ ledger'[c] = "refused"
      /\ \A d \in Commands \ {c} : ledger'[d] = ledger[d] /\ attempts'[d] = attempts[d]
  BY <1>2, <1>3 DEF LInv, TypeInv, StoreTypes
<1>5. j.stage = "answering" /\ j.answer = "refused" /\ j.request = owner[s].request
  BY DEF Job
<1>6. owner'[s] = j /\ \A t \in Sessions \ {s} : owner'[t] = owner[t]
  BY <1>2, <1>3
<1>7. ~Opens(c)'
  BY <1>2, <1>5, <1>6 DEF Opens
<1>8. Unspent(c)'
  BY <1>2, <1>3, <1>4, <1>7 DEF Unspent, LInv, TypeInv, StoreTypes
<1>9. EntryMoves(c)
  BY <1>2, <1>3, <1>4, <1>8 DEF EntryMoves
<1> HIDE DEF j
<1> QED
  BY <1>0, <1>1, <1>3, <1>4, <1>5, <1>8, <1>9, OwnStep

\* The attempt takes the place of the opening that led to it.
LEMMA ActHonest ==
    ASSUME LInv, WorkInv, NEW s \in Sessions, Act(s)
    PROVE  HonestStep /\ WorkInv'
<1>0. PICK c : c = CommandOf[owner[s].request]
  OBVIOUS
<1> DEFINE j == [owner[s] EXCEPT !.stage = "acting"]
<1>1. owner[s].stage = "opening" /\ Work(s)
  BY DEF Act, At, Work
<1>2. /\ c \in Commands /\ ledger[c] = "pending"
      /\ owner[s] \in JobsOf(s)
      /\ owner \in [Sessions -> Jobs \cup {NoJob}]
      /\ \A t \in Sessions \ {s} : owner[t].stage = "opening" =>
             CommandOf[owner[t].request] # c
  BY <1>0, <1>1, Occupied DEF Stages, LInv, OpenInv
<1>3. /\ owner' = [owner EXCEPT ![s] = j]
      /\ attempts' = [attempts EXCEPT ![c] = @ + 1]
      /\ UNCHANGED <<verdict, answers, ledger, settled, purged>>
  BY <1>0 DEF Act, Moves, serverVars, store
<1>4. /\ attempts'[c] = attempts[c] + 1
      /\ \A d \in Commands \ {c} : ledger'[d] = ledger[d] /\ attempts'[d] = attempts[d]
  BY <1>2, <1>3 DEF LInv, TypeInv, StoreTypes
<1>5. j.stage = "acting" /\ j.request = owner[s].request
  BY <1>2 DEF JobsOf
<1>6. owner'[s] = j /\ \A t \in Sessions \ {s} : owner'[t] = owner[t]
  BY <1>2, <1>3
<1> HIDE DEF j
<1>7. Opens(c) /\ ~Opens(c)'
  <2>1. Opens(c)
    BY <1>0, <1>1 DEF Opens
  <2>2. ~Opens(c)'
    BY <1>2, <1>5, <1>6 DEF Opens
  <2> QED
    BY <2>1, <2>2
<1>8. Unspent(c) => Unspent(c)'
  BY <1>2, <1>3, <1>4, <1>7 DEF Unspent, LInv, TypeInv, StoreTypes
<1>9. EntryMoves(c)
  BY <1>3 DEF EntryMoves
<1> QED
  BY <1>0, <1>1, <1>2, <1>3, <1>4, <1>5, <1>8, <1>9, OwnStep

\* The provider's success is what "done" will speak of.
LEMMA SucceedsHonest ==
    ASSUME LInv, WorkInv, NEW s \in Sessions, ActionSucceeds(s)
    PROVE  HonestStep /\ WorkInv'
<1>0. PICK c : c = CommandOf[owner[s].request]
  OBVIOUS
<1> DEFINE j == [owner[s] EXCEPT !.stage = "acted"]
<1>1. owner[s].stage = "acting" /\ Work(s)
  BY DEF ActionSucceeds, At, Work
<1>2. /\ c \in Commands /\ ledger[c] = "pending" /\ owner[s] \in JobsOf(s)
      /\ owner \in [Sessions -> Jobs \cup {NoJob}]
  BY <1>0, <1>1, Occupied DEF Stages, WorkInv
<1>3. /\ owner' = [owner EXCEPT ![s] = j] /\ settled' = settled \cup {c}
      /\ UNCHANGED <<verdict, answers, ledger, attempts, purged>>
  BY <1>0 DEF ActionSucceeds, Moves, serverVars, store
<1>4. j.stage = "acted" /\ j.request = owner[s].request
  BY <1>2 DEF JobsOf
<1>5. owner'[s] = j /\ \A t \in Sessions \ {s} : owner'[t] = owner[t]
  BY <1>2, <1>3
<1>6. Opens(c)' => Opens(c)
  BY <1>4, <1>5 DEF Opens
<1>7. EntryMoves(c) /\ (Unspent(c) => Unspent(c)')
  BY <1>2, <1>3, <1>6, UnspentKept DEF EntryMoves, LInv, TypeInv
<1> HIDE DEF j
<1> QED
  BY <1>0, <1>1, <1>2, <1>3, <1>4, <1>7, OwnStep

\* An error after the attempt says nothing but "unknown".
LEMMA FailsHonest ==
    ASSUME LInv, WorkInv, NEW s \in Sessions, ActionFails(s)
    PROVE  HonestStep /\ WorkInv'
<1>0. PICK c : c = CommandOf[owner[s].request]
  OBVIOUS
<1> DEFINE j == Job(owner[s].request, "answering", "unknown")
<1>1. owner[s].stage \in {"acting", "acted"} /\ Work(s)
  BY DEF ActionFails, At, Work
<1>2. /\ c \in Commands /\ owner \in [Sessions -> Jobs \cup {NoJob}]
  BY <1>0, <1>1, Occupied DEF Stages
<1>3. /\ owner' = [owner EXCEPT ![s] = j]
      /\ UNCHANGED <<verdict, answers, ledger, attempts, settled, purged>>
  BY <1>0 DEF ActionFails, Answering, serverVars, store, history
<1>4. j.stage = "answering" /\ j.answer = "unknown"
  BY DEF Job
<1>5. owner'[s] = j /\ \A t \in Sessions \ {s} : owner'[t] = owner[t]
  BY <1>2, <1>3
<1>6. Opens(c)' => Opens(c)
  BY <1>4, <1>5 DEF Opens
<1>7. EntryMoves(c) /\ (Unspent(c) => Unspent(c)')
  BY <1>2, <1>3, <1>6, UnspentKept DEF EntryMoves, LInv, TypeInv
<1> HIDE DEF j
<1> QED
  BY <1>0, <1>1, <1>2, <1>3, <1>4, <1>7, OwnStep

\* The outcome is recorded before it is answered.
LEMMA CompleteHonest ==
    ASSUME LInv, WorkInv, NEW s \in Sessions, Complete(s)
    PROVE  HonestStep /\ WorkInv'
<1>0. PICK c : c = CommandOf[owner[s].request]
  OBVIOUS
<1> DEFINE j == Job(owner[s].request, "answering", "done")
<1>1. owner[s].stage = "acted" /\ Work(s)
  BY DEF Complete, At, Work
<1>2. /\ c \in Commands /\ ledger[c] = "pending" /\ c \in settled
      /\ owner \in [Sessions -> Jobs \cup {NoJob}]
  BY <1>0, <1>1, Occupied DEF Stages, WorkInv
<1>3. /\ owner' = [owner EXCEPT ![s] = j]
      /\ ledger' = [ledger EXCEPT ![c] = "done"]
      /\ UNCHANGED <<verdict, answers, attempts, settled, purged>>
  BY <1>0 DEF Complete, Recorded, Answering, serverVars, history
<1>4. /\ ledger'[c] = "done"
      /\ \A d \in Commands \ {c} : ledger'[d] = ledger[d] /\ attempts'[d] = attempts[d]
  BY <1>2, <1>3 DEF LInv, TypeInv, StoreTypes
<1>5. j.stage = "answering" /\ j.answer = "done" /\ j.request = owner[s].request
  BY DEF Job
<1>6. owner'[s] = j /\ \A t \in Sessions \ {s} : owner'[t] = owner[t]
  BY <1>2, <1>3
<1>7. Opens(c)' => Opens(c)
  BY <1>5, <1>6 DEF Opens
<1>8. EntryMoves(c) /\ (Unspent(c) => Unspent(c)')
  BY <1>2, <1>3, <1>4, <1>7, UnspentKept DEF EntryMoves, LInv, TypeInv
<1> HIDE DEF j
<1> QED
  BY <1>0, <1>1, <1>3, <1>4, <1>5, <1>8, OwnStep

\* beginCommand(): a new entry for the work it lets begin, or the answer of
\* the entry that is there.
LEMMA BeginHonest ==
    ASSUME LInv, WorkInv, NEW s \in Sessions, Begin(s)
    PROVE  HonestStep /\ WorkInv'
<1> DEFINE r == Head(behind[s])
<1>0. PICK c : c = CommandOf[r]
  OBVIOUS
<1>1. /\ owner[s].stage = "none" /\ behind[s] # <<>>
      /\ UNCHANGED <<verdict, answers, attempts, settled, purged>>
  BY DEF Begin, At, serverVars, history
<1>2. /\ owner \in [Sessions -> Jobs \cup {NoJob}]
      /\ behind[s] \in Seq(RequestsOf(s))
      /\ ledger \in [Commands -> {"none", "pending", "done", "refused"}]
  BY DEF LInv, TypeInv, ProcessTypes, StoreTypes
<1>3. r \in RequestsOf(s)
  BY <1>1, <1>2, HeadTailProperties
<1>4. c \in Commands /\ SessionOf[c] = s
  BY <1>0, <1>3, LedgerAssumption DEF RequestsOf, Session
<1>5. \A t \in Sessions \ {s} :
          owner[t].stage \in Stages => CommandOf[owner[t].request] # c
  <2> SUFFICES ASSUME NEW t \in Sessions \ {s}, owner[t].stage \in Stages
               PROVE  Session(owner[t].request) = t
    BY <1>4 DEF Session
  <2>1. owner[t] # NoJob
    BY DEF NoJob, Stages
  <2> QED
    BY <2>1, OwnerFacts
<1>6. PICK j : /\ owner' = [owner EXCEPT ![s] = j] /\ CommandOf[j.request] = c
               /\ \/ /\ ledger[c] = "none" /\ ledger' = [ledger EXCEPT ![c] = "pending"]
                     /\ j.stage = "opening"
                  \/ /\ ledger[c] # "none" /\ ledger' = ledger
                     /\ j.stage = "answering"
                     /\ j.answer = "unknown" \/ j.answer = ledger[c]
  <2>1. CASE ledger[c] = "none"
    <3> DEFINE k == Job(r, "opening", "none")
    <3>1. owner' = [owner EXCEPT ![s] = k] /\ ledger' = [ledger EXCEPT ![c] = "pending"]
      BY <1>0, <2>1 DEF Begin, Begun
    <3>2. k.request = r /\ k.stage = "opening"
      BY DEF Job
    <3> HIDE DEF k
    <3> QED
      BY <1>0, <2>1, <3>1, <3>2
  <2>2. CASE ledger[c] # "none"
    <3> DEFINE a == IF ledger[c] = "pending" THEN "unknown" ELSE ledger[c]
               k == Job(r, "answering", a)
    <3>1. owner' = [owner EXCEPT ![s] = k] /\ ledger' = ledger
      BY <1>0, <2>2 DEF Begin
    <3>2. k.request = r /\ k.stage = "answering" /\ k.answer = a
      BY DEF Job
    <3> HIDE DEF k, r
    <3> QED
      BY <1>0, <2>2, <3>1, <3>2
  <2> QED
    BY <2>1, <2>2
<1>7. owner'[s] = j /\ \A t \in Sessions \ {s} : owner'[t] = owner[t]
  BY <1>2, <1>6
<1>8. ledger'[c] = (IF ledger[c] = "none" THEN "pending" ELSE ledger[c])
      /\ \A d \in Commands \ {c} : ledger'[d] = ledger[d]
  BY <1>2, <1>4, <1>6
<1>9. ASSUME NEW d \in Commands PROVE EntryMoves(d) /\ (Unspent(d) => Unspent(d)')
  <2>1. CASE d = c /\ ledger[c] = "none"
    <3>1. ~Opens(c)
      BY <1>1, <1>5 DEF Opens, Stages
    <3>2. Unspent(c) => Unspent(c)'
      BY <1>1, <1>4, <1>8, <2>1, <3>1 DEF Unspent, LInv, TypeInv, StoreTypes
    <3> QED
      BY <1>1, <1>8, <2>1, <3>2 DEF EntryMoves
  <2>2. CASE d # c \/ ledger[c] # "none"
    <3>1. ledger'[d] = ledger[d]
      BY <1>8, <2>2
    <3>2. Opens(d)' => Opens(d)
      BY <1>6, <1>7, <2>2 DEF Opens
    <3> QED
      BY <1>1, <3>1, <3>2, UnspentKept DEF EntryMoves, LInv, TypeInv
  <2> QED
    BY <2>1, <2>2
<1>10. \A t \in Sessions : OwnerMoves(t)
  BY <1>6, <1>7, <1>8 DEF OwnerMoves
<1>11. \A i \in DOMAIN answers' : AnswerMoves(answers'[i])
  BY <1>1 DEF AnswerMoves
<1>12. \A q \in Requests : VerdictMoves(q)
  BY <1>1 DEF VerdictMoves
<1>13. WorkInv'
  <2> SUFFICES ASSUME NEW t \in Sessions, Work(t)'
               PROVE  /\ ledger'[CommandOf[owner'[t].request]] = "pending"
                      /\ owner'[t].stage = "acted" =>
                             CommandOf[owner'[t].request] \in settled'
    BY DEF WorkInv
  <2>1. CASE t = s
    BY <1>6, <1>7, <1>8, <2>1 DEF Work
  <2>2. CASE t # s
    <3>1. owner'[t] = owner[t] /\ Work(t)
      BY <1>7, <2>2 DEF Work
    <3>2. owner[t].stage \in Stages
      BY <3>1 DEF Work, Stages
    <3>3. CommandOf[owner[t].request] \in Commands \ {c}
      BY <1>5, <2>2, <3>2, Occupied
    <3> QED
      BY <1>1, <1>8, <3>1, <3>3 DEF WorkInv
  <2> QED
    BY <2>1, <2>2
<1> QED
  BY <1>1, <1>9, <1>10, <1>11, <1>12, <1>13 DEF HonestStep

\* dispatch() journals the daemon's answer as it is.
LEMMA RespondHonest ==
    ASSUME LInv, WorkInv, NEW s \in Sessions, Respond(s)
    PROVE  HonestStep /\ WorkInv'
<1> DEFINE a == [kind |-> owner[s].answer, request |-> owner[s].request]
<1>1. /\ owner[s].stage = "answering"
      /\ answers' = Append(answers, a) /\ owner' = [owner EXCEPT ![s] = NoJob]
      /\ UNCHANGED <<verdict, ledger, attempts, settled, purged>>
  BY DEF Respond, At, serverVars, history
<1>2. /\ owner \in [Sessions -> Jobs \cup {NoJob}] /\ answers \in Seq(AnswerItems)
  BY DEF LInv, TypeInv, ProcessTypes, StoreTypes
<1>3. owner'[s] = NoJob /\ \A t \in Sessions \ {s} : owner'[t] = owner[t]
  BY <1>1, <1>2
<1>4. \A c \in Commands : Opens(c)' => Opens(c)
  BY <1>3 DEF Opens, NoJob
<1>5. \A c \in Commands : EntryMoves(c) /\ (Unspent(c) => Unspent(c)')
  BY <1>1, <1>4, UnspentKept DEF EntryMoves, LInv, TypeInv
<1>6. \A t \in Sessions : OwnerMoves(t)
  BY <1>3 DEF OwnerMoves, NoJob
<1>7. ASSUME NEW i \in DOMAIN answers' PROVE AnswerMoves(answers'[i])
  <2>1. a.kind = owner[s].answer /\ a.request = owner[s].request
    OBVIOUS
  <2> HIDE DEF a
  <2>2. answers'[i] = a \/ (i \in DOMAIN answers /\ answers'[i] = answers[i])
    BY <1>1, <1>2
  <2> QED
    BY <1>1, <2>1, <2>2 DEF AnswerMoves
<1>8. \A r \in Requests : VerdictMoves(r)
  BY <1>1 DEF VerdictMoves
<1>9. WorkInv'
  BY <1>1, <1>3 DEF WorkInv, Work, NoJob
<1> QED
  BY <1>1, <1>5, <1>6, <1>7, <1>8, <1>9 DEF HonestStep

-----------------------------------------------------------------------------
(* Theorems.                                                               *)

\* At the start nothing is said.
LEMMA InitHonest == Init => RInv
<1> SUFFICES ASSUME Init PROVE RInv
  OBVIOUS
<1>1. \A s \in Sessions : owner[s].stage = "none"
  BY DEF Init, NoJob
<1>2. \A kind \in {"done", "refused"}, c \in Commands :
          ~Responding(kind, c) /\ ~Journaled(kind, c) /\ ~Said(kind, c)
  BY <1>1 DEF Init, Said, Responding, Journaled, Told
<1> QED
  BY <1>1, <1>2 DEF RInv, WorkInv, Work, ReceiptInv, DoneInv, RefusedInv

\* Every step only carries answers on, so the invariant survives it.
LEMMA HonestSteps == LInv /\ RInv /\ [Next]_vars => RInv'
<1> SUFFICES ASSUME LInv, RInv, [Next]_vars PROVE RInv'
  OBVIOUS
<1>1. WorkInv /\ StoreTypes
  BY DEF RInv, LInv, TypeInv
<1>2. HonestStep /\ WorkInv'
  <2>1. CASE Broker \/ Disconnect
    BY <1>1, <2>1, BrokerHonest
  <2>2. CASE ReadRequest \/ Stop \/ Start \/ UNCHANGED vars
    BY <1>1, <2>2, ProcessHonest
  <2>3. CASE Drained \/ Crash
    BY <1>1, <2>3, EndsHonest DEF Drained, Crash
  <2>4. CASE ReadBarrier
    BY <1>1, <2>4, BarrierHonest
  <2>5. ASSUME NEW s \in Sessions,
               \/ Begin(s) \/ OpenFails(s) \/ Act(s)
               \/ ActionSucceeds(s) \/ ActionFails(s)
               \/ Complete(s) \/ Respond(s)
        PROVE  HonestStep /\ WorkInv'
    BY <1>1, <2>5, BeginHonest, OpenFailsHonest, ActHonest, SucceedsHonest,
       FailsHonest, CompleteHonest, RespondHonest
  <2> QED
    BY <2>1, <2>2, <2>3, <2>4, <2>5 DEF Next, Daemon
<1> QED
  BY <1>1, <1>2, HonestyKept DEF RInv

\* The second invariant, on top of the one of CommandLedger_proofs.
LEMMA HonestInvariance == Spec => []RInv
BY LedgerInvariance, InitHonest, HonestSteps, PTL DEF Spec

\* A browser is told the truth: "done" only of a command its provider has
\* carried out, "refused" only of one that never reached it, whatever crashes,
\* replays, repetitions and deletions came between (runCommand(), accept()).
THEOREM VerdictsAreHonest == Spec => []HonestVerdicts
<1>1. LInv /\ RInv => HonestVerdicts
  <2> SUFFICES ASSUME LInv, RInv, NEW r \in Requests
               PROVE  LET c == CommandOf[r]
                      IN  /\ verdict[r] = "done" => c \in settled
                          /\ verdict[r] = "refused" => attempts[c] <= purged[c]
    BY DEF HonestVerdicts
  <2> DEFINE c == CommandOf[r]
  <2>1. c \in Commands /\ attempts[c] \in Nat /\ purged[c] \in Nat
    BY LedgerAssumption DEF LInv, TypeInv, StoreTypes
  <2>2. verdict[r] = "done" => Said("done", c)
    BY DEF Said, Told
  <2>3. verdict[r] = "refused" => Said("refused", c)
    BY DEF Said, Told
  <2>4. Unspent(c) => attempts[c] <= purged[c]
    BY <2>1 DEF Unspent
  <2> QED
    BY <2>1, <2>2, <2>3, <2>4 DEF RInv, DoneInv, RefusedInv
<1> QED
  BY <1>1, LedgerInvariance, HonestInvariance, PTL

\* Receipts come first: completeCommand() and refuseCommand() write what the
\* journaled response will say, and only the deletion of the session takes the
\* entry away.
THEOREM ReceiptsFirst == Spec => []ReceiptBeforeAnswer
<1>1. LInv /\ RInv => ReceiptBeforeAnswer
  <2> SUFFICES ASSUME LInv, RInv, NEW i \in DOMAIN answers,
                      answers[i].kind \in {"done", "refused"}
               PROVE  LET c == CommandOf[answers[i].request]
                      IN  ledger[c] = answers[i].kind \/ purged[c] > 0
    BY DEF ReceiptBeforeAnswer
  <2> DEFINE c == CommandOf[answers[i].request]
  <2>1. answers[i] \in AnswerItems
    BY DEF LInv, TypeInv, StoreTypes
  <2>2. c \in Commands
    BY <2>1, LedgerAssumption DEF AnswerItems
  <2>3. Journaled(answers[i].kind, c)
    BY DEF Journaled
  <2> QED
    BY <2>2, <2>3 DEF RInv, ReceiptInv
<1> QED
  BY <1>1, LedgerInvariance, HonestInvariance, PTL

=============================================================================
