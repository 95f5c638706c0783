---------------------- MODULE ConnectorDelivery_proofs ----------------------
(***************************************************************************)
(* Proofs about the durable lane of ConnectorDelivery, for every number of *)
(* events, batch limit, crash, restart and late request.                   *)
(*                                                                         *)
(* The argument: every durable request, awaited or abandoned, carries a    *)
(* run of consecutive payloads that starts right after payloads the server *)
(* has already processed (RequestInv).  While the request's epoch is still *)
(* the journal's, its sequences mean the same payloads as the journal's    *)
(* own (the last conjunct), so deleting what it acknowledges deletes only  *)
(* processed payloads.  A rebase draws a fresh epoch, which makes every    *)
(* older answer unacceptable.                                              *)
(***************************************************************************)
EXTENDS ConnectorDelivery, TLAPS, FiniteSetTheorems, SequenceTheorems

-----------------------------------------------------------------------------
(* The inductive invariant.                                                *)

JournalInv ==
    /\ emitted \in Nat /\ epochs \in Nat
    /\ journal = [epoch |-> journal.epoch, next |-> journal.next,
                  acked |-> journal.acked, events |-> journal.events]
    /\ journal.epoch \in 1 .. epochs
    /\ journal.next \in 0 .. emitted /\ journal.acked \in 0 .. journal.next
    /\ Pending(journal) = journal.acked + 1 .. journal.next
    /\ PendingInOrder

AcceptedInv ==
    /\ AcceptedInOrder
    /\ 1 .. (journal.acked + Shift) \subseteq accepted

Offset(r) == r.events[r.first] - r.first

RequestShape(r) ==
    r = [kind |-> r.kind, epoch |-> r.epoch, first |-> r.first,
         last |-> r.last, events |-> r.events, pos |-> r.pos,
         frag |-> r.frag]

DurableInv(r) ==
    /\ r.epoch \in 1 .. epochs
    /\ r.first \in Nat \ {0} /\ r.last \in Nat /\ r.pos \in Nat
    /\ r.first - 1 <= r.pos /\ r.pos <= r.last /\ r.first <= r.last
    /\ Offset(r) \in Nat /\ r.last + Offset(r) <= emitted
    /\ \A s \in r.first .. r.last : r.events[s] = s + Offset(r)
    /\ 1 .. (r.pos + Offset(r)) \subseteq accepted
    /\ r.epoch = journal.epoch => Offset(r) = Shift

RequestInv(r) == RequestShape(r) /\ (r.kind = "durable" => DurableInv(r))

FlightShape(f) ==
    f = [request |-> f.request, ack |-> f.ack, alive |-> f.alive,
         hints |-> f.hints, queued |-> f.queued]

FlightInv(f) ==
    f # NoFlight =>
        /\ FlightShape(f) /\ RequestInv(f.request)
        /\ f.request.kind = "durable" =>
               \/ f.ack \in {NoAck, 0}
               \/ f.ack = f.request.last /\ f.request.pos = f.request.last

LateInv == \A r \in late : RequestInv(r)

IInv == JournalInv /\ AcceptedInv /\ FlightInv(flight) /\ LateInv

-----------------------------------------------------------------------------
(* The journal alone.                                                      *)

\* open() accepts every journal whose rows are exactly acked+1 .. next
\* (state.ts:45-53).
LEMMA ContiguousOpens ==
    ASSUME NEW j, j.next \in Nat, j.acked \in Nat, j.acked <= j.next,
           Pending(j) = j.acked + 1 .. j.next
    PROVE  Opens(j)
<1> DEFINE a == j.acked + 1
           b == j.next
<1>0. a \in Int /\ b \in Int
  OBVIOUS
<1>1. Cardinality(a .. b) = IF a > b THEN 0 ELSE b - a + 1
  <2> HIDE DEF a, b
  <2> QED
    BY <1>0, FS_Interval
<1>2. CASE j.next = j.acked
  BY <1>1, <1>2 DEF Opens
<1>3. CASE j.next # j.acked
  BY <1>1, <1>3 DEF Opens
<1> QED
  BY <1>2, <1>3

-----------------------------------------------------------------------------
(* Initial states and steps.                                               *)

LEMMA InitInv == Init => IInv
<1> SUFFICES ASSUME Init PROVE IInv
  OBVIOUS
<1> USE DEF Init, EmptyJournal, Pending
<1>1. JournalInv
  BY DEF JournalInv, PendingInOrder
<1>2. AcceptedInv
  BY DEF AcceptedInv, AcceptedInOrder, Shift
<1>3. FlightInv(flight) /\ LateInv
  BY DEF FlightInv, LateInv
<1> QED
  BY <1>1, <1>2, <1>3 DEF IInv

\* What a step keeps when it touches neither the journal nor what the server
\* has processed: requests may be dropped, abandoned or, when they are live,
\* launched.
LEMMA QuietStep ==
    ASSUME IInv,
           UNCHANGED <<journal, emitted, accepted>>,
           epochs' \in {epochs, epochs + 1},
           FlightInv(flight)',
           \A r \in late' : r \in late \/ /\ flight # NoFlight
                                          /\ r = flight.request
    PROVE  IInv'
<1>1. JournalInv'
  BY DEF IInv, JournalInv, PendingInOrder, Shift, Pending
<1>2. AcceptedInv'
  BY DEF IInv, JournalInv, AcceptedInv, AcceptedInOrder, Shift
<1>3. ASSUME NEW r, RequestInv(r) PROVE RequestInv(r)'
  BY <1>3 DEF IInv, JournalInv, RequestInv, DurableInv, Shift, Offset, RequestShape
<1>4. LateInv'
  BY <1>3 DEF IInv, LateInv, FlightInv
<1> QED
  BY <1>1, <1>2, <1>4 DEF IInv

\* enqueue(): the new row gets the next sequence and the next payload, so
\* the distance between the two numberings stays.
LEMMA EmitDurableStep == IInv /\ EmitDurable => IInv'
<1> SUFFICES ASSUME IInv, EmitDurable PROVE IInv'
  OBVIOUS
<1> DEFINE n == journal.next + 1
<1>1. /\ journal'.epoch = journal.epoch /\ journal'.next = n
      /\ journal'.acked = journal.acked
      /\ Pending(journal)' = Pending(journal) \cup {n}
      /\ \A s \in Pending(journal)' :
             journal'.events[s] = IF s = n THEN emitted + 1
                                  ELSE journal.events[s]
      /\ journal' = [epoch |-> journal'.epoch, next |-> journal'.next,
                     acked |-> journal'.acked, events |-> journal'.events]
  BY DEF IInv, JournalInv, EmitDurable, Enqueue, Pending
<1>2. /\ emitted' = emitted + 1 /\ epochs' = epochs /\ accepted' = accepted
      /\ flight' = flight /\ late' = late
  BY DEF EmitDurable, server, memory
<1> HIDE DEF n
<1>3. n = journal.next + 1
  BY DEF n
<1>4. Shift' = Shift
  BY <1>1, <1>2, <1>3 DEF IInv, JournalInv, Shift
<1>5. Pending(journal)' = journal.acked + 1 .. n
  BY <1>1, <1>3 DEF IInv, JournalInv
<1>6. PendingInOrder'
  BY <1>1, <1>3, <1>4 DEF IInv, JournalInv, PendingInOrder, Shift
<1>7. JournalInv'
  BY <1>1, <1>2, <1>3, <1>5, <1>6 DEF IInv, JournalInv
<1>8. AcceptedInOrder'
  BY <1>2 DEF IInv, JournalInv, AcceptedInv, AcceptedInOrder
<1>9. AcceptedInv'
  BY <1>1, <1>2, <1>4, <1>8 DEF IInv, AcceptedInv
<1>10. ASSUME NEW r, RequestInv(r) PROVE RequestInv(r)'
  BY <1>1, <1>2, <1>4, <1>10 DEF IInv, JournalInv, RequestInv, DurableInv,
                                 Offset, RequestShape
<1>11. FlightInv(flight)'
  BY <1>2, <1>10 DEF IInv, FlightInv, FlightShape
<1>12. LateInv'
  BY <1>2, <1>10 DEF IInv, LateInv
<1> QED
  BY <1>7, <1>9, <1>11, <1>12 DEF IInv

\* A batch is cut from the journal's first rows, right after what has been
\* acknowledged.
LEMMA FlushDurableStep == IInv /\ FlushDurable => IInv'
<1> SUFFICES ASSUME IInv, FlushDurable PROVE IInv'
  OBVIOUS
<1> USE DEF FlushDurable
<1>1. PICK last \in BatchEnds(journal) :
          Launch(Request("durable", journal.epoch, journal.acked + 1, last,
                         BatchUpTo(journal, last)), <<>>, <<>>)
  OBVIOUS
<1> DEFINE r == Request("durable", journal.epoch, journal.acked + 1, last,
                        BatchUpTo(journal, last))
<1>2. last \in journal.acked + 1 .. journal.next
  BY DEF BatchEnds, IInv, JournalInv
<1>3. \A s \in journal.acked + 1 .. last : r.events[s] = s + Shift
  BY <1>2 DEF Request, BatchUpTo, IInv, JournalInv, PendingInOrder
<1>4. Offset(r) = Shift
  BY <1>2, <1>3 DEF Offset, Request, Shift, IInv, JournalInv
<1>5. DurableInv(r)
  BY <1>2, <1>3, <1>4 DEF DurableInv, Request, IInv, JournalInv, AcceptedInv,
                          Shift
<1>6. RequestInv(r)
  BY <1>5 DEF RequestInv, RequestShape, Request
<1>7. FlightInv(flight')
  BY <1>1, <1>6 DEF FlightInv, FlightShape, Launch, NoAck
<1>8. FlightInv(flight)'
  BY <1>7 DEF disk, lanes, server, memory, FlightInv, RequestInv, DurableInv, Shift,
              Offset, RequestShape
<1> QED
  BY <1>8, QuietStep DEF disk, lanes, server, memory, IInv, JournalInv, LateInv

\* An acknowledgement for the journal's epoch covers processed payloads
\* only; a rebase keeps every row and leaves the older epochs behind.
LEMMA DurableAckedStep == IInv /\ DurableAcked => IInv'
<1> SUFFICES ASSUME IInv, DurableAcked PROVE IInv'
  OBVIOUS
<1> DEFINE a == flight.ack
<1>1. /\ flight # NoFlight /\ a # NoAck /\ flight.request.kind = "durable"
      /\ Accepts(journal, flight.request.epoch, a)
      /\ flight' = NoFlight /\ late' = late /\ accepted' = accepted
      /\ emitted' = emitted
  BY DEF DurableAcked, server, memory
<1>2. a \in 0 .. journal.next /\ flight.request.epoch = journal.epoch
  BY <1>1 DEF Accepts
<1>3. a >= journal.acked => 1 .. (a + Shift) \subseteq accepted
  BY <1>1, <1>2 DEF IInv, FlightInv, RequestInv, DurableInv, NoAck, AcceptedInv,
                    JournalInv, Shift
<1>4. CASE a < journal.acked
  <2>1. journal' = Rebase(journal, epochs + 1) /\ epochs' = epochs + 1
    BY <1>4 DEF DurableAcked
  <2>2. Shift' = Shift + journal.acked
    BY <1>1, <2>1 DEF Rebase, Shift, IInv, JournalInv
  <2>3. Pending(journal)' = {t - journal.acked : t \in Pending(journal)}
    BY <2>1 DEF Rebase, Pending
  <2>4. Pending(journal)' = 1 .. (journal.next - journal.acked)
    <3>1. ASSUME NEW s \in 1 .. (journal.next - journal.acked)
          PROVE  s \in Pending(journal)'
      <4>1. s + journal.acked \in Pending(journal)
        BY DEF IInv, JournalInv
      <4>2. s = (s + journal.acked) - journal.acked
        BY DEF IInv, JournalInv
      <4> QED
        BY <4>1, <4>2, <2>3
    <3>2. ASSUME NEW s \in Pending(journal)'
          PROVE  s \in 1 .. (journal.next - journal.acked)
      BY <2>3, <3>2 DEF IInv, JournalInv
    <3> QED
      BY <3>1, <3>2
  <2>5. \A s \in Pending(journal)' : journal'.events[s] = s + Shift'
    <3>1. TAKE s \in Pending(journal)'
    <3>2. journal'.events[s] = journal.events[s + journal.acked]
      BY <2>1, <2>3 DEF Rebase
    <3>3. s + journal.acked \in Pending(journal)
      BY <2>4 DEF IInv, JournalInv
    <3> QED
      BY <3>2, <3>3, <2>2, <2>4 DEF IInv, JournalInv, PendingInOrder, Shift
  <2>6. JournalInv'
    <3>1. /\ journal'.epoch = epochs + 1 /\ journal'.acked = 0
          /\ journal'.next = journal.next - journal.acked
          /\ journal' = [epoch |-> journal'.epoch, next |-> journal'.next,
                         acked |-> journal'.acked, events |-> journal'.events]
      BY <2>1 DEF Rebase
    <3>2. PendingInOrder'
      BY <2>5 DEF PendingInOrder
    <3> QED
      BY <1>1, <2>1, <2>4, <3>1, <3>2 DEF JournalInv, IInv
  <2>7. AcceptedInv'
    BY <1>1, <2>1, <2>2 DEF AcceptedInv, AcceptedInOrder, Rebase, IInv,
                            JournalInv, Shift
  <2>8. ASSUME NEW r, RequestInv(r) PROVE RequestInv(r)'
    BY <1>1, <2>1, <2>8 DEF RequestInv, DurableInv, RequestShape, Offset,
                            Rebase, IInv, JournalInv
  <2>9. FlightInv(flight)' /\ LateInv'
    BY <1>1, <2>8 DEF FlightInv, LateInv, IInv
  <2> QED
    BY <2>6, <2>7, <2>9 DEF IInv
<1>5. CASE a >= journal.acked
  <2>1. journal' = Acknowledge(journal, a) /\ epochs' = epochs
    BY <1>2, <1>5 DEF DurableAcked, IInv, JournalInv
  <2>2. journal' = [epoch  |-> journal.epoch, next |-> journal.next, acked |-> a,
                    events |-> [s \in {t \in Pending(journal) : t > a} |->
                                    journal.events[s]]]
    BY <2>1 DEF Acknowledge, IInv, JournalInv
  <2>3. Shift' = Shift
    BY <1>1, <2>2 DEF Shift
  <2>4. Pending(journal)' = a + 1 .. journal.next
    <3>1. Pending(journal)' = {t \in Pending(journal) : t > a}
      BY <2>2 DEF Pending
    <3> QED
      BY <3>1, <1>2, <1>5 DEF IInv, JournalInv
  <2>5. JournalInv'
    <3>1. /\ journal'.epoch = journal.epoch /\ journal'.acked = a
          /\ journal'.next = journal.next
          /\ \A s \in Pending(journal)' : journal'.events[s] = journal.events[s]
          /\ journal' = [epoch |-> journal'.epoch, next |-> journal'.next,
                         acked |-> journal'.acked, events |-> journal'.events]
      BY <2>2 DEF Pending
    <3>2. PendingInOrder'
      BY <1>2, <1>5, <2>3, <2>4, <3>1 DEF JournalInv, PendingInOrder, IInv
    <3> QED
      BY <1>1, <1>2, <2>1, <2>4, <3>1, <3>2 DEF JournalInv, IInv
  <2>6. AcceptedInv'
    BY <1>1, <1>3, <1>5, <2>2, <2>3 DEF AcceptedInv, AcceptedInOrder, IInv
  <2>7. ASSUME NEW r, RequestInv(r) PROVE RequestInv(r)'
    BY <1>1, <2>1, <2>2, <2>3, <2>7 DEF RequestInv, DurableInv, RequestShape,
                                        Offset
  <2>8. FlightInv(flight)' /\ LateInv'
    BY <1>1, <2>7 DEF FlightInv, LateInv, IInv
  <2> QED
    BY <2>5, <2>6, <2>8 DEF IInv
<1> QED
  BY <1>2, <1>4, <1>5 DEF IInv, JournalInv

\* Steps that leave the journal and the server's record alone.
LEMMA LaneStep ==
    ASSUME IInv,
           \/ \E k \in Sessions : EmitSession(k)
           \/ \E k \in Watches : EmitGit(k)
           \/ FlushLive \/ LiveAcked
           \/ RequestFails \/ ConnectionLost \/ Stop \/ Exit \/ Start
    PROVE  IInv'
<1>1. CASE \/ \E k \in Sessions : EmitSession(k)
           \/ \E k \in Watches : EmitGit(k)
  <2>1. /\ UNCHANGED <<journal, emitted, accepted, epochs, flight, late>>
    BY <1>1 DEF EmitSession, EmitGit, NewLive, disk, server, memory
  <2>2. FlightInv(flight)'
    BY <2>1 DEF IInv, JournalInv, FlightInv, RequestInv, DurableInv, Shift,
                Offset, RequestShape, FlightShape
  <2> QED
    BY <2>1, <2>2, QuietStep DEF IInv, JournalInv
<1>2. CASE FlushLive
  <2>1. UNCHANGED <<journal, emitted, accepted, epochs, late>>
    BY <1>2 DEF FlushLive, disk, server, memory
  <2>2. PICK first, last, events, h, q :
            Launch(Request("live", liveEpoch, first, last, events), h, q)
    BY <1>2 DEF FlushLive
  <2>3. /\ FlightShape(flight') /\ RequestShape(flight'.request)
        /\ flight'.request.kind = "live"
    BY <2>2 DEF Launch, Request, FlightShape, RequestShape
  <2>4. FlightInv(flight)'
    BY <2>3 DEF FlightInv, RequestInv, FlightShape, RequestShape
  <2> QED
    BY <2>1, <2>4, QuietStep DEF IInv, JournalInv
<1>3. CASE LiveAcked \/ RequestFails \/ ConnectionLost \/ Stop \/ Exit
  <2>1. UNCHANGED <<journal, emitted, accepted>> /\ flight' = NoFlight
    BY <1>3 DEF LiveAcked, RequestFails, ConnectionLost, GiveUp, Stop, Exit,
                disk, server, memory
  <2>2. epochs' \in {epochs, epochs + 1}
    BY <1>3 DEF LiveAcked, RequestFails, ConnectionLost, GiveUp, Stop, Exit
  <2>3. late' = late \/ (flight # NoFlight /\ Abandon)
    <3>1. CASE LiveAcked
      BY <3>1 DEF LiveAcked
    <3>2. CASE RequestFails \/ ConnectionLost
      BY <3>2 DEF RequestFails, ConnectionLost, GiveUp
    <3>3. CASE Stop
      BY <3>3 DEF Stop
    <3>4. CASE Exit
      BY <3>4 DEF Exit
    <3> QED
      BY <1>3, <3>1, <3>2, <3>3, <3>4
  <2>4. \A r \in late' : r \in late \/ /\ flight # NoFlight
                                       /\ r = flight.request
    BY <2>3 DEF Abandon
  <2>5. FlightInv(flight)'
    BY <2>1 DEF FlightInv
  <2> QED
    BY <2>1, <2>2, <2>4, <2>5, QuietStep DEF IInv, JournalInv
<1>4. CASE Start
  <2>1. /\ UNCHANGED <<journal, emitted, accepted, flight, late>>
        /\ epochs' = epochs + 1
    BY <1>4 DEF Start, disk, server, memory
  <2>2. FlightInv(flight)'
    BY <2>1 DEF IInv, JournalInv, FlightInv, RequestInv, DurableInv, Shift,
                Offset, RequestShape, FlightShape
  <2> QED
    BY <2>1, <2>2, QuietStep DEF IInv, JournalInv
<1> QED
  BY <1>1, <1>2, <1>3, <1>4

\* Processing the next event of a request: the payload is either new, and
\* then the first one not yet processed, or was processed before.
LEMMA ProcessStep ==
    ASSUME IInv, NEW r, RequestInv(r), r.pos < r.last, Process(r)
    PROVE  /\ \/ accepted' = accepted
              \/ \E p \in 1 .. emitted : /\ accepted = 1 .. (p - 1)
                                         /\ accepted' = 1 .. p
           /\ r.kind = "durable" =>
                  1 .. (r.pos + 1 + Offset(r)) \subseteq accepted'
<1>1. CASE r.kind # "durable"
  BY <1>1 DEF Process
<1>2. CASE r.kind = "durable"
  <2> DEFINE p == r.pos + 1 + Offset(r)
  <2>1. DurableInv(r)
    BY <1>2 DEF RequestInv
  <2>2. r.pos + 1 \in r.first .. r.last /\ p \in 1 .. emitted
    <3>1. /\ r.first \in Nat \ {0} /\ r.last \in Nat /\ r.pos \in Nat
          /\ r.first - 1 <= r.pos /\ r.last + Offset(r) <= emitted
          /\ Offset(r) \in Nat /\ emitted \in Nat
      BY <2>1 DEF DurableInv, IInv, JournalInv
    <3> QED
      BY <3>1
  <2>3. r.events[r.pos + 1] = p
    BY <2>1, <2>2 DEF DurableInv
  <2>4. accepted' = accepted \cup {p}
    BY <1>2, <2>3 DEF Process
  <2>5. PICK n \in 0 .. emitted : accepted = 1 .. n
    BY DEF IInv, AcceptedInv, AcceptedInOrder
  <2>6. 1 .. (p - 1) \subseteq accepted
    BY <2>1 DEF DurableInv
  <2> HIDE DEF p
  <2>7. n \in Nat /\ p \in Nat /\ p >= 1
    BY <2>2, <2>5 DEF IInv, JournalInv
  <2>8. p - 1 <= n
    BY <2>5, <2>6, <2>7
  <2>9. CASE p <= n
    <3>1. accepted' = accepted
      BY <2>4, <2>5, <2>7, <2>9
    <3>2. 1 .. p \subseteq accepted'
      BY <2>5, <2>7, <2>9, <3>1
    <3> QED
      BY <3>1, <3>2 DEF p
  <2>10. CASE p = n + 1
    <3>1. accepted = 1 .. (p - 1) /\ accepted' = 1 .. p
      BY <2>4, <2>5, <2>7, <2>10
    <3> QED
      BY <2>2, <3>1 DEF p
  <2> QED
    BY <2>7, <2>8, <2>9, <2>10
<1> QED
  BY <1>1, <1>2

\* The server's steps.
LEMMA ServerStep == IInv /\ Server => IInv'
<1> SUFFICES ASSUME IInv, Server PROVE IInv'
  OBVIOUS
<1>1. ASSUME UNCHANGED <<journal, emitted, epochs>>, accepted \subseteq accepted',
             NEW q, RequestInv(q)
      PROVE  RequestInv(q)'
  BY <1>1 DEF RequestInv, DurableInv, Shift, Offset, RequestShape
<1>2. ASSUME NEW q, RequestInv(q), q.pos < q.last, Process(q),
             UNCHANGED <<journal, emitted, epochs>>
      PROVE  /\ JournalInv' /\ AcceptedInv' /\ accepted \subseteq accepted'
             /\ RequestInv(Advanced(q))'
  <2>1. JournalInv'
    BY <1>2 DEF IInv, JournalInv, PendingInOrder, Pending, Shift
  <2>2. /\ \/ accepted' = accepted
           \/ \E p \in 1 .. emitted : /\ accepted = 1 .. (p - 1)
                                      /\ accepted' = 1 .. p
        /\ q.kind = "durable" =>
               1 .. (q.pos + 1 + Offset(q)) \subseteq accepted'
    BY <1>2, ProcessStep
  <2>3. accepted \subseteq accepted'
    BY <2>2 DEF IInv, JournalInv
  <2>4. AcceptedInOrder'
    BY <1>2, <2>2 DEF IInv, JournalInv, AcceptedInv, AcceptedInOrder
  <2>5. AcceptedInv'
    BY <1>2, <2>3, <2>4 DEF IInv, AcceptedInv, Shift
  <2>6. Advanced(q) = [kind |-> q.kind, epoch |-> q.epoch, first |-> q.first,
                       last |-> q.last, events |-> q.events, pos |-> q.pos + 1,
                       frag |-> q.frag]
    BY <1>2 DEF Advanced, RequestInv, RequestShape
  <2>7. RequestInv(Advanced(q))'
    <3>1. RequestShape(Advanced(q)) /\ Offset(Advanced(q)) = Offset(q)
      BY <2>6 DEF RequestShape, Offset
    <3>2. q.kind = "durable" => DurableInv(Advanced(q))'
      BY <1>2, <2>2, <2>6, <3>1, SMTT(30) DEF DurableInv, RequestInv, Shift
    <3> QED
      BY <2>6, <3>1, <3>2 DEF RequestInv
  <2> QED
    BY <2>1, <2>3, <2>5, <2>7
<1>3. CASE AcceptEvent
  <2> PICK q : q = flight.request
    OBVIOUS
  <2>1. /\ flight # NoFlight /\ flight.ack = NoAck /\ q.pos < q.last
        /\ Process(q) /\ flight' = [flight EXCEPT !.request = Advanced(q)]
        /\ UNCHANGED <<journal, emitted, epochs, late>>
    BY <1>3 DEF AcceptEvent, Awaited, disk
  <2>2. FlightShape(flight) /\ RequestInv(q)
    BY <2>1 DEF IInv, FlightInv
  <2>3. /\ JournalInv' /\ AcceptedInv' /\ accepted \subseteq accepted'
        /\ RequestInv(Advanced(q))'
    BY <1>2, <2>1, <2>2
  <2>4. /\ FlightShape(flight') /\ flight'.request = Advanced(q)
        /\ flight'.ack = NoAck
    BY <2>1, <2>2 DEF FlightShape
  <2>5. FlightInv(flight)'
    BY <2>3, <2>4 DEF FlightInv, FlightShape, NoAck
  <2>6. LateInv'
    BY <1>1, <2>1, <2>3 DEF IInv, LateInv
  <2> QED
    BY <2>3, <2>5, <2>6 DEF IInv
<1>4. CASE AcceptLate
  <2>1. PICK q \in late :
            /\ q.pos < q.last /\ Process(q)
            /\ late' \subseteq late \cup {Advanced(q)}
            /\ UNCHANGED <<journal, emitted, epochs, flight>>
    BY <1>4 DEF AcceptLate, disk
  <2>2. RequestInv(q)
    BY <2>1 DEF IInv, LateInv
  <2>3. /\ JournalInv' /\ AcceptedInv' /\ accepted \subseteq accepted'
        /\ RequestInv(Advanced(q))'
    BY <1>2, <2>1, <2>2
  <2>4. FlightInv(flight)'
    BY <1>1, <2>1, <2>3 DEF IInv, FlightInv, FlightShape
  <2>5. LateInv'
    BY <1>1, <2>1, <2>3 DEF IInv, LateInv
  <2> QED
    BY <2>3, <2>4, <2>5 DEF IInv
<1>5. CASE Reply \/ LegacyReply \/ ServerRestart
  <2>1. /\ UNCHANGED <<journal, emitted, epochs, accepted>>
        /\ late' \subseteq late
    BY <1>5 DEF Reply, LegacyReply, ServerRestart, disk, server, memory
  <2>2. FlightInv(flight)'
    <3>1. CASE flight' = flight
      BY <1>1, <2>1, <3>1 DEF IInv, FlightInv, FlightShape
    <3>2. CASE flight' # flight
      <4>1. /\ flight # NoFlight
            /\ \/ flight' = [flight EXCEPT !.alive = FALSE]
               \/ flight' = [flight EXCEPT !.ack = 0]
               \/ /\ flight' = [flight EXCEPT !.ack = flight.request.last]
                  /\ flight.request.pos = flight.request.last
        BY <1>5, <3>2 DEF Reply, LegacyReply, ServerRestart, Awaited
      <4>2. /\ FlightShape(flight) /\ RequestInv(flight.request)
        BY <4>1 DEF IInv, FlightInv
      <4>3. /\ FlightShape(flight') /\ flight'.request = flight.request
            /\ \/ flight'.ack \in {flight.ack, 0}
               \/ /\ flight'.ack = flight.request.last
                  /\ flight.request.pos = flight.request.last
        BY <4>1, <4>2 DEF FlightShape
      <4>4. PICK q : q = flight.request
        OBVIOUS
      <4>5. RequestInv(q)'
        BY <1>1, <2>1, <4>2, <4>4
      <4> QED
        BY <4>1, <4>3, <4>4, <4>5 DEF IInv, FlightInv, FlightShape
    <3> QED
      BY <3>1, <3>2
  <2> QED
    BY <2>1, <2>2, QuietStep DEF IInv, JournalInv, LateInv
<1>6. CASE AcceptFragment
  <2>1. PICK n : /\ flight # NoFlight /\ flight.ack = NoAck
                 /\ flight' = [flight EXCEPT !.request = [@ EXCEPT !.frag = n]]
                 /\ UNCHANGED <<journal, emitted, epochs, accepted, late>>
    BY <1>6 DEF AcceptFragment, Awaited, disk, memory
  <2>2. FlightShape(flight) /\ RequestInv(flight.request)
    BY <2>1 DEF IInv, FlightInv
  <2>3. PICK q : q = [flight.request EXCEPT !.frag = n]
    OBVIOUS
  <2>4. RequestInv(q)
    BY <2>2, <2>3 DEF RequestInv, RequestShape, DurableInv, Offset
  <2>5. FlightShape(flight') /\ flight'.request = q /\ flight'.ack = NoAck
    BY <2>1, <2>2, <2>3 DEF FlightShape
  <2>6. RequestInv(q)'
    BY <1>1, <2>1, <2>4
  <2>7. FlightInv(flight)'
    BY <2>5, <2>6 DEF FlightInv, FlightShape
  <2> QED
    BY <2>1, <2>7, QuietStep DEF IInv, JournalInv, LateInv
<1>7. CASE FragmentRefused \/ AcceptLateFragment \/ LateCommitted \/ TransferExpires
  <2>1. /\ UNCHANGED <<journal, emitted, epochs, accepted>>
        /\ late' \subseteq late /\ flight' \in {flight, NoFlight}
    BY <1>7 DEF FragmentRefused, AcceptLateFragment, LateCommitted,
                TransferExpires, disk, memory
  <2>2. FlightInv(flight)'
    BY <1>1, <2>1 DEF IInv, FlightInv, FlightShape
  <2> QED
    BY <2>1, <2>2, QuietStep DEF IInv, JournalInv, LateInv
<1> QED
  BY <1>3, <1>4, <1>5, <1>6, <1>7 DEF Server

-----------------------------------------------------------------------------
(* Theorems.                                                               *)

\* The invariant of the durable lane holds in every reachable state.
THEOREM Invariance == Spec => []IInv
<1>1. IInv /\ [Next]_vars => IInv'
  <2> SUFFICES ASSUME IInv, [Next]_vars PROVE IInv'
    OBVIOUS
  <2>1. CASE Connector
    BY <2>1, EmitDurableStep, FlushDurableStep, DurableAckedStep, LaneStep
    DEF Connector
  <2>2. CASE Server
    BY <2>2, ServerStep
  <2>3. CASE UNCHANGED vars
    <3>1. UNCHANGED <<journal, emitted, accepted, epochs, flight, late>>
      BY <2>3 DEF vars, disk, server, memory
    <3>2. FlightInv(flight)'
      BY <3>1 DEF IInv, FlightInv, RequestInv, DurableInv, Shift, Offset,
                  RequestShape, FlightShape
    <3> QED
      BY <3>1, <3>2, QuietStep DEF IInv, JournalInv
  <2> QED
    BY <2>1, <2>2, <2>3 DEF Next
<1> QED
  BY InitInv, <1>1, PTL DEF Spec

\* state.ts open(): after any run of enqueues, acknowledgements, rebases and
\* crashes, a new process opens the journal it finds.
THEOREM AlwaysOpens == Spec => []JournalOpens
<1>1. IInv => JournalOpens
  BY ContiguousOpens DEF IInv, JournalInv, JournalOpens
<1> QED
  BY Invariance, <1>1, PTL

\* A payload leaves the journal only after the server has processed it.
THEOREM NothingLost == Spec => []NoEventLost
<1>1. IInv => NoEventLost
  <2> SUFFICES ASSUME IInv, NEW p \in 1 .. emitted, p \notin accepted
               PROVE  \E s \in Pending(journal) : journal.events[s] = p
    BY DEF NoEventLost
  <2>1. p > journal.acked + Shift
    BY DEF IInv, AcceptedInv, JournalInv, Shift
  <2>2. p - Shift \in Pending(journal)
    BY <2>1 DEF IInv, JournalInv, Shift
  <2>3. journal.events[p - Shift] = (p - Shift) + Shift
    BY <2>2 DEF IInv, JournalInv, PendingInOrder
  <2> QED
    BY <2>2, <2>3 DEF IInv, JournalInv, Shift
<1> QED
  BY Invariance, <1>1, PTL

\* Under whatever sequences a rebase gave them, the journal's rows stay the
\* newest payloads in the order of emission.
THEOREM RowsInOrder == Spec => []PendingInOrder
<1>1. IInv => PendingInOrder
  BY DEF IInv, JournalInv
<1> QED
  BY Invariance, <1>1, PTL

\* The server first sees payloads in the order they were emitted.
THEOREM FirstSeenInOrder == Spec => []AcceptedInOrder
<1>1. IInv => AcceptedInOrder
  BY DEF IInv, AcceptedInv
<1> QED
  BY Invariance, <1>1, PTL

-----------------------------------------------------------------------------
(* The types, and the abstract outbox.                                     *)

Kinds == {"durable", "live"}

TypeInv ==
    /\ emitted \in 0 .. MaxDurable
    /\ phase \in {"up", "stopping", "down"}
    /\ told \in [1 .. MaxDurable -> Nat]
    /\ flight # NoFlight => FlightShape(flight) /\ flight.request.kind \in Kinds
    /\ \A r \in late : RequestShape(r) /\ r.kind \in Kinds

\* A request that makes progress keeps its kind.
LEMMA AdvancedKeepsKind ==
    ASSUME NEW r, RequestShape(r)
    PROVE  RequestShape(Advanced(r)) /\ Advanced(r).kind = r.kind
<1>1. Advanced(r) = [kind |-> r.kind, epoch |-> r.epoch, first |-> r.first,
                     last |-> r.last, events |-> r.events, pos |-> r.pos + 1,
                     frag |-> r.frag]
  BY DEF Advanced, RequestShape
<1> QED
  BY <1>1 DEF RequestShape

\* The told counters stay a function to numbers whatever event is processed.
LEMMA ProcessKeepsTold ==
    ASSUME NEW r, Process(r), told \in [1 .. MaxDurable -> Nat]
    PROVE  told' \in [1 .. MaxDurable -> Nat]
<1>1. PICK p : told' = told \/ told' = [told EXCEPT ![p] = @ + 1]
  BY DEF Process
<1> QED
  BY <1>1

\* Every connector step keeps the types.
LEMMA ConnectorTypes == IInv /\ TypeInv /\ Connector => TypeInv'
<1> SUFFICES ASSUME IInv, TypeInv, Connector PROVE TypeInv'
  OBVIOUS
<1>1. emitted' \in 0 .. MaxDurable
  <2>1. CASE EmitDurable
    BY <2>1, DeliveryAssumption DEF EmitDurable, TypeInv
  <2>2. CASE ~EmitDurable
    BY <2>2 DEF Connector, EmitSession, EmitGit, NewLive, FlushDurable, FlushLive,
                DurableAcked, LiveAcked, RequestFails, ConnectionLost, GiveUp,
                Stop, Exit, Start, disk, TypeInv
  <2> QED
    BY <2>1, <2>2
<1>2. phase' \in {"up", "stopping", "down"}
  BY DEF Connector, EmitDurable, EmitSession, EmitGit, NewLive, FlushDurable,
         FlushLive, DurableAcked, LiveAcked, RequestFails, ConnectionLost, GiveUp,
         Stop, Exit, Start, TypeInv
<1>3. told' = told
  BY DEF Connector, EmitDurable, EmitSession, EmitGit, NewLive, FlushDurable,
         FlushLive, DurableAcked, LiveAcked, RequestFails, ConnectionLost, GiveUp,
         Stop, Exit, Start, server, memory
<1>4. /\ FlightShape(flight)' /\ flight'.request.kind \in Kinds
      \/ flight' = flight
      \/ flight' = NoFlight
  <2>1. CASE FlushDurable \/ FlushLive
    <3>1. PICK k, e, first, last, events, h, q :
              /\ k \in Kinds
              /\ Launch(Request(k, e, first, last, events), h, q)
      <4>1. "durable" \in Kinds /\ "live" \in Kinds
        BY DEF Kinds
      <4>2. CASE FlushDurable
        BY <4>1, <4>2 DEF FlushDurable
      <4>3. CASE FlushLive
        BY <4>1, <4>3 DEF FlushLive
      <4> QED
        BY <2>1, <4>2, <4>3
    <3> QED
      BY <3>1 DEF Launch, Request, FlightShape
  <2>2. CASE ~(FlushDurable \/ FlushLive)
    BY <2>2 DEF Connector, EmitDurable, EmitSession, EmitGit, NewLive,
                DurableAcked, LiveAcked, RequestFails, ConnectionLost, GiveUp,
                Stop, Exit, Start
  <2> QED
    BY <2>1, <2>2
<1>5. late' = late \/ (flight # NoFlight /\ Abandon)
  BY DEF Connector, EmitDurable, EmitSession, EmitGit, NewLive, FlushDurable,
         FlushLive, DurableAcked, LiveAcked, RequestFails, ConnectionLost, GiveUp,
         Stop, Exit, Start
<1>6. \A r \in late' : r \in late \/ (flight # NoFlight /\ r = flight.request)
  BY <1>5 DEF Abandon
<1>7. \A r \in late' : RequestShape(r) /\ r.kind \in Kinds
  BY <1>6 DEF TypeInv, IInv, FlightInv, RequestInv
<1>8. flight' # NoFlight => FlightShape(flight') /\ flight'.request.kind \in Kinds
  BY <1>4 DEF TypeInv, FlightShape
<1> QED
  BY <1>1, <1>2, <1>3, <1>7, <1>8 DEF TypeInv, FlightShape

\* Every server step keeps the types.
LEMMA ServerTypes == IInv /\ TypeInv /\ Server => TypeInv'
<1> SUFFICES ASSUME IInv, TypeInv, Server PROVE TypeInv'
  OBVIOUS
<1>1. emitted' = emitted /\ phase' = phase
  BY DEF Server, AcceptEvent, AcceptLate, Reply, LegacyReply, ServerRestart,
         AcceptFragment, FragmentRefused, AcceptLateFragment, LateCommitted,
         TransferExpires, disk
<1>2. told' \in [1 .. MaxDurable -> Nat]
  <2>1. CASE AcceptEvent \/ AcceptLate
    BY <2>1, ProcessKeepsTold DEF AcceptEvent, AcceptLate, TypeInv
  <2>2. CASE Reply \/ LegacyReply \/ ServerRestart
    BY <2>2 DEF Reply, LegacyReply, ServerRestart, server, memory, TypeInv
  <2>3. CASE \/ AcceptFragment \/ FragmentRefused \/ AcceptLateFragment
             \/ LateCommitted \/ TransferExpires
    BY <2>3 DEF AcceptFragment, FragmentRefused, AcceptLateFragment,
                LateCommitted, TransferExpires, memory, TypeInv
  <2> QED
    BY <2>1, <2>2, <2>3 DEF Server
<1>3. \A r \in late' : RequestShape(r) /\ r.kind \in Kinds
  <2>1. CASE AcceptLate
    <3>1. PICK q \in late : late' \subseteq late \cup {Advanced(q)}
      BY <2>1 DEF AcceptLate
    <3> QED
      BY <3>1, AdvancedKeepsKind DEF TypeInv
  <2>2. CASE ~AcceptLate
    <3>1. late' \subseteq late
      BY <2>2 DEF Server, AcceptEvent, Reply, LegacyReply, ServerRestart,
                  AcceptFragment, FragmentRefused, AcceptLateFragment,
                  LateCommitted, TransferExpires
    <3> QED
      BY <3>1 DEF TypeInv
  <2> QED
    BY <2>1, <2>2
<1>4. flight' # NoFlight => FlightShape(flight') /\ flight'.request.kind \in Kinds
  <2>1. CASE flight' = flight
    BY <2>1 DEF TypeInv
  <2>2. CASE AcceptFragment
    <3>1. PICK n : /\ flight # NoFlight
                   /\ flight' = [flight EXCEPT !.request = [@ EXCEPT !.frag = n]]
      BY <2>2 DEF AcceptFragment, Awaited
    <3>2. FlightShape(flight) /\ RequestShape(flight.request)
          /\ flight.request.kind \in Kinds
      BY <3>1 DEF TypeInv, IInv, FlightInv, RequestInv
    <3>3. [flight.request EXCEPT !.frag = n].kind = flight.request.kind
      BY <3>2 DEF RequestShape
    <3> QED
      BY <3>1, <3>2, <3>3 DEF FlightShape
  <2>3. CASE flight' # flight /\ ~AcceptFragment /\ flight' # NoFlight
    <3>1. /\ flight # NoFlight
          /\ \/ flight' = [flight EXCEPT !.request = Advanced(flight.request)]
             \/ flight' = [flight EXCEPT !.alive = FALSE]
             \/ flight' = [flight EXCEPT !.ack = 0]
             \/ flight' = [flight EXCEPT !.ack = flight.request.last]
      BY <2>3 DEF Server, AcceptEvent, AcceptLate, Reply, LegacyReply,
                  ServerRestart, FragmentRefused, AcceptLateFragment,
                  LateCommitted, TransferExpires, Awaited
    <3>2. FlightShape(flight) /\ RequestShape(flight.request)
          /\ flight.request.kind \in Kinds
      BY <3>1 DEF TypeInv, IInv, FlightInv, RequestInv
    <3>3. /\ FlightShape(flight')
          /\ flight'.request \in {flight.request, Advanced(flight.request)}
      BY <3>1, <3>2 DEF FlightShape
    <3> QED
      BY <3>2, <3>3, AdvancedKeepsKind
  <2> QED
    BY <2>1, <2>2, <2>3
<1> QED
  BY <1>1, <1>2, <1>3, <1>4 DEF TypeInv, FlightShape

\* The types hold in every reachable state.
LEMMA Typing == Spec => []TypeInv
<1>1. Init => TypeInv
  BY DeliveryAssumption DEF Init, TypeInv
<1>2. IInv /\ TypeInv /\ [Next]_vars => TypeInv'
  <2> SUFFICES ASSUME IInv, TypeInv, [Next]_vars PROVE TypeInv'
    OBVIOUS
  <2>1. CASE UNCHANGED vars
    BY <2>1 DEF vars, disk, server, memory, TypeInv, FlightShape
  <2> QED
    BY <2>1, ConnectorTypes, ServerTypes DEF Next
<1> QED
  BY Invariance, <1>1, <1>2, PTL DEF Spec

\* Type correctness of the whole specification.
THEOREM TypeCorrect == Spec => []TypeOK
<1>1. IInv /\ TypeInv => TypeOK
  <2> SUFFICES ASSUME IInv, TypeInv PROVE TypeOK
    OBVIOUS
  <2>1. accepted \subseteq 1 .. emitted
    BY DEF IInv, JournalInv, AcceptedInv, AcceptedInOrder
  <2>2. /\ epochs \in Nat /\ journal.epoch \in 1 .. epochs
        /\ journal.next \in 0 .. emitted /\ journal.acked \in 0 .. journal.next
    BY DEF IInv, JournalInv
  <2> QED
    BY <2>1, <2>2 DEF TypeInv, TypeOK, Kinds
<1> QED
  BY Invariance, Typing, <1>1, PTL

-----------------------------------------------------------------------------
(***************************************************************************)
(* Proofs about the cursors of acceptBatch() (broker.ts), which decide     *)
(* whether an event of the durable lane notifies.                          *)
(*                                                                         *)
(* The argument: an epoch belongs to one lane and, within the durable one, *)
(* to one numbering of the payloads (EpochsApart), so what a cursor covers *)
(* is the same for every request that can still meet it, and has been      *)
(* processed (CursorsInv).  An event that is processed for the first time  *)
(* therefore finds no cursor in its way.  Conversely, while the journal    *)
(* keeps its first epoch and no cursor has been dropped, whatever has      *)
(* notified is covered (ToldInv).                                          *)
(***************************************************************************)

(* Notifications.                                                          *)

\* The requests that may still reach the server.
Underway == late \cup (IF flight = NoFlight THEN {} ELSE {flight.request})

\* An epoch belongs to one lane, and tells how sequences count payloads.
EpochsApart ==
    /\ liveEpoch \in 1 .. epochs /\ liveEpoch # journal.epoch
    /\ liveSeq \in Nat
    /\ \A r \in Underway :
           /\ r.kind \in Kinds /\ r.epoch \in 1 .. epochs
           /\ r.last \in Nat /\ r.pos \in Nat
           /\ r.kind = "durable" => /\ r.epoch # liveEpoch
                                    /\ r.epoch <= journal.epoch
           /\ r.kind = "live" => r.epoch # journal.epoch
    /\ \A r, q \in Underway :
           r.epoch = q.epoch =>
               /\ r.kind = q.kind
               /\ r.kind = "durable" => Offset(r) = Offset(q)

\* What a cursor covers has been processed.
Covers(c, offset) == 1 .. (c.sequence + offset) \subseteq accepted

CursorSound(c) ==
    /\ c.epoch <= epochs
    /\ c.epoch = journal.epoch => Covers(c, Shift)
    /\ \A r \in Underway :
           r.kind = "durable" /\ r.epoch = c.epoch => Covers(c, Offset(r))

CursorsInv ==
    /\ cursors \in Seq([epoch : Nat, sequence : Nat])
    /\ Len(cursors) <= CursorLimit
    /\ \A i, j \in 1 .. Len(cursors) :
           cursors[i].epoch = cursors[j].epoch => i = j
    /\ \A i \in 1 .. Len(cursors) : CursorSound(cursors[i])

\* As long as the journal has its first epoch, a payload is its sequence.
FirstEpochInv == journal.epoch = 1 => Shift = 0

\* A payload that has notified is covered by the cursor of its epoch.
ToldInv ==
    journal.epoch = 1 /\ Len(cursors) < CursorLimit =>
        \A p \in 1 .. MaxDurable :
            told[p] > 0 =>
                /\ told[p] = 1
                /\ \E i \in 1 .. Len(cursors) :
                       cursors[i].epoch = 1 /\ cursors[i].sequence >= p

NInv == EpochsApart /\ CursorsInv /\ FirstEpochInv /\ ToldInv

-----------------------------------------------------------------------------
(* Steps that neither process an event nor renumber the journal.           *)

\* The same request, perhaps further on.
Like(r, q) == /\ r.kind = q.kind /\ r.epoch = q.epoch
              /\ r.first = q.first /\ r.last = q.last /\ r.events = q.events
              /\ \/ r.pos = q.pos
                 \/ r.pos = q.pos + 1 /\ q.pos < q.last

\* No request is new, and the live lane has its epoch or a fresh one.
LEMMA ApartKept ==
    ASSUME EpochsApart, epochs \in Nat, epochs' \in Nat, epochs <= epochs',
           journal'.epoch = journal.epoch, journal.epoch \in 1 .. epochs,
           liveEpoch' = liveEpoch \/ liveEpoch' \in epochs + 1 .. epochs',
           liveSeq' \in Nat,
           \A r \in Underway' : \E q \in Underway : Like(r, q)
    PROVE  EpochsApart'
<1>1. liveEpoch' \in 1 .. epochs' /\ liveEpoch' # journal'.epoch
  BY DEF EpochsApart
<1>2. ASSUME NEW r \in Underway'
      PROVE  /\ r.kind \in Kinds /\ r.epoch \in 1 .. epochs'
             /\ r.last \in Nat /\ r.pos \in Nat
             /\ r.kind = "durable" => /\ r.epoch # liveEpoch'
                                      /\ r.epoch <= journal'.epoch
             /\ r.kind = "live" => r.epoch # journal'.epoch
  <2>1. PICK q \in Underway : Like(r, q)
    OBVIOUS
  <2>2. /\ q.kind \in Kinds /\ q.epoch \in 1 .. epochs
        /\ q.last \in Nat /\ q.pos \in Nat
        /\ q.kind = "durable" => /\ q.epoch # liveEpoch
                                 /\ q.epoch <= journal.epoch
        /\ q.kind = "live" => q.epoch # journal.epoch
    BY DEF EpochsApart
  <2> QED
    BY <2>1, <2>2 DEF Like
<1>3. ASSUME NEW r \in Underway', NEW q \in Underway', r.epoch = q.epoch
      PROVE  r.kind = q.kind /\ (r.kind = "durable" => Offset(r) = Offset(q))
  <2>1. PICK r0 \in Underway : Like(r, r0)
    OBVIOUS
  <2>2. PICK q0 \in Underway : Like(q, q0)
    OBVIOUS
  <2>3. r0.epoch = q0.epoch
    BY <1>3, <2>1, <2>2 DEF Like
  <2>4. r0.kind = q0.kind /\ (r0.kind = "durable" => Offset(r0) = Offset(q0))
    BY <2>3 DEF EpochsApart
  <2> QED
    BY <2>1, <2>2, <2>4 DEF Like, Offset
<1> QED
  BY <1>1, <1>2, <1>3 DEF EpochsApart

\* A sound cursor stays sound while no request is new.
LEMMA SoundKept ==
    ASSUME NEW c \in [epoch : Nat, sequence : Nat], CursorSound(c),
           epochs \in Nat, epochs' \in Nat, epochs <= epochs',
           journal'.epoch = journal.epoch, Shift' = Shift,
           accepted \subseteq accepted',
           \A r \in Underway' : \E q \in Underway : Like(r, q)
    PROVE  CursorSound(c)'
<1>1. ASSUME NEW r \in Underway', r.kind = "durable", r.epoch = c.epoch
      PROVE  1 .. (c.sequence + Offset(r)) \subseteq accepted'
  <2>1. PICK q \in Underway : Like(r, q)
    OBVIOUS
  <2>2. Offset(r) = Offset(q) /\ q.kind = "durable" /\ q.epoch = c.epoch
    BY <1>1, <2>1 DEF Like, Offset
  <2> QED
    BY <2>2 DEF CursorSound, Covers
<1>2. c.epoch <= epochs'
  BY DEF CursorSound
<1>3. c.epoch = journal'.epoch => 1 .. (c.sequence + Shift') \subseteq accepted'
  BY DEF CursorSound, Covers
<1> QED
  BY <1>1, <1>2, <1>3 DEF CursorSound, Covers

\* So does the whole list of cursors.
LEMMA CursorsKept ==
    ASSUME CursorsInv, epochs \in Nat, epochs' \in Nat, epochs <= epochs',
           journal'.epoch = journal.epoch, Shift' = Shift,
           accepted \subseteq accepted', cursors' = cursors,
           \A r \in Underway' : \E q \in Underway : Like(r, q)
    PROVE  CursorsInv'
<1>1. ASSUME NEW i \in 1 .. Len(cursors) PROVE CursorSound(cursors[i])'
  <2>1. PICK c : c = cursors[i]
    OBVIOUS
  <2>2. c \in [epoch : Nat, sequence : Nat]
    BY <2>1, ElementOfSeq DEF CursorsInv
  <2>3. CursorSound(c)
    BY <2>1 DEF CursorsInv
  <2>4. CursorSound(c)'
    BY <2>2, <2>3, SoundKept
  <2> QED
    BY <2>1, <2>4 DEF CursorSound, Covers
<1> QED
  BY <1>1 DEF CursorsInv

\* A step that neither processes an event nor renumbers the journal.
LEMMA QuietForCursors ==
    ASSUME IInv, NInv, epochs' \in {epochs, epochs + 1},
           journal'.epoch = journal.epoch, Shift' = Shift,
           UNCHANGED <<accepted, cursors, told>>,
           liveEpoch' = liveEpoch \/ liveEpoch' \in epochs + 1 .. epochs',
           liveSeq' \in Nat,
           \A r \in Underway' : \E q \in Underway : Like(r, q)
    PROVE  NInv'
<1>1. /\ epochs \in Nat /\ epochs' \in Nat /\ epochs <= epochs'
      /\ journal.epoch \in 1 .. epochs
  BY DEF IInv, JournalInv
<1>2. EpochsApart'
  BY <1>1, ApartKept DEF NInv
<1>3. CursorsInv'
  BY <1>1, CursorsKept DEF NInv
<1>4. FirstEpochInv' /\ ToldInv'
  BY DEF NInv, FirstEpochInv, ToldInv
<1> QED
  BY <1>2, <1>3, <1>4 DEF NInv

\* A request is like itself, and like itself one event further.
LEMMA LikeItself == \A r : Like(r, r)
  BY DEF Like

\* Steps that change neither cursors nor what has been processed.
Bystander ==
    \/ EmitDurable \/ Start \/ LiveAcked
    \/ \E k \in Sessions : EmitSession(k)
    \/ \E k \in Watches : EmitGit(k)
    \/ RequestFails \/ ConnectionLost \/ Stop \/ Exit \/ Reply \/ LegacyReply
    \/ AcceptFragment \/ FragmentRefused \/ AcceptLateFragment
    \/ LateCommitted \/ TransferExpires

\* Only the flush loop makes new requests.
LEMMA NoNewRequest ==
    ASSUME IInv, TypeInv,
           Bystander \/ DurableAcked \/ AcceptEvent \/ AcceptLate \/ ServerRestart
    PROVE  \A r \in Underway' : \E q \in Underway : Like(r, q)
<1>1. CASE \/ EmitDurable \/ Start
           \/ \E k \in Sessions : EmitSession(k)
           \/ \E k \in Watches : EmitGit(k)
  <2>1. flight' = flight /\ late' = late
    BY <1>1 DEF EmitDurable, Start, EmitSession, EmitGit, NewLive
  <2> QED
    BY <2>1, LikeItself DEF Underway
<1>2. CASE \/ DurableAcked \/ LiveAcked \/ RequestFails \/ ConnectionLost
           \/ Stop \/ Exit \/ FragmentRefused
  <2>1. flight' = NoFlight
    BY <1>2 DEF DurableAcked, LiveAcked, RequestFails, ConnectionLost, GiveUp,
                Stop, Exit, FragmentRefused
  <2>2. late' = late \/ (flight # NoFlight /\ Abandon)
    BY <1>2 DEF DurableAcked, LiveAcked, RequestFails, ConnectionLost, GiveUp,
                Stop, Exit, FragmentRefused
  <2>3. late' \subseteq Underway
    BY <2>2 DEF Abandon, Underway
  <2> QED
    BY <2>1, <2>3, LikeItself DEF Underway
<1>3. CASE AcceptLate
  <2>1. PICK q \in late : /\ q.pos < q.last
                          /\ late' \subseteq late \cup {Advanced(q)}
    BY <1>3 DEF AcceptLate
  <2>2. flight' = flight
    BY <1>3 DEF AcceptLate
  <2>3. Like(Advanced(q), q)
    BY <2>1 DEF TypeInv, Advanced, RequestShape, Like
  <2> QED
    BY <2>1, <2>2, <2>3, LikeItself DEF Underway
<1>4. CASE \/ AcceptEvent \/ Reply \/ LegacyReply \/ ServerRestart
           \/ AcceptFragment \/ AcceptLateFragment
           \/ LateCommitted \/ TransferExpires
  <2>1. late' \subseteq late
    BY <1>4 DEF AcceptEvent, Reply, LegacyReply, ServerRestart, AcceptFragment,
                AcceptLateFragment, LateCommitted, TransferExpires
  <2>2. CASE flight' = flight
    BY <2>1, <2>2, LikeItself DEF Underway
  <2>3. CASE flight' # flight
    <3>1. /\ flight # NoFlight
          /\ \/ /\ flight' = [flight EXCEPT !.request = Advanced(flight.request)]
                /\ flight.request.pos < flight.request.last
             \/ \E n : flight' = [flight EXCEPT !.request =
                                                  [flight.request EXCEPT !.frag = n]]
             \/ flight' = [flight EXCEPT !.alive = FALSE]
             \/ flight' = [flight EXCEPT !.ack = 0]
             \/ flight' = [flight EXCEPT !.ack = flight.request.last]
      BY <1>4, <2>3 DEF AcceptEvent, Reply, LegacyReply, ServerRestart,
             AcceptFragment, AcceptLateFragment, LateCommitted, TransferExpires,
             Awaited
    <3>2. FlightShape(flight) /\ RequestShape(flight.request)
      BY <3>1 DEF TypeInv, IInv, FlightInv, RequestInv
    <3>3. \/ flight'.request = flight.request
          \/ /\ flight'.request = Advanced(flight.request)
             /\ flight.request.pos < flight.request.last
          \/ \E n : flight'.request = [flight.request EXCEPT !.frag = n]
      BY <3>1, <3>2 DEF FlightShape
    <3>4. Like(flight'.request, flight.request)
      BY <3>2, <3>3 DEF Like, Advanced, RequestShape
    <3>5. flight.request \in Underway
      BY <3>1 DEF Underway
    <3> QED
      BY <2>1, <3>4, <3>5, LikeItself DEF Underway
  <2> QED
    BY <2>2, <2>3
<1> QED
  BY <1>1, <1>2, <1>3, <1>4 DEF Bystander

\* enqueue() counts rows and payloads alike.
LEMMA EmitKeepsShift == IInv /\ EmitDurable => Shift' = Shift
  BY DEF IInv, JournalInv, EmitDurable, Enqueue, Shift

\* Bystanders keep the invariant.
LEMMA BystanderForCursors == IInv /\ TypeInv /\ NInv /\ Bystander => NInv'
<1> SUFFICES ASSUME IInv, TypeInv, NInv, Bystander PROVE NInv'
  OBVIOUS
<1>1. \A r \in Underway' : \E q \in Underway : Like(r, q)
  BY NoNewRequest
<1>2. UNCHANGED <<accepted, cursors, told>>
  BY DEF Bystander, EmitDurable, Start, LiveAcked, EmitSession, EmitGit, NewLive,
         RequestFails, ConnectionLost, GiveUp, Stop, Exit, Reply, LegacyReply,
         AcceptFragment, FragmentRefused, AcceptLateFragment, LateCommitted,
         TransferExpires, server, memory
<1>3. journal'.epoch = journal.epoch /\ Shift' = Shift
  <2>1. CASE EmitDurable
    BY <2>1, EmitKeepsShift DEF EmitDurable, Enqueue, IInv, JournalInv
  <2>2. CASE ~EmitDurable
    <3>1. UNCHANGED <<journal, emitted>>
      BY <2>2 DEF Bystander, Start, LiveAcked, EmitSession, EmitGit, NewLive,
             RequestFails, ConnectionLost, GiveUp, Stop, Exit, Reply, LegacyReply,
             AcceptFragment, FragmentRefused, AcceptLateFragment, LateCommitted,
             TransferExpires, disk
    <3> QED
      BY <3>1 DEF Shift
  <2> QED
    BY <2>1, <2>2
<1>4. /\ epochs' \in {epochs, epochs + 1}
      /\ liveEpoch' = liveEpoch \/ liveEpoch' \in epochs + 1 .. epochs'
  <2>1. CASE Start \/ LiveAcked
    BY <2>1 DEF Start, LiveAcked, IInv, JournalInv
  <2>2. CASE ~(Start \/ LiveAcked)
    BY <2>2 DEF Bystander, EmitDurable, EmitSession, EmitGit, NewLive,
           RequestFails, ConnectionLost, GiveUp, Stop, Exit, Reply, LegacyReply,
           AcceptFragment, FragmentRefused, AcceptLateFragment, LateCommitted,
           TransferExpires, lanes
  <2> QED
    BY <2>1, <2>2
<1>5. liveSeq' \in Nat
  <2>1. CASE LiveAcked
    <3>1. liveSeq' = flight.request.last \/ liveSeq' = 0
      BY <2>1 DEF LiveAcked
    <3>2. flight.request \in Underway
      BY <2>1 DEF LiveAcked, Underway
    <3> QED
      BY <3>1, <3>2 DEF NInv, EpochsApart
  <2>2. CASE Start
    BY <2>2 DEF Start
  <2>3. CASE ~LiveAcked /\ ~Start
    BY <2>3 DEF Bystander, EmitDurable, EmitSession, EmitGit, NewLive,
           RequestFails, ConnectionLost, GiveUp, Stop, Exit, Reply, LegacyReply,
           AcceptFragment, FragmentRefused, AcceptLateFragment, LateCommitted,
           TransferExpires, lanes, NInv, EpochsApart
  <2> QED
    BY <2>1, <2>2, <2>3
<1> QED
  BY <1>1, <1>2, <1>3, <1>4, <1>5, QuietForCursors

\* What a request is made of.
LEMMA RequestFields ==
    ASSUME NEW kind, NEW epoch, NEW first, NEW last, NEW events
    PROVE  LET r == Request(kind, epoch, first, last, events)
           IN  /\ RequestShape(r) /\ r.kind = kind /\ r.epoch = epoch
               /\ r.first = first /\ r.last = last /\ r.events = events
               /\ r.pos = first - 1
  BY DEF Request, RequestShape

\* A request that is launched is the only new one.
LEMMA LaunchForCursors ==
    ASSUME IInv, TypeInv, NInv, FlushDurable \/ FlushLive PROVE NInv'
<1>1. /\ UNCHANGED <<journal, emitted, accepted, cursors, told, epochs>>
      /\ UNCHANGED <<liveEpoch, liveSeq>>
      /\ flight = NoFlight /\ late' = late
  BY DEF FlushDurable, FlushLive, disk, lanes, server, memory
<1>2. PICK r : /\ flight' # NoFlight /\ flight'.request = r /\ r.kind \in Kinds
               /\ r.last \in Nat /\ r.pos \in Nat
               /\ r.kind = "durable" => r.epoch = journal.epoch /\ Offset(r) = Shift
               /\ r.kind = "live" => r.epoch = liveEpoch
  <2>1. CASE FlushDurable
    <3>1. PICK first, last, events :
              Launch(Request("durable", journal.epoch, first, last, events), <<>>, <<>>)
      BY <2>1 DEF FlushDurable
    <3>2. /\ flight' # NoFlight /\ flight'.request.kind = "durable"
          /\ flight'.request.epoch = journal.epoch
      BY <3>1 DEF Launch, Request, NoFlight
    <3>3. FlightInv(flight)'
      BY <2>1, FlushDurableStep DEF IInv
    <3>4. Offset(flight'.request) = Shift'
      BY <1>1, <3>2, <3>3 DEF FlightInv, RequestInv, DurableInv, Offset
    <3>5. flight'.request.last \in Nat /\ flight'.request.pos \in Nat
      BY <3>2, <3>3 DEF FlightInv, RequestInv, DurableInv
    <3> QED
      BY <1>1, <3>2, <3>4, <3>5 DEF Shift, Kinds
  <2>2. CASE FlushLive
    <3>1. PICK size, events, h, q :
              /\ size \in 1 .. BatchLimit
              /\ Launch(Request("live", liveEpoch, liveSeq + 1, liveSeq + size,
                                events), h, q)
      BY <2>2 DEF FlushLive
    <3>2. PICK f, l : f = liveSeq + 1 /\ l = liveSeq + size
      OBVIOUS
    <3>3. /\ flight'.request = Request("live", liveEpoch, f, l, events)
          /\ flight' # NoFlight
      BY <3>1, <3>2 DEF Launch, NoFlight
    <3>4. /\ flight'.request.kind = "live" /\ flight'.request.epoch = liveEpoch
          /\ flight'.request.last = l /\ flight'.request.pos = f - 1
      BY <3>3, RequestFields
    <3>5. l \in Nat /\ f - 1 \in Nat
      BY <3>1, <3>2 DEF NInv, EpochsApart
    <3> QED
      BY <3>3, <3>4, <3>5 DEF Kinds
  <2> QED
    BY <2>1, <2>2
<1>3. Underway = late /\ Underway' = late \cup {r}
  BY <1>1, <1>2 DEF Underway
<1>4. /\ epochs \in Nat /\ journal.epoch \in 1 .. epochs
      /\ \A q \in late : q.kind = "durable" /\ q.epoch = journal.epoch
                             => Offset(q) = Shift
  BY DEF IInv, JournalInv, LateInv, RequestInv, DurableInv
<1>5. Shift' = Shift
  BY <1>1 DEF Shift
<1>6. ASSUME NEW q \in late, q.epoch = r.epoch
      PROVE  q.kind = r.kind /\ (q.kind = "durable" => Offset(q) = Offset(r))
  <2>1. CASE r.kind = "durable"
    <3>1. q.kind = "durable"
      BY <1>2, <1>3, <1>6, <2>1 DEF NInv, EpochsApart, Kinds
    <3> QED
      BY <1>2, <1>4, <1>6, <2>1, <3>1
  <2>2. CASE r.kind = "live"
    BY <1>2, <1>3, <1>6, <2>2 DEF NInv, EpochsApart, Kinds
  <2> QED
    BY <1>2, <2>1, <2>2 DEF Kinds
<1>7. EpochsApart'
  <2>1. /\ r.epoch \in 1 .. epochs
        /\ r.kind = "durable" => r.epoch # liveEpoch /\ r.epoch <= journal.epoch
        /\ r.kind = "live" => r.epoch # journal.epoch
    BY <1>2, <1>4 DEF NInv, EpochsApart, Kinds
  <2>2. ASSUME NEW q \in Underway'
        PROVE  /\ q.kind \in Kinds /\ q.epoch \in 1 .. epochs'
               /\ q.last \in Nat /\ q.pos \in Nat
               /\ q.kind = "durable" => /\ q.epoch # liveEpoch'
                                        /\ q.epoch <= journal'.epoch
               /\ q.kind = "live" => q.epoch # journal'.epoch
    BY <1>1, <1>2, <1>3, <2>1 DEF NInv, EpochsApart
  <2>3. ASSUME NEW q \in Underway', NEW t \in Underway', q.epoch = t.epoch
        PROVE  q.kind = t.kind /\ (q.kind = "durable" => Offset(q) = Offset(t))
    <3>1. CASE q \in late /\ t \in late
      BY <1>3, <2>3, <3>1 DEF NInv, EpochsApart
    <3>2. CASE q = r \/ t = r
      BY <1>3, <1>6, <2>3, <3>2
    <3> QED
      BY <1>3, <3>1, <3>2
  <2> QED
    BY <1>1, <2>2, <2>3 DEF NInv, EpochsApart
<1>8. CursorsInv'
  <2>1. ASSUME NEW i \in 1 .. Len(cursors) PROVE CursorSound(cursors[i])'
    <3>1. CursorSound(cursors[i])
      BY DEF NInv, CursorsInv
    <3>2. ASSUME NEW q \in Underway', q.kind = "durable", q.epoch = cursors[i].epoch
          PROVE  Covers(cursors[i], Offset(q))
      BY <1>2, <1>3, <3>1, <3>2 DEF CursorSound
    <3> QED
      BY <1>1, <1>5, <3>1, <3>2 DEF CursorSound, Covers
  <2> QED
    BY <1>1, <2>1 DEF NInv, CursorsInv
<1>9. FirstEpochInv' /\ ToldInv'
  BY <1>1, <1>5 DEF NInv, FirstEpochInv, ToldInv
<1> QED
  BY <1>7, <1>8, <1>9 DEF NInv

\* An answer to a durable batch: a rebase draws an epoch without a cursor.
LEMMA AckedForCursors == ASSUME IInv, TypeInv, NInv, DurableAcked PROVE NInv'
<1>1. \A r \in Underway' : \E q \in Underway : Like(r, q)
  BY NoNewRequest
<1>2. UNCHANGED <<emitted, accepted, cursors, told, liveEpoch, liveSeq>>
  BY DEF DurableAcked, server, memory
<1>3. epochs \in Nat /\ journal.epoch \in 1 .. epochs /\ liveSeq \in Nat
  BY DEF IInv, JournalInv, NInv, EpochsApart
<1>4. CASE journal' = Acknowledge(journal, flight.ack) /\ epochs' = epochs
  <2>1. journal'.epoch = journal.epoch /\ journal'.next = journal.next
    BY <1>4 DEF Acknowledge, IInv, JournalInv
  <2>2. Shift' = Shift
    BY <1>2, <2>1 DEF Shift
  <2>3. EpochsApart'
    BY <1>1, <1>2, <1>3, <1>4, <2>1, ApartKept DEF NInv
  <2>4. CursorsInv'
    BY <1>1, <1>2, <1>3, <1>4, <2>1, <2>2, CursorsKept DEF NInv
  <2>5. FirstEpochInv' /\ ToldInv'
    BY <1>2, <2>1, <2>2 DEF NInv, FirstEpochInv, ToldInv
  <2> QED
    BY <2>3, <2>4, <2>5 DEF NInv
<1>5. CASE journal' = Rebase(journal, epochs + 1) /\ epochs' = epochs + 1
  <2>1. journal'.epoch = epochs + 1
    BY <1>5 DEF Rebase
  <2>2. EpochsApart'
    <3>1. liveEpoch' \in 1 .. epochs' /\ liveEpoch' # journal'.epoch
      BY <1>2, <1>3, <1>5, <2>1 DEF NInv, EpochsApart
    <3>2. ASSUME NEW r \in Underway'
          PROVE  /\ r.kind \in Kinds /\ r.epoch \in 1 .. epochs'
                 /\ r.last \in Nat /\ r.pos \in Nat
                 /\ r.kind = "durable" => /\ r.epoch # liveEpoch'
                                          /\ r.epoch <= journal'.epoch
                 /\ r.kind = "live" => r.epoch # journal'.epoch
      <4>1. PICK q \in Underway : Like(r, q)
        BY <1>1
      <4> QED
        BY <1>2, <1>3, <1>5, <2>1, <4>1 DEF NInv, EpochsApart, Like
    <3>3. ASSUME NEW r \in Underway', NEW t \in Underway', r.epoch = t.epoch
          PROVE  r.kind = t.kind /\ (r.kind = "durable" => Offset(r) = Offset(t))
      <4>1. PICK q \in Underway : Like(r, q)
        BY <1>1
      <4>2. PICK u \in Underway : Like(t, u)
        BY <1>1
      <4>3. q.kind = u.kind /\ (q.kind = "durable" => Offset(q) = Offset(u))
        BY <3>3, <4>1, <4>2 DEF NInv, EpochsApart, Like
      <4> QED
        BY <4>1, <4>2, <4>3 DEF Like, Offset
    <3> QED
      BY <1>2, <1>3, <3>1, <3>2, <3>3 DEF EpochsApart
  <2>3. CursorsInv'
    <3>1. ASSUME NEW i \in 1 .. Len(cursors) PROVE CursorSound(cursors[i])'
      <4>1. cursors[i] \in [epoch : Nat, sequence : Nat]
        BY ElementOfSeq DEF NInv, CursorsInv
      <4>2. CursorSound(cursors[i]) /\ cursors[i].epoch \in Nat
        BY <4>1 DEF NInv, CursorsInv
      <4>3. cursors[i].epoch <= epochs' /\ cursors[i].epoch # journal'.epoch
        BY <1>3, <1>5, <2>1, <4>2 DEF CursorSound
      <4>4. ASSUME NEW r \in Underway', r.kind = "durable",
                   r.epoch = cursors[i].epoch
            PROVE  Covers(cursors[i], Offset(r))
        <5>1. PICK q \in Underway : Like(r, q)
          BY <1>1
        <5>2. Covers(cursors[i], Offset(q)) /\ Offset(r) = Offset(q)
          BY <4>2, <4>4, <5>1 DEF CursorSound, Like, Offset
        <5> QED
          BY <5>2
      <4> QED
        BY <1>2, <4>3, <4>4 DEF CursorSound, Covers
    <3> QED
      BY <1>2, <3>1 DEF NInv, CursorsInv
  <2>4. journal'.epoch # 1
    BY <1>3, <2>1
  <2> QED
    BY <2>2, <2>3, <2>4 DEF NInv, FirstEpochInv, ToldInv
<1> QED
  BY <1>4, <1>5 DEF DurableAcked

-----------------------------------------------------------------------------
(* Processing an event.                                                    *)

Cursor(epoch, s) == [epoch |-> epoch, sequence |-> s]

\* What a step that claims a cursor makes of the list of cursors.
Grown(epoch, s) ==
    IF CursorOf(epoch) = {}
      THEN Append(cursors, Cursor(epoch, s))
      ELSE [i \in DOMAIN cursors |->
                IF i \in CursorOf(epoch) THEN Cursor(epoch, s) ELSE cursors[i]]

\* The list has the claimed cursor, one cursor for an epoch, and none that
\* has moved back.
Grows(G, e, s) ==
    /\ G \in Seq([epoch : Nat, sequence : Nat])
    /\ Len(G) \in Len(cursors) .. Len(cursors) + 1
    /\ \A i, j \in 1 .. Len(G) : G[i].epoch = G[j].epoch => i = j
    /\ \A i \in 1 .. Len(G) : \/ G[i] = Cursor(e, s)
                              \/ \E j \in 1 .. Len(cursors) : G[i] = cursors[j]
    /\ \E i \in 1 .. Len(G) : G[i] = Cursor(e, s)
    /\ \A j \in 1 .. Len(cursors) : \E i \in 1 .. Len(G) :
           /\ G[i].epoch = cursors[j].epoch
           /\ G[i].sequence >= cursors[j].sequence

\* So it is before the oldest cursor goes.
LEMMA GrownCursors ==
    ASSUME CursorsInv, NEW e \in Nat, NEW s \in Nat, Fresh(e, s),
           NEW G, G = Grown(e, s)
    PROVE  Grows(G, e, s)
<1> DEFINE R == [epoch : Nat, sequence : Nat]
           n == Len(cursors)
<1>1. /\ cursors \in Seq(R) /\ n \in Nat /\ DOMAIN cursors = 1 .. n
      /\ \A i \in 1 .. n : cursors[i] \in R
      /\ \A i, j \in 1 .. n : cursors[i].epoch = cursors[j].epoch => i = j
  BY LenProperties, ElementOfSeq DEF CursorsInv
<1>2. Cursor(e, s) \in R /\ Cursor(e, s).epoch = e /\ Cursor(e, s).sequence = s
  BY DEF Cursor
<1>3. CASE CursorOf(e) = {}
  <2>1. G = Append(cursors, Cursor(e, s))
    BY <1>3 DEF Grown
  <2>2. /\ G \in Seq(R) /\ Len(G) = n + 1 /\ G[n + 1] = Cursor(e, s)
        /\ \A i \in 1 .. n : G[i] = cursors[i]
    BY <1>1, <1>2, <2>1, AppendProperties
  <2>3. \A i \in 1 .. n : cursors[i].epoch # e
    BY <1>1, <1>3 DEF CursorOf
  <2> HIDE DEF n, R
  <2>4. \A i \in 1 .. n + 1 : i \in 1 .. n \/ i = n + 1
    BY <1>1
  <2>5. \A i, j \in 1 .. n + 1 : G[i].epoch = G[j].epoch => i = j
    BY <1>1, <1>2, <2>2, <2>3, <2>4
  <2>6. 1 .. n \subseteq 1 .. n + 1 /\ n + 1 \in 1 .. n + 1
    BY <1>1
  <2>7. \A j \in 1 .. n : G[j].sequence >= cursors[j].sequence
    <3>1. \A j \in 1 .. n : cursors[j].sequence \in Nat
      BY <1>1 DEF R
    <3> QED
      BY <2>2, <3>1
  <2>8. /\ \A i \in 1 .. n + 1 :
               \/ G[i] = Cursor(e, s)
               \/ \E j \in 1 .. n : G[i] = cursors[j]
        /\ \E i \in 1 .. n + 1 : G[i] = Cursor(e, s)
    BY <2>2, <2>4, <2>6
  <2>9. \A j \in 1 .. n : \E i \in 1 .. n + 1 :
            /\ G[i].epoch = cursors[j].epoch
            /\ G[i].sequence >= cursors[j].sequence
    BY <2>2, <2>6, <2>7
  <2>10. n + 1 \in n .. n + 1
    BY <1>1
  <2> QED
    BY <2>2, <2>5, <2>8, <2>9, <2>10 DEF n, R, Grows
<1>4. CASE CursorOf(e) # {}
  <2>1. PICK k \in 1 .. n : cursors[k].epoch = e
    BY <1>1, <1>4 DEF CursorOf
  <2>2. CursorOf(e) = {k}
    BY <1>1, <2>1 DEF CursorOf
  <2>3. G = [i \in 1 .. n |-> IF i = k THEN Cursor(e, s) ELSE cursors[i]]
    BY <1>1, <1>4, <2>2 DEF Grown
  <2>4. G \in Seq(R) /\ Len(G) = n
    <3>1. G \in [1 .. n -> R]
      BY <1>1, <1>2, <2>3
    <3> HIDE DEF R, n
    <3>2. G \in Seq(R)
      BY <1>1, <3>1, SeqDef
    <3>3. Len(G) \in Nat /\ 1 .. Len(G) = 1 .. n
      BY <3>1, <3>2, LenProperties
    <3> QED
      BY <1>1, <3>2, <3>3
  <2>5. s > cursors[k].sequence
    BY <2>2 DEF Fresh
  <2>6. \A i \in 1 .. n : G[i] = IF i = k THEN Cursor(e, s) ELSE cursors[i]
    BY <2>3
  <2> HIDE DEF n, R
  <2>7. \A i \in 1 .. n : G[i].epoch = cursors[i].epoch
    BY <1>1, <1>2, <2>1, <2>6
  <2>8. \A i \in 1 .. n : G[i].sequence >= cursors[i].sequence
    BY <1>1, <1>2, <2>5, <2>6, SMTT(30) DEF R
  <2>9. \A i, j \in 1 .. n : G[i].epoch = G[j].epoch => i = j
    BY <1>1, <2>7
  <2>10. /\ \A i \in 1 .. n :
                \/ G[i] = Cursor(e, s)
                \/ \E j \in 1 .. n : G[i] = cursors[j]
         /\ \E i \in 1 .. n : G[i] = Cursor(e, s)
    BY <2>1, <2>6
  <2>11. n \in n .. n + 1
    BY <1>1
  <2> QED
    BY <2>4, <2>7, <2>8, <2>9, <2>10, <2>11 DEF n, R, Grows
<1> QED
  BY <1>3, <1>4
\* What an event that is processed for the first time had not yet claimed.
LEMMA FreshIsNew ==
    ASSUME IInv, NInv, NEW r \in Underway, RequestInv(r), r.kind = "durable",
           r.pos < r.last
    PROVE  LET s == r.pos + 1
           IN  /\ s \in Nat /\ r.events[s] = s + Offset(r)
               /\ s + Offset(r) \in 1 .. emitted
               /\ ~Fresh(r.epoch, s) => s + Offset(r) \in accepted
<1> DEFINE s == r.pos + 1
<1>1. /\ r.first \in Nat \ {0} /\ r.last \in Nat /\ r.pos \in Nat
      /\ r.first - 1 <= r.pos /\ r.last + Offset(r) <= emitted
      /\ Offset(r) \in Nat /\ emitted \in Nat
      /\ \A t \in r.first .. r.last : r.events[t] = t + Offset(r)
  BY DEF RequestInv, DurableInv, IInv, JournalInv
<1>2. s \in r.first .. r.last /\ s + Offset(r) \in 1 .. emitted /\ s \in Nat
  BY <1>1
<1>3. ASSUME ~Fresh(r.epoch, s) PROVE s + Offset(r) \in accepted
  <2>1. PICK i \in DOMAIN cursors : cursors[i].epoch = r.epoch
                                     /\ ~(s > cursors[i].sequence)
    BY <1>3 DEF Fresh, CursorOf
  <2>2. i \in 1 .. Len(cursors) /\ cursors[i] \in [epoch : Nat, sequence : Nat]
    <3>1. cursors \in Seq([epoch : Nat, sequence : Nat])
      BY DEF NInv, CursorsInv
    <3>2. i \in 1 .. Len(cursors)
      BY <2>1, <3>1, LenProperties
    <3> QED
      BY <3>1, <3>2, ElementOfSeq
  <2>3. 1 .. (cursors[i].sequence + Offset(r)) \subseteq accepted
    BY <2>1, <2>2 DEF NInv, CursorsInv, CursorSound, Covers
  <2>4. s <= cursors[i].sequence /\ cursors[i].sequence \in Nat
    BY <1>2, <2>1, <2>2
  <2>5. s + Offset(r) \in 1 .. (cursors[i].sequence + Offset(r))
    BY <1>1, <1>2, <2>4
  <2> QED
    BY <2>3, <2>5
<1> QED
  BY <1>1, <1>2, <1>3

\* A fresh event claims a cursor that covers what has then been processed.
LEMMA ClaimIsSound ==
    ASSUME IInv, NInv, NEW r \in Underway, RequestInv(r), r.pos < r.last,
           Process(r), UNCHANGED <<journal, emitted, epochs>>,
           \A q \in Underway' : \E u \in Underway : Like(q, u)
    PROVE  CursorSound(Cursor(r.epoch, r.pos + 1))'
<1> DEFINE s == r.pos + 1
<1>1. r.epoch <= epochs /\ r.pos \in Nat
  BY DEF NInv, EpochsApart, IInv, JournalInv
<1>2. r.kind = "durable" => 1 .. (s + Offset(r)) \subseteq accepted'
  BY ProcessStep
<1>3. ASSUME r.epoch = journal.epoch PROVE 1 .. (s + Shift') \subseteq accepted'
  <2>1. r.kind = "durable"
    BY <1>3 DEF NInv, EpochsApart, Kinds
  <2>2. Offset(r) = Shift
    BY <1>3, <2>1 DEF RequestInv, DurableInv
  <2>3. Shift' = Shift
    BY DEF Shift
  <2> QED
    BY <1>2, <2>1, <2>2, <2>3
<1>4. ASSUME NEW q \in Underway', q.kind = "durable", q.epoch = r.epoch
      PROVE  1 .. (s + Offset(q)) \subseteq accepted'
  <2>1. PICK u \in Underway : Like(q, u)
    OBVIOUS
  <2>2. u.kind = "durable" /\ u.epoch = r.epoch /\ Offset(q) = Offset(u)
    BY <1>4, <2>1 DEF Like, Offset
  <2>3. r.kind = "durable" /\ Offset(r) = Offset(u)
    BY <2>2 DEF NInv, EpochsApart
  <2> QED
    BY <1>2, <2>2, <2>3
<1> HIDE DEF s
<1>5. Cursor(r.epoch, s).epoch = r.epoch /\ Cursor(r.epoch, s).sequence = s
  BY DEF Cursor
<1> QED
  BY <1>1, <1>3, <1>4, <1>5 DEF CursorSound, Covers, s
\* Processing an event: a fresh one claims its cursor, before it counts as
\* processed, and only a payload without a cursor is told.
LEMMA ProcessForCursors ==
    ASSUME IInv, TypeInv, NInv, NEW r \in Underway, RequestInv(r), r.pos < r.last,
           Process(r), UNCHANGED <<journal, emitted, epochs, liveEpoch, liveSeq>>,
           \A q \in Underway' : \E u \in Underway : Like(q, u)
    PROVE  NInv'
<1> DEFINE s == r.pos + 1
           R == [epoch : Nat, sequence : Nat]
<1>0. PICK G : G = Grown(r.epoch, s)
  OBVIOUS
<1>1. /\ epochs \in Nat /\ journal.epoch \in 1 .. epochs /\ liveSeq \in Nat
      /\ r.epoch \in 1 .. epochs /\ r.epoch \in Nat /\ s \in Nat
      /\ r.kind \in Kinds
  BY DEF IInv, JournalInv, NInv, EpochsApart
<1>2. EpochsApart'
  BY <1>1, ApartKept DEF NInv
<1>3. accepted \subseteq accepted'
  <2>1. \/ accepted' = accepted
        \/ \E p \in 1 .. emitted : accepted = 1 .. (p - 1) /\ accepted' = 1 .. p
    BY ProcessStep
  <2> QED
    BY <2>1 DEF IInv, JournalInv
<1>4. Shift' = Shift
  BY DEF Shift
<1>5. FirstEpochInv'
  BY <1>4 DEF NInv, FirstEpochInv
<1>6. CASE ~Fresh(r.epoch, s)
  <2>1. cursors' = cursors /\ told' = told
    BY <1>6 DEF Process
  <2>2. CursorsInv'
    BY <1>1, <1>3, <1>4, <2>1, CursorsKept DEF NInv
  <2>3. ToldInv'
    BY <2>1 DEF NInv, ToldInv
  <2> QED
    BY <1>2, <1>5, <2>2, <2>3 DEF NInv
<1>7. CASE Fresh(r.epoch, s)
  <2>1. cursors' = IF Len(G) > CursorLimit THEN Tail(G) ELSE G
    BY <1>0, <1>7 DEF Process, Claimed, Grown, Cursor
  <2>2. /\ G \in Seq(R)
        /\ Len(G) \in Len(cursors) .. Len(cursors) + 1
        /\ \A i, j \in 1 .. Len(G) : G[i].epoch = G[j].epoch => i = j
        /\ \A i \in 1 .. Len(G) :
               \/ G[i] = Cursor(r.epoch, s)
               \/ \E j \in 1 .. Len(cursors) : G[i] = cursors[j]
        /\ \E i \in 1 .. Len(G) : G[i] = Cursor(r.epoch, s)
        /\ \A j \in 1 .. Len(cursors) : \E i \in 1 .. Len(G) :
               /\ G[i].epoch = cursors[j].epoch
               /\ G[i].sequence >= cursors[j].sequence
    <3>1. CursorsInv /\ r.epoch \in Nat /\ s \in Nat
      BY <1>1 DEF NInv
    <3>2. PICK e \in Nat, t \in Nat : e = r.epoch /\ t = s
      BY <3>1
    <3>3. e \in Nat /\ t \in Nat /\ Fresh(e, t) /\ G = Grown(e, t)
      BY <1>0, <1>7, <3>2
    <3> HIDE DEF s
    <3>4. Grows(G, e, t)
      BY <3>1, <3>3, GrownCursors
    <3> QED
      BY <3>2, <3>4 DEF Grows
  <2>3. Len(cursors) \in Nat /\ Len(cursors) <= CursorLimit /\ Len(G) \in Nat
        /\ cursors \in Seq(R)
    BY <2>2, LenProperties DEF NInv, CursorsInv
  <2>4. CursorSound(Cursor(r.epoch, s))'
    BY ClaimIsSound
  <2>5. ASSUME NEW i \in 1 .. Len(G) PROVE CursorSound(G[i])'
    <3>1. CASE G[i] = Cursor(r.epoch, s)
      BY <2>4, <3>1 DEF CursorSound, Covers
    <3>2. CASE \E j \in 1 .. Len(cursors) : G[i] = cursors[j]
      <4>1. PICK j \in 1 .. Len(cursors) : G[i] = cursors[j]
        BY <3>2
      <4>2. PICK c : c = cursors[j]
        OBVIOUS
      <4>3. c \in R /\ CursorSound(c)
        BY <2>3, <4>2, ElementOfSeq DEF NInv, CursorsInv
      <4>4. CursorSound(c)'
        BY <1>1, <1>3, <1>4, <4>3, SoundKept
      <4> QED
        BY <4>1, <4>2, <4>4 DEF CursorSound, Covers
    <3> QED
      BY <2>2, <3>1, <3>2
  <2> HIDE DEF R
  <2>6. /\ cursors' \in Seq(R) /\ Len(cursors') <= CursorLimit
        /\ \A i \in 1 .. Len(cursors') : \E k \in 1 .. Len(G) :
               /\ cursors'[i] = G[k]
               /\ k = IF Len(G) > CursorLimit THEN i + 1 ELSE i
        /\ Len(cursors') < CursorLimit => cursors' = G
    <3>1. CursorLimit \in Nat \ {0}
      BY DeliveryAssumption
    <3>2. CASE Len(G) > CursorLimit
      <4>1. G # <<>> /\ Len(G) = CursorLimit + 1
        BY <2>2, <2>3, <3>1, <3>2, EmptySeq
      <4>2. /\ cursors' \in Seq(R) /\ Len(cursors') = CursorLimit
            /\ \A i \in 1 .. CursorLimit : cursors'[i] = G[i + 1]
        BY <2>1, <2>2, <3>1, <3>2, <4>1, HeadTailProperties
      <4> QED
        BY <2>3, <3>1, <3>2, <4>1, <4>2
    <3>3. CASE Len(G) <= CursorLimit
      BY <2>1, <2>2, <2>3, <3>1, <3>3
    <3> QED
      BY <2>3, <3>1, <3>2, <3>3
  <2>7. CursorsInv'
    <3>1. Len(cursors') \in Nat
      BY <2>6, LenProperties
    <3>2. ASSUME NEW i \in 1 .. Len(cursors'), NEW j \in 1 .. Len(cursors'),
                 cursors'[i].epoch = cursors'[j].epoch
          PROVE  i = j
      <4>1. PICK k \in 1 .. Len(G) :
                /\ cursors'[i] = G[k]
                /\ k = IF Len(G) > CursorLimit THEN i + 1 ELSE i
        BY <2>6
      <4>2. PICK l \in 1 .. Len(G) :
                /\ cursors'[j] = G[l]
                /\ l = IF Len(G) > CursorLimit THEN j + 1 ELSE j
        BY <2>6
      <4>3. k = l
        BY <2>2, <3>2, <4>1, <4>2
      <4> QED
        BY <3>1, <4>1, <4>2, <4>3
    <3>3. ASSUME NEW i \in 1 .. Len(cursors') PROVE CursorSound(cursors[i])'
      <4>1. PICK k \in 1 .. Len(G) : cursors'[i] = G[k]
        BY <2>6
      <4>2. CursorSound(G[k])'
        BY <2>5
      <4> QED
        BY <4>1, <4>2 DEF CursorSound, Covers
    <3> QED
      BY <2>6, <3>2, <3>3 DEF CursorsInv, R
  <2>8. ToldInv'
    <3> SUFFICES ASSUME journal.epoch = 1, Len(cursors') < CursorLimit,
                        NEW p \in 1 .. MaxDurable, told'[p] > 0
                 PROVE  /\ told'[p] = 1
                        /\ \E i \in 1 .. Len(cursors') :
                               /\ cursors'[i].epoch = 1
                               /\ cursors'[i].sequence >= p
      BY DEF ToldInv
    <3>1. cursors' = G /\ Len(cursors) < CursorLimit
      BY <2>2, <2>3, <2>6, DeliveryAssumption
    <3>2. ASSUME told[p] > 0
          PROVE  /\ told[p] = 1
                 /\ \E j \in 1 .. Len(cursors) :
                        cursors[j].epoch = 1 /\ cursors[j].sequence >= p
      BY <3>1, <3>2 DEF NInv, ToldInv
    <3>3. ASSUME NEW j \in 1 .. Len(cursors), cursors[j].epoch = 1,
                 cursors[j].sequence >= p
          PROVE  \E i \in 1 .. Len(G) : G[i].epoch = 1 /\ G[i].sequence >= p
      <4>1. PICK i \in 1 .. Len(G) : /\ G[i].epoch = cursors[j].epoch
                                     /\ G[i].sequence >= cursors[j].sequence
        BY <2>2
      <4>2. G[i] \in R /\ cursors[j] \in R
        BY <2>2, <2>3, ElementOfSeq
      <4> QED
        BY <3>3, <4>1, <4>2 DEF R
    <3>4. CASE told'[p] = told[p]
      BY <3>1, <3>2, <3>3, <3>4
    <3>5. CASE told'[p] # told[p]
      <4>1. r.kind = "durable"
        BY <3>5 DEF Process
      <4>2. r.epoch = 1 /\ Offset(r) = 0
        BY <1>1, <4>1 DEF NInv, EpochsApart, FirstEpochInv, RequestInv, DurableInv
      <4>3. r.events[s] = s
        BY <1>1, <4>1, <4>2, FreshIsNew
      <4>4. told' = [told EXCEPT ![s] = @ + 1]
        BY <1>7, <4>1, <4>3 DEF Process
      <4>5. p = s /\ told'[p] = told[p] + 1 /\ told[p] \in Nat
        BY <3>5, <4>4 DEF TypeInv
      <4>6. ~(told[p] > 0)
        <5> SUFFICES ASSUME told[p] > 0 PROVE FALSE
          OBVIOUS
        <5>1. PICK j \in 1 .. Len(cursors) :
                  cursors[j].epoch = 1 /\ cursors[j].sequence >= p
          BY <3>2
        <5>2. j \in CursorOf(1) /\ cursors[j] \in R
          BY <2>3, <5>1, LenProperties, ElementOfSeq DEF CursorOf
        <5>3. s > cursors[j].sequence
          BY <1>7, <4>2, <5>2 DEF Fresh
        <5> QED
          BY <1>1, <4>5, <5>1, <5>2, <5>3 DEF R
      <4>7. PICK i \in 1 .. Len(G) : G[i] = Cursor(r.epoch, s)
        BY <2>2
      <4>8. G[i].epoch = 1 /\ G[i].sequence >= p
        BY <1>1, <4>2, <4>5, <4>7 DEF Cursor
      <4> QED
        BY <3>1, <4>5, <4>6, <4>8
    <3> QED
      BY <3>4, <3>5
  <2> QED
    BY <1>2, <1>5, <2>7, <2>8 DEF NInv
<1> QED
  BY <1>6, <1>7
\* A new server process has no cursors, and has notified nobody.
LEMMA RestartForCursors == ASSUME IInv, TypeInv, NInv, ServerRestart PROVE NInv'
<1>1. /\ UNCHANGED <<journal, emitted, accepted, epochs, liveEpoch, liveSeq>>
      /\ cursors' = <<>> /\ told' = [p \in 1 .. MaxDurable |-> 0]
  BY DEF ServerRestart, disk, lanes
<1>2. \A r \in Underway' : \E q \in Underway : Like(r, q)
  BY NoNewRequest
<1>3. EpochsApart'
  BY <1>1, <1>2, ApartKept DEF IInv, JournalInv, NInv, EpochsApart
<1>4. CursorsInv'
  BY <1>1, EmptySeq, DeliveryAssumption DEF CursorsInv
<1>5. FirstEpochInv' /\ ToldInv'
  BY <1>1 DEF NInv, FirstEpochInv, ToldInv, Shift
<1> QED
  BY <1>3, <1>4, <1>5 DEF NInv

\* Both ways an event is processed, for the lemmas above.
LEMMA ProcessingSteps ==
    ASSUME IInv, TypeInv, NInv, AcceptEvent \/ AcceptLate
    PROVE  \E r \in Underway :
               /\ RequestInv(r) /\ r.pos < r.last /\ Process(r)
               /\ UNCHANGED <<journal, emitted, epochs, liveEpoch, liveSeq>>
<1>1. CASE AcceptEvent
  BY <1>1 DEF AcceptEvent, Awaited, Underway, IInv, FlightInv, disk, lanes
<1>2. CASE AcceptLate
  BY <1>2 DEF AcceptLate, Underway, IInv, LateInv, disk, lanes
<1> QED
  BY <1>1, <1>2

\* The invariant of the cursors holds in every reachable state.
LEMMA CursorsSound == Spec => []NInv
<1>1. Init => NInv
  <2> SUFFICES ASSUME Init PROVE NInv
    OBVIOUS
  <2>1. Underway = {}
    BY DEF Init, Underway
  <2>2. EpochsApart /\ FirstEpochInv /\ ToldInv
    BY <2>1 DEF Init, EmptyJournal, EpochsApart, FirstEpochInv, ToldInv, Shift
  <2>3. CursorsInv
    BY EmptySeq, DeliveryAssumption DEF Init, CursorsInv
  <2> QED
    BY <2>2, <2>3 DEF NInv
<1>2. IInv /\ TypeInv /\ NInv /\ [Next]_vars => NInv'
  <2> SUFFICES ASSUME IInv, TypeInv, NInv, [Next]_vars PROVE NInv'
    OBVIOUS
  <2>1. CASE Bystander
    BY <2>1, BystanderForCursors
  <2>2. CASE FlushDurable \/ FlushLive
    BY <2>2, LaunchForCursors
  <2>3. CASE DurableAcked
    BY <2>3, AckedForCursors
  <2>4. CASE AcceptEvent \/ AcceptLate
    BY <2>4, ProcessingSteps, NoNewRequest, ProcessForCursors
  <2>5. CASE ServerRestart
    BY <2>5, RestartForCursors
  <2>6. CASE UNCHANGED vars
    <3>1. /\ UNCHANGED <<journal, emitted, accepted, cursors, told>>
          /\ UNCHANGED <<epochs, liveEpoch, liveSeq, flight, late>>
      BY <2>6 DEF vars, disk, lanes, server, memory
    <3>2. \A r \in Underway' : \E q \in Underway : Like(r, q)
      BY <3>1, LikeItself DEF Underway
    <3>3. Shift' = Shift
      BY <3>1 DEF Shift
    <3>4. liveSeq' \in Nat
      BY <3>1 DEF NInv, EpochsApart
    <3> QED
      BY <3>1, <3>2, <3>3, <3>4, QuietForCursors
  <2> QED
    BY <2>1, <2>2, <2>3, <2>4, <2>5, <2>6 DEF Next, Connector, Server, Bystander
<1> QED
  BY Invariance, Typing, <1>1, <1>2, PTL DEF Spec

\* acceptBatch() (broker.ts): as long as the journal kept its first epoch and
\* the map of cursors has never been full, no event notifies twice within
\* one server process, whatever is retried, abandoned or overtaken.
THEOREM NoSecondNotification == Spec => []NotifiedOnce
<1>1. TypeInv /\ NInv => NotifiedOnce
  BY DEF TypeInv, NInv, ToldInv, NotifiedOnce
<1> QED
  BY Typing, CursorsSound, <1>1, PTL

\* acceptBatch() (broker.ts): an event that is processed for the first time
\* has no cursor that covers it, in any epoch and after any restart, and so
\* notifies.
THEOREM FirstNotifies == Spec => FirstAcceptanceNotifies
<1>1. ASSUME IInv, TypeInv, NInv, [Next]_vars
      PROVE  [\A p \in accepted' \ accepted : told'[p] > told[p]]_<<accepted, told>>
  <2> SUFFICES ASSUME NEW p \in accepted' \ accepted PROVE told'[p] > told[p]
    OBVIOUS
  <2>1. AcceptEvent \/ AcceptLate
    BY <1>1 DEF Next, Connector, Server, vars, disk, server, memory, EmitDurable,
       EmitSession, EmitGit, NewLive, FlushDurable, FlushLive, DurableAcked,
       LiveAcked, RequestFails, ConnectionLost, GiveUp, Stop, Exit, Start, Reply,
       LegacyReply, ServerRestart, AcceptFragment, FragmentRefused,
       AcceptLateFragment, LateCommitted, TransferExpires
  <2>2. PICK r \in Underway : RequestInv(r) /\ r.pos < r.last /\ Process(r)
    BY <1>1, <2>1, ProcessingSteps
  <2>3. r.kind = "durable" /\ p = r.events[r.pos + 1]
    BY <2>2 DEF Process
  <2>4. Fresh(r.epoch, r.pos + 1) /\ p \in 1 .. emitted
    BY <1>1, <2>2, <2>3, FreshIsNew
  <2>5. told' = [told EXCEPT ![p] = @ + 1] /\ p \in 1 .. MaxDurable
    <3>1. emitted \in 0 .. MaxDurable /\ MaxDurable \in Nat
      BY <1>1, DeliveryAssumption DEF TypeInv
    <3> QED
      BY <2>2, <2>3, <2>4, <3>1 DEF Process
  <2> QED
    BY <1>1, <2>5 DEF TypeInv
<1> QED
  BY Invariance, Typing, CursorsSound, <1>1, PTL DEF Spec, FirstAcceptanceNotifies

=============================================================================
