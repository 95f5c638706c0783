--------------------------- MODULE LiveViews_proofs ---------------------------
(***************************************************************************)
(* Proofs about what a page shows of a session and of a Git status, for    *)
(* any number of subscriptions, watches, reconnections, crashes, restarts  *)
(* and late envelopes.                                                     *)
(*                                                                         *)
(* The argument for the session: every cursor an envelope, a buffered      *)
(* event or an answer carries is one the connector's timeline has reached, *)
(* and what it has reached it has reached for good (Past).  A replica that *)
(* is exact therefore stays exact: an envelope is applied only where it    *)
(* goes on by one, and everything else calls for a reconciliation          *)
(* (ApplyExact).                                                           *)
(*                                                                         *)
(* The argument for the status: of two reports of one workspace the one    *)
(* with the higher revision is not the older one, wherever the two are:    *)
(* with the host, on their way, late, in an answer or shown (Ages).        *)
(***************************************************************************)
EXTENDS LiveViews, Induction, FiniteSetTheorems, SequenceTheorems

-----------------------------------------------------------------------------
(* The inductive invariant.                                                *)

Cursors == [epoch : Nat, seq : Nat]

\* The cursors a timeline has reached when it is at t.
Past(t) == {c \in Cursors : \/ c.epoch < t.epoch
                            \/ c.epoch = t.epoch /\ c.seq <= t.seq}

Logs == Seq(Nat \X Nat)

\* The replicas that are the timeline's own at some moment up to t.
Exact(t) == {r \in [cursor : Past(t), log : Logs] : r = Snapshot(r.cursor)}

\* Answers to an opening and to a subscription, and what a page is fed.
SyncSet(t) == [reset : {TRUE}, cursor : Past(t), events : {<<>>}]
              \cup [reset : {FALSE}, cursor : Past(t), events : Seq(Past(t))]

Items(t) == [closed : {TRUE}] \cup SyncSet(t) \cup Past(t)

SubRecords(t) == [phase : {"init", "on", "again"}, after : Cursors,
                  buffer : Seq(Past(t)), asked : Nat]

Modes == {"away", "reconcile", "fetch", "connect", "on"}

Pages(t) == [mode : Modes, replica : Exact(t), sub : Subs \cup {0},
             feed : Seq(Items(t)), base : Exact(t), query : BOOLEAN,
             before : Exact(t)]

Hints(t) == [for : Subs, at : Past(t)]

Active == {s \in Subs : subs[s] # NoSub}

Subscribed(t) == subs \in [Subs -> SubRecords(t) \cup {NoSub}] /\ IsFiniteSet(Active)

StreamTypes ==
    /\ timeline \in Cursors /\ timeline.epoch > 0
    /\ csubs \subseteq Subs /\ IsFiniteSet(csubs)
    /\ hints \in Seq(Hints(timeline)) /\ late \subseteq Hints(timeline)
    /\ Subscribed(timeline) /\ page \in Pages(timeline)

\* Requests of sessions and of watches.
SessionCommands ==
    [type : {"open"}, for : {"page", "query"}, after : Cursors, epoch : Nat]
    \cup [type : {"subscribe", "unsubscribe"}, for : Subs, after : Cursors,
          epoch : Nat]

GitCommands == [type : {"watch", "unwatch"}, for : Nat, after : {""}, epoch : Nat]

Requests == SessionCommands \cup GitCommands

\* A status with the revision and the numbering it has.
Stamps == [status : Int, revision : Nat, count : Nat]

Answers(t) == [to : SessionCommands, ok : BOOLEAN, data : SyncSet(t)]
              \cup [to : GitCommands, ok : BOOLEAN, data : Stamps]

Links == [up : BOOLEAN, channel : Nat, drawn : Nat, grace : BOOLEAN]

Wired == Requests \cup [type : {"sync"}, epoch : Nat]

ChannelTypes(answers) ==
    /\ link \in Links
    /\ wire \in Seq(Wired)
    /\ lanes \in [Lanes -> Seq(Requests)]
    /\ running \subseteq Requests
    /\ journal \in Seq(answers)
    /\ pending \subseteq Requests

Reported == [for : Nat, status : Int, revision : Nat, count : Nat]

Works == [open : BOOLEAN, process : BOOLEAN, status : Int, revision : Nat,
          reported : Int, listeners : SUBSET Nat, count : Nat]

WatchRecords == [id : Nat, listened : BOOLEAN, leaving : BOOLEAN, live : BOOLEAN,
                 status : Int, revision : Int, asked : Nat, count : Nat]

GitTypes ==
    /\ repo \in Nat
    /\ work \in Works
    /\ statuses \subseteq Reported /\ latest \subseteq Reported
    /\ watch \in WatchRecords

Sound == StreamTypes /\ ChannelTypes(Answers(timeline))

\* Where reports of a workspace are found: with the connector, in answers on
\* their way, and where they are shown.
Inspected == {journal[i].data : i \in {j \in DOMAIN journal :
                                           journal[j].to.type \in {"watch", "unwatch"}}}
Held  == IF work.status = Unknown THEN {} ELSE {work}
Found == statuses \cup latest \cup Inspected \cup Held \cup {watch}

\* The higher revision of a workspace is not the older one.
InOrder(x, y) == x.count = y.count /\ 0 < x.revision /\ x.revision <= y.revision
                 => x.status <= y.status

NotAhead(x, w, r) == 0 < x.revision => \/ x.count < w.count
                                       \/ /\ x.count = w.count
                                          /\ x.revision <= w.revision
                                          /\ x.status <= r

Ages(found, w, r) == /\ \A x \in found : NotAhead(x, w, r)
                     /\ \A x, y \in found : InOrder(x, y)

GitInv == Ages(Found, work, repo)
-----------------------------------------------------------------------------
(* Cursors and replicas.                                                   *)

\* The timeline's own cursor is reached, and so is its first epoch's start.
LEMMA PastOwn ==
    ASSUME NEW t \in Cursors, t.epoch > 0
    PROVE  t \in Past(t) /\ NoCursor \in Past(t) /\ Past(t) \subseteq Cursors
<1>1. t.epoch \in Nat /\ t.seq \in Nat
  BY DEF Cursors
<1>2. NoCursor \in Cursors /\ NoCursor.epoch = 0
  BY DEF NoCursor, Cursor, Cursors
<1> QED
  BY <1>1, <1>2 DEF Past

\* A timeline that goes on forgets nothing it has reached.
LEMMA PastGrows ==
    ASSUME NEW t \in Cursors, NEW u \in Cursors, t \in Past(u)
    PROVE  Past(t) \subseteq Past(u)
<1>1. /\ t.epoch \in Nat /\ t.seq \in Nat /\ u.epoch \in Nat /\ u.seq \in Nat
      /\ t.epoch < u.epoch \/ (t.epoch = u.epoch /\ t.seq <= u.seq)
  BY DEF Cursors, Past
<1>2. ASSUME NEW c \in Past(t) PROVE c \in Past(u)
  <2>1. /\ c \in Cursors /\ c.epoch \in Nat /\ c.seq \in Nat
        /\ c.epoch < t.epoch \/ (c.epoch = t.epoch /\ c.seq <= t.seq)
    BY DEF Cursors, Past
  <2>2. c.epoch < u.epoch \/ (c.epoch = u.epoch /\ c.seq <= u.seq)
    BY <1>1, <2>1
  <2> QED
    BY <2>1, <2>2 DEF Past
<1> QED
  BY <1>2

\* The snapshot at a cursor that has been reached.
LEMMA SnapshotExact ==
    ASSUME NEW t \in Cursors, NEW c \in Past(t)
    PROVE  /\ Snapshot(c) \in Exact(t) /\ Snapshot(c).cursor = c
           /\ Len(Snapshot(c).log) = c.seq
           /\ \A n \in 1 .. c.seq : Snapshot(c).log[n] = <<c.epoch, n>>
<1>1. c.epoch \in Nat /\ c.seq \in Nat
  BY DEF Past, Cursors
<1> DEFINE l == [n \in 1 .. c.seq |-> <<c.epoch, n>>]
<1>2. l \in Logs /\ Len(l) = c.seq
  BY <1>1 DEF Logs
<1>3. Snapshot(c) = [cursor |-> c, log |-> l]
  BY DEF Snapshot, Replica
<1>4. Snapshot(c).cursor = c /\ Snapshot(c).log = l
  BY <1>3
<1>5. Snapshot(c) \in [cursor : Past(t), log : Logs]
  BY <1>2, <1>3
<1> QED
  BY <1>2, <1>4, <1>5 DEF Exact

\* Having nothing is exact.
LEMMA NothingExact ==
    ASSUME NEW t \in Cursors, t.epoch > 0
    PROVE  NoReplica \in Exact(t)
<1>1. NoCursor.seq = 0 /\ NoCursor.epoch = 0 /\ NoCursor \in Past(t)
  BY PastOwn DEF NoCursor, Cursor
<1>2. Snapshot(NoCursor) \in Exact(t)
  BY <1>1, SnapshotExact
<1>3. [n \in 1 .. 0 |-> <<NoCursor.epoch, n>>] = <<>>
  OBVIOUS
<1>4. Snapshot(NoCursor) = NoReplica
  BY <1>1, <1>3 DEF Snapshot, NoReplica, Replica
<1> QED
  BY <1>2, <1>4

\* A sequence that goes on by one element.
LEMMA Appended ==
    ASSUME NEW S, NEW l \in Seq(S), NEW m \in Seq(S), NEW e \in S,
           Len(m) = Len(l) + 1, m[Len(m)] = e, \A i \in 1 .. Len(l) : l[i] = m[i]
    PROVE  Append(l, e) = m
<1>1. PICK a \in Seq(S) : a = Append(l, e)
  OBVIOUS
<1>2. /\ Len(a) = Len(l) + 1 /\ a[Len(l) + 1] = e
      /\ \A i \in 1 .. Len(l) : a[i] = l[i]
  BY <1>1
<1>3. Len(l) \in Nat /\ \A i \in 1 .. Len(l) + 1 : i = Len(l) + 1 \/ i \in 1 .. Len(l)
  OBVIOUS
<1>4. \A i \in 1 .. Len(a) : a[i] = m[i]
  BY <1>2, <1>3
<1> QED
  BY <1>1, <1>2, <1>4, SeqEqual

\* applyEnvelopeToReplica() keeps a replica exact or asks for another.
LEMMA ApplyExact ==
    ASSUME NEW t \in Cursors, NEW r \in Exact(t) \cup {Reconcile}, NEW c \in Past(t)
    PROVE  Apply(r, c) \in Exact(t) \cup {Reconcile}
<1>1. CASE r = Reconcile \/ c.epoch # r.cursor.epoch
  BY <1>1 DEF Apply
<1>2. CASE r # Reconcile /\ c.epoch = r.cursor.epoch
  <2>1. r \in Exact(t)
    BY <1>2
  <2>2. r.cursor \in Past(t) /\ r = Snapshot(r.cursor)
    BY <2>1 DEF Exact
  <2>3. c.epoch \in Nat /\ c.seq \in Nat /\ r.cursor.seq \in Nat
    BY <2>2 DEF Past, Cursors
  <2>4. CASE c.seq = r.cursor.seq + 1
    <3>1. /\ Len(r.log) = r.cursor.seq /\ r.log \in Logs
          /\ \A n \in 1 .. r.cursor.seq : r.log[n] = <<c.epoch, n>>
      BY <1>2, <2>1, <2>2, SnapshotExact DEF Exact
    <3>2. /\ Snapshot(c) = Replica(c, Snapshot(c).log) /\ Len(Snapshot(c).log) = c.seq
          /\ \A n \in 1 .. c.seq : Snapshot(c).log[n] = <<c.epoch, n>>
          /\ Snapshot(c).log \in Logs
      BY SnapshotExact DEF Snapshot, Replica, Exact
    <3>3. PICK l \in Logs, m \in Logs : l = r.log /\ m = Snapshot(c).log
      BY <3>1, <3>2
    <3>4. Event(c) = <<c.epoch, c.seq>> /\ Event(c) \in Nat \X Nat
      BY <2>3 DEF Event
    <3>5. PICK e \in Nat \X Nat : e = Event(c)
      BY <3>4
    <3>6. Len(m) = Len(l) + 1 /\ Len(m) = c.seq
      BY <2>3, <2>4, <3>1, <3>2, <3>3
    <3>7. m[Len(m)] = e /\ \A i \in 1 .. Len(l) : l[i] = m[i]
      <4>1. \A i \in 1 .. Len(l) : i \in 1 .. c.seq /\ i \in 1 .. r.cursor.seq
        BY <2>3, <2>4, <3>1, <3>3
      <4>2. \A i \in 1 .. Len(l) : l[i] = m[i]
        BY <3>1, <3>2, <3>3, <4>1
      <4>3. c.seq \in 1 .. c.seq
        BY <2>3, <2>4
      <4>4. m[c.seq] = <<c.epoch, c.seq>>
        BY <3>2, <3>3, <4>3
      <4> QED
        BY <3>4, <3>5, <3>6, <4>2, <4>4
    <3>8. Append(l, e) = m
      <4>1. PICK S : S = Nat \X Nat
        OBVIOUS
      <4>2. l \in Seq(S) /\ m \in Seq(S) /\ e \in S
        BY <4>1 DEF Logs
      <4> QED
        BY <3>6, <3>7, <4>2, Appended
    <3>9. Apply(r, c) = Snapshot(c)
      BY <1>2, <2>3, <2>4, <3>2, <3>3, <3>5, <3>8 DEF Apply
    <3> QED
      BY <3>9, SnapshotExact
  <2>5. CASE c.seq # r.cursor.seq + 1
    BY <1>2, <2>1, <2>5 DEF Apply
  <2> QED
    BY <2>4, <2>5
<1> QED
  BY <1>1, <1>2
\* Applying one envelope after the other.
Applies(g, r, es) ==
    g = [n \in 0 .. Len(es) |-> IF n = 0 THEN r ELSE Apply(g[n - 1], es[n])]

\* The fold in applySyncToReplica() exists and stays exact.
LEMMA ApplyAllExact ==
    ASSUME NEW t \in Cursors, NEW r \in Exact(t), NEW es \in Seq(Past(t))
    PROVE  LET K == CHOOSE g : Applies(g, r, es)
           IN  K[Len(es)] \in Exact(t) \cup {Reconcile}
<1> DEFINE S == Exact(t) \cup {Reconcile}
           K == CHOOSE g : Applies(g, r, es)
           step == [n \in 1 .. Len(es) |-> [x \in S |-> Apply(x, es[n])]]
<1>1. Len(es) \in Nat /\ \A i \in 1 .. Len(es) : es[i] \in Past(t)
  BY LenProperties, ElementOfSeq
<1>2. \A n \in 1 .. Len(es), x \in S : Apply(x, es[n]) \in S
  BY <1>1, ApplyExact
<1>3. step \in [1 .. Len(es) -> [S -> S]] /\ r \in S
  BY <1>2
<1>4. PICK f \in [0 .. Len(es) -> S] :
          f[0] = r /\ \A k \in 1 .. Len(es) : f[k] = step[k][f[k - 1]]
  <2> HIDE DEF S, step
  <2>1. PICK N \in Nat, base \in S : N = Len(es) /\ base = r
    BY <1>1, <1>3
  <2>2. Steps(step, N, S)
    BY <1>3, <2>1 DEF Steps
  <2>3. PICK f \in [0 .. N -> S] : Runs(f, N, base, step)
    BY <2>2, Recursion
  <2> QED
    BY <2>1, <2>3 DEF Runs
<1>5. Applies(f, r, es)
  <2> DEFINE g == [n \in 0 .. Len(es) |-> IF n = 0 THEN r ELSE Apply(f[n - 1], es[n])]
  <2>1. ASSUME NEW n \in 0 .. Len(es) PROVE f[n] = g[n]
    <3>1. CASE n = 0
      BY <1>4, <3>1
    <3>2. CASE n # 0
      <4>1. n \in 1 .. Len(es) /\ n - 1 \in 0 .. Len(es)
        BY <1>1, <3>2
      <4>2. f[n] = step[n][f[n - 1]] /\ f[n - 1] \in S
        BY <1>4, <4>1
      <4> QED
        BY <3>2, <4>1, <4>2
    <3> QED
      BY <3>1, <3>2
  <2>2. DOMAIN f = 0 .. Len(es) /\ DOMAIN g = 0 .. Len(es)
    OBVIOUS
  <2> HIDE DEF S, step
  <2> QED
    BY <2>1, <2>2 DEF Applies
<1>6. Applies(K, r, es)
  BY <1>5
<1>7. PICK k : k = K /\ Applies(k, r, es)
  BY <1>6
<1> DEFINE G == {n \in 0 .. Len(es) : k[n] \in S}
<1>8. 0 \in G
  BY <1>1, <1>3, <1>6, <1>7 DEF Applies
<1>9. ASSUME NEW n \in 0 .. Len(es) - 1, n \in G PROVE n + 1 \in G
  <2>1. n + 1 \in 1 .. Len(es) /\ n + 1 \in 0 .. Len(es) /\ n + 1 # 0 /\ n + 1 - 1 = n
    BY <1>1
  <2>2. k[n + 1] = Apply(k[n], es[n + 1])
    <3> HIDE DEF K, G, S, step
    <3>1. PICK m : m = n + 1 /\ m \in 0 .. Len(es) /\ m # 0 /\ m - 1 = n
      BY <2>1
    <3>2. k[m] = Apply(k[m - 1], es[m])
      BY <1>7, <3>1 DEF Applies
    <3> QED
      BY <3>1, <3>2
  <2> QED
    BY <1>2, <1>9, <2>1, <2>2
<1>10. Len(es) \in G
  <2> HIDE DEF G
  <2>1. 0 .. Len(es) \subseteq G
    BY <1>1, <1>8, <1>9, Induct
  <2> QED
    BY <1>1, <2>1
<1> QED
  BY <1>7, <1>10

\* applySyncToReplica() keeps a replica exact or asks for another.
LEMMA ApplySyncExact ==
    ASSUME NEW t \in Cursors, NEW r \in Exact(t), NEW sync \in SyncSet(t)
    PROVE  ApplySync(r, sync) \in Exact(t) \cup {Reconcile}
<1>1. CASE sync.reset
  <2>1. sync.cursor \in Past(t)
    BY DEF SyncSet
  <2> QED
    BY <1>1, <2>1, SnapshotExact DEF ApplySync
<1>2. CASE ~sync.reset
  <2>1. PICK es \in Seq(Past(t)) : es = sync.events
    BY <1>2 DEF SyncSet
  <2> DEFINE K == CHOOSE g : Applies(g, r, es)
  <2>2. K[Len(es)] \in Exact(t) \cup {Reconcile}
    BY ApplyAllExact
  <2>3. ApplySync(r, sync) \in {Reconcile, K[Len(es)]}
    BY <1>2, <2>1 DEF ApplySync, Applies
  <2> QED
    BY <2>2, <2>3
<1>3. sync.reset \in BOOLEAN
  BY DEF SyncSet
<1> QED
  BY <1>1, <1>2, <1>3

\* resolveAgentSessionFetchRace() keeps one of three exact replicas.
LEMMA ResolveExact ==
    ASSUME NEW S, NEW a \in S, NEW b \in S, NEW c \in S
    PROVE  Resolve(a, b, c) \in S
  BY DEF Resolve

\* What the connector answers with is what its timeline has reached.
LEMMA SyncsReached ==
    ASSUME NEW after \in Cursors, timeline \in Cursors, timeline.epoch > 0
    PROVE  Syncs(after) \subseteq SyncSet(timeline)
<1>1. timeline \in Past(timeline)
  BY PastOwn
<1>2. [reset |-> TRUE, cursor |-> timeline, events |-> <<>>] \in SyncSet(timeline)
  BY <1>1 DEF SyncSet
<1>3. ASSUME after.epoch = timeline.epoch, after.seq <= timeline.seq
      PROVE  [reset |-> FALSE, cursor |-> timeline,
              events |-> Events(timeline.epoch, after.seq + 1, timeline.seq)]
                 \in SyncSet(timeline)
  <2>1. PICK a \in Nat, b \in Nat, e \in Nat :
            a = after.seq /\ b = timeline.seq /\ e = timeline.epoch
    BY DEF Cursors
  <2> DEFINE l == [n \in 1 .. b - (a + 1) + 1 |-> Cursor(e, a + 1 + n - 1)]
  <2>2. \A n \in 1 .. b - (a + 1) + 1 : Cursor(e, a + 1 + n - 1) \in Past(timeline)
    <3> SUFFICES ASSUME NEW n \in 1 .. b - (a + 1) + 1
                 PROVE  Cursor(e, a + 1 + n - 1) \in Past(timeline)
      OBVIOUS
    <3>1. PICK m \in Nat : m = a + 1 + n - 1 /\ m <= b
      OBVIOUS
    <3>2. PICK c : c = Cursor(e, m)
      OBVIOUS
    <3>3. c \in Cursors
      BY <3>2 DEF Cursor, Cursors
    <3>4. c.epoch = e /\ c.seq = m
      BY <3>2 DEF Cursor
    <3> QED
      BY <2>1, <3>1, <3>2, <3>3, <3>4 DEF Past
  <2>3. PICK m \in Nat : m = b - (a + 1) + 1
    BY <1>3, <2>1
  <2>4. l \in Seq(Past(timeline))
    BY <2>2, <2>3
  <2>5. Events(timeline.epoch, after.seq + 1, timeline.seq) = l
    BY <2>1 DEF Events
  <2> QED
    BY <1>1, <2>4, <2>5 DEF SyncSet
<1>4. after.seq \in Nat /\ timeline.seq \in Nat
  BY DEF Cursors
<1>5. CASE after.epoch # timeline.epoch \/ after.seq > timeline.seq
  <2>1. Syncs(after) = {[reset |-> TRUE, cursor |-> timeline, events |-> <<>>]}
    BY <1>5 DEF Syncs
  <2> QED
    BY <1>2, <2>1
<1>6. CASE ~(after.epoch # timeline.epoch \/ after.seq > timeline.seq)
  <2>1. Syncs(after) =
            {[reset |-> TRUE, cursor |-> timeline, events |-> <<>>],
             [reset |-> FALSE, cursor |-> timeline,
              events |-> Events(timeline.epoch, after.seq + 1, timeline.seq)]}
    BY <1>6 DEF Syncs
  <2> QED
    BY <1>2, <1>3, <1>4, <1>6, <2>1
<1> QED
  BY <1>5, <1>6
-----------------------------------------------------------------------------
(* Envelopes for a subscription.                                           *)

Deliveries(t) == [sub : SubRecords(t), feed : Seq(Past(t))]

\* What deliverEnvelope() passes on, and the cursor it keeps.
LEMMA DeliverTypes ==
    ASSUME NEW t \in Cursors, NEW s \in Deliveries(t), NEW c \in Past(t)
    PROVE  Deliver(s, c) \in Deliveries(t)
<1>1. s.sub \in SubRecords(t) /\ s.feed \in Seq(Past(t)) /\ c \in Cursors
  BY DEF Deliveries, Past
<1>2. Append(s.feed, c) \in Seq(Past(t))
  BY <1>1
<1>3. [s.sub EXCEPT !.after = c] \in SubRecords(t)
  BY <1>1 DEF SubRecords
<1>4. \A x \in SubRecords(t), l \in Seq(Past(t)) : [sub |-> x, feed |-> l] \in Deliveries(t)
  BY DEF Deliveries
<1> QED
  BY <1>1, <1>2, <1>3, <1>4 DEF Deliver

\* Delivering one envelope after the other.
Delivers(g, sub, cs) ==
    g = [n \in 0 .. Len(cs) |->
            IF n = 0 THEN [sub |-> sub, feed |-> <<>>] ELSE Deliver(g[n - 1], cs[n])]

\* Several envelopes.
LEMMA DeliverAllTypes ==
    ASSUME NEW t \in Cursors, NEW sub \in SubRecords(t), NEW cs \in Seq(Past(t))
    PROVE  DeliverAll(sub, cs) \in Deliveries(t)
<1> DEFINE S == Deliveries(t)
           base == [sub |-> sub, feed |-> <<>>]
           K == CHOOSE g : Delivers(g, sub, cs)
           step == [n \in 1 .. Len(cs) |-> [x \in S |-> Deliver(x, cs[n])]]
<1>1. Len(cs) \in Nat /\ \A i \in 1 .. Len(cs) : cs[i] \in Past(t)
  BY LenProperties, ElementOfSeq
<1>2. \A n \in 1 .. Len(cs), x \in S : Deliver(x, cs[n]) \in S
  BY <1>1, DeliverTypes
<1>3. step \in [1 .. Len(cs) -> [S -> S]] /\ base \in S
  BY <1>2 DEF Deliveries
<1>4. PICK f \in [0 .. Len(cs) -> S] :
          f[0] = base /\ \A k \in 1 .. Len(cs) : f[k] = step[k][f[k - 1]]
  <2> HIDE DEF S, step, base
  <2>1. PICK N \in Nat, b \in S : N = Len(cs) /\ b = base
    BY <1>1, <1>3
  <2>2. Steps(step, N, S)
    BY <1>3, <2>1 DEF Steps
  <2>3. PICK f \in [0 .. N -> S] : Runs(f, N, b, step)
    BY <2>2, Recursion
  <2> QED
    BY <2>1, <2>3 DEF Runs
<1>5. Delivers(f, sub, cs)
  <2> DEFINE g == [n \in 0 .. Len(cs) |-> IF n = 0 THEN base ELSE Deliver(f[n - 1], cs[n])]
  <2>1. ASSUME NEW n \in 0 .. Len(cs) PROVE f[n] = g[n]
    <3> HIDE DEF base
    <3>1. CASE n = 0
      BY <1>4, <3>1
    <3>2. CASE n # 0
      <4>1. n \in 1 .. Len(cs) /\ n - 1 \in 0 .. Len(cs)
        BY <1>1, <3>2
      <4>2. f[n] = step[n][f[n - 1]] /\ f[n - 1] \in S
        BY <1>4, <4>1
      <4> QED
        BY <3>2, <4>1, <4>2
    <3> QED
      BY <3>1, <3>2
  <2>2. DOMAIN f = 0 .. Len(cs) /\ DOMAIN g = 0 .. Len(cs)
    OBVIOUS
  <2> HIDE DEF S, step
  <2> QED
    BY <2>1, <2>2 DEF Delivers
<1>6. Delivers(K, sub, cs)
  BY <1>5
<1>7. PICK k : k = K /\ Delivers(k, sub, cs)
  BY <1>6
<1> DEFINE G == {n \in 0 .. Len(cs) : k[n] \in S}
<1>8. 0 \in G
  <2> HIDE DEF K, step
  <2>1. k[0] = base
    BY <1>1, <1>7 DEF Delivers
  <2> QED
    BY <1>1, <1>3, <2>1
<1>9. ASSUME NEW n \in 0 .. Len(cs) - 1, n \in G PROVE n + 1 \in G
  <2>1. n + 1 \in 1 .. Len(cs) /\ n + 1 \in 0 .. Len(cs) /\ n + 1 # 0 /\ n + 1 - 1 = n
    BY <1>1
  <2>2. k[n + 1] = Deliver(k[n], cs[n + 1])
    <3> HIDE DEF K, G, S, step, base
    <3>1. PICK m : m = n + 1 /\ m \in 0 .. Len(cs) /\ m # 0 /\ m - 1 = n
      BY <2>1
    <3>2. k[m] = Deliver(k[m - 1], cs[m])
      BY <1>7, <3>1 DEF Delivers
    <3> QED
      BY <3>1, <3>2
  <2> QED
    BY <1>2, <1>9, <2>1, <2>2
<1>10. k[Len(cs)] \in S
  <2>1. 0 .. Len(cs) \subseteq G
    <3> HIDE DEF G
    <3> QED
      BY <1>1, <1>8, <1>9, Induct
  <2> QED
    BY <1>1, <2>1
<1>11. DeliverAll(sub, cs) = K[Len(cs)]
  BY DEF DeliverAll, Delivers
<1> QED
  BY <1>7, <1>10, <1>11

\* The elements of a finite set in some order.
LEMMA Enumerated ==
    ASSUME NEW S, IsFiniteSet(S)
    PROVE  /\ Cardinality(S) \in Nat
           /\ \A n \in 1 .. Cardinality(S) : SetToSeq(S)[n] \in S
<1>1. Cardinality(S) \in Nat /\ ExistsBijection(1 .. Cardinality(S), S)
  BY FS_CardinalityType
<1>2. \E f \in [1 .. Cardinality(S) -> S] : IsInjective(f)
  BY <1>1 DEF ExistsBijection, Bijection, Injection
<1>3. SetToSeq(S) \in [1 .. Cardinality(S) -> S]
  BY <1>2 DEF SetToSeq
<1> QED
  BY <1>1, <1>3
-----------------------------------------------------------------------------
(* The channel.                                                            *)

\* Every request has its lane.
LEMMA LaneTypes ==
    /\ \A c \in Requests : Lane(c) \in Lanes
    /\ \A c \in SessionCommands : Lane(c) = "session"
    /\ \A c \in GitCommands : Lane(c) # "session"
    /\ \A c \in Wired : c.type # "sync" => c \in Requests
<1>1. \A c \in SessionCommands : c.type \in {"open", "subscribe", "unsubscribe"}
  BY DEF SessionCommands
<1>2. \A c \in GitCommands : c.type \in {"watch", "unwatch"}
  BY DEF GitCommands
<1>3. \A c \in SessionCommands : Lane(c) = "session"
  BY <1>1 DEF Lane
<1>4. \A c \in GitCommands : Lane(c) \in {"git", "workspace"}
  BY <1>2 DEF Lane
<1>5. \A c \in Wired : c.type # "sync" => c \in Requests
  BY DEF Wired
<1> QED
  BY <1>3, <1>4, <1>5 DEF Lanes, Requests

\* What is sent is sent after what has been.
LEMMA SentTypes ==
    ASSUME NEW cs \in Seq(Requests), wire \in Seq(Wired)
    PROVE  Sent(cs) \in Seq(Wired)
<1>1. Requests \subseteq Wired
  BY DEF Wired
<1>2. cs \in Seq(Wired)
  BY <1>1, SeqMonotonic
<1>3. wire \o cs \in Seq(Wired)
  BY <1>2, ConcatProperties
<1> QED
  BY <1>3 DEF Sent

\* Asking and telling.
LEMMA AskTypes ==
    ASSUME NEW A, ChannelTypes(A), NEW c \in Requests, Ask(c) \/ Tell(c)
    PROVE  ChannelTypes(A)' /\ UNCHANGED <<journal, link>>
<1>1. <<c>> \in Seq(Requests)
  OBVIOUS
<1>2. Sent(<<c>>) \in Seq(Wired)
  BY <1>1, SentTypes DEF ChannelTypes
<1> QED
  BY <1>2 DEF ChannelTypes, Ask, Tell

\* A sequence without its first element.
LEMMA Rest1 ==
    ASSUME NEW S, NEW s \in Seq(S), s # <<>>
    PROVE  Head(s) \in S /\ Tail(s) \in Seq(S)
  BY HeadTailProperties

\* Reading the command stream.
LEMMA ReadTypes ==
    ASSUME NEW A, ChannelTypes(A), Read \/ ReadSync
    PROVE  ChannelTypes(A)' /\ UNCHANGED <<journal, link>>
<1>1. wire # <<>> /\ Head(wire) \in Wired /\ Tail(wire) \in Seq(Wired)
  BY Rest1 DEF ChannelTypes, Read, ReadSync
<1>2. CASE Read
  <2>1. PICK c \in Requests : c = Head(wire)
    BY <1>1, <1>2, LaneTypes DEF Read
  <2>2. PICK l \in Lanes : l = Lane(c)
    BY <2>1, LaneTypes
  <2>3. lanes[l] \in Seq(Requests)
    BY <2>2 DEF ChannelTypes
  <2>4. Append(lanes[l], c) \in Seq(Requests)
    BY <2>3
  <2>5. lanes' = [lanes EXCEPT ![l] = Append(lanes[l], c)]
    BY <1>2, <2>1, <2>2 DEF Read
  <2>6. lanes' \in [Lanes -> Seq(Requests)]
    BY <2>4, <2>5 DEF ChannelTypes
  <2> QED
    BY <1>1, <1>2, <2>6 DEF ChannelTypes, Read
<1>3. CASE ReadSync
  BY <1>1, <1>3 DEF ChannelTypes, ReadSync
<1> QED
  BY <1>2, <1>3

\* Starting what a lane holds.
LEMMA StartTypes ==
    ASSUME NEW A, ChannelTypes(A), NEW l \in Lanes, lanes[l] # <<>>, NEW awaits,
           Start(Head(lanes[l]), awaits)
    PROVE  /\ ChannelTypes(A)' /\ UNCHANGED <<journal, link>>
           /\ Head(lanes[l]) \in Requests
<1>1. lanes[l] \in Seq(Requests)
  BY DEF ChannelTypes
<1>2. PICK c \in Requests : c = Head(lanes[l])
  BY <1>1, Rest1
<1>3. PICK k \in Lanes : k = Lane(c)
  BY LaneTypes
<1>4. lanes[k] # <<>> /\ lanes' = [lanes EXCEPT ![k] = Tail(lanes[k])]
  BY <1>2, <1>3 DEF Start
<1>5. lanes[k] \in Seq(Requests)
  BY DEF ChannelTypes
<1>6. Tail(lanes[k]) \in Seq(Requests)
  BY <1>4, <1>5, Rest1
<1>7. lanes' \in [Lanes -> Seq(Requests)]
  BY <1>4, <1>6 DEF ChannelTypes
<1>8. running' \subseteq Requests
  BY <1>2 DEF Start, ChannelTypes
<1> QED
  BY <1>2, <1>7, <1>8 DEF ChannelTypes, Start

\* Answering.
LEMMA AnswerTypes ==
    ASSUME NEW A, ChannelTypes(A), NEW c, NEW ok, NEW data, Answer(c, ok, data),
           [to |-> c, ok |-> ok, data |-> data] \in A
    PROVE  ChannelTypes(A)' /\ UNCHANGED link
<1>1. PICK a \in A : a = [to |-> c, ok |-> ok, data |-> data]
  OBVIOUS
<1>2. Append(journal, a) \in Seq(A)
  BY DEF ChannelTypes
<1> QED
  BY <1>1, <1>2 DEF ChannelTypes, Answer

\* Accepting an answer.
LEMMA AcceptTypes ==
    ASSUME NEW A, ChannelTypes(A), NEW told \in Seq(Requests), Accept(told)
    PROVE  /\ ChannelTypes(A)' /\ UNCHANGED link
           /\ journal # <<>> /\ Head(journal) \in A
<1>1. journal # <<>> /\ Head(journal) \in A /\ Tail(journal) \in Seq(A)
  BY Rest1 DEF Accept, ChannelTypes
<1>2. Sent(told) \in Seq(Wired)
  BY SentTypes DEF ChannelTypes
<1> QED
  BY <1>1, <1>2 DEF ChannelTypes, Accept

\* The beginning of a sequence.
LEMMA Beginnings ==
    ASSUME NEW S, NEW s \in Seq(S), NEW n \in 0 .. Len(s)
    PROVE  SubSeq(s, 1, n) \in Seq(S)
<1>1. \A i \in 1 .. n : s[i] \in S
  BY LenProperties, ElementOfSeq
<1> QED
  BY <1>1, SubSeqProperties

\* The connection's end, of which the server may learn later.
LEMMA ConnectionEnds ==
    ASSUME NEW A, ChannelTypes(A), Lose \/ Unregister \/ GraceOver \/ Die \/ Replaced
    PROVE  ChannelTypes(A)' /\ UNCHANGED journal
<1>1. ASSUME NEW n \in 0 .. Len(wire) PROVE SubSeq(wire, 1, n) \in Seq(Wired)
  BY Beginnings DEF ChannelTypes
<1>2. <<>> \in Seq(Wired) /\ [l \in Lanes |-> <<>>] \in [Lanes -> Seq(Requests)]
  OBVIOUS
<1>3. CASE Lose
  BY <1>1, <1>3 DEF ChannelTypes, Lose, Links
<1>4. CASE Unregister
  BY <1>4 DEF ChannelTypes, Unregister, Links
<1>5. CASE GraceOver
  BY <1>5 DEF ChannelTypes, GraceOver, Links
<1>6. CASE Die
  BY <1>2, <1>6 DEF ChannelTypes, Die, Links
<1>7. CASE Replaced
  BY <1>1, <1>7 DEF ChannelTypes, Replaced, Links
<1> QED
  BY <1>3, <1>4, <1>5, <1>6, <1>7

\* Its return.
LEMMA RegisterTypes ==
    ASSUME NEW A, ChannelTypes(A), NEW asked \in Seq(Requests),
           NEW told \in Seq(Requests), Register(asked, told)
    PROVE  ChannelTypes(A)' /\ UNCHANGED journal
<1>1. PICK e \in Nat : e = link.drawn + 1
  BY DEF ChannelTypes, Links
<1>2. Requests \subseteq Wired /\ Sync(e) \in Wired
  BY DEF Wired, Sync
<1>3. <<Sync(e)>> \in Seq(Wired)
  BY <1>2
<1>4. PICK s \in Seq(Wired), x \in Seq(Wired), y \in Seq(Wired) :
          s = <<Sync(e)>> /\ x = asked /\ y = told
  BY <1>2, <1>3, SeqMonotonic
<1>5. s \o x \in Seq(Wired)
  BY ConcatProperties
<1>6. (s \o x) \o y \in Seq(Wired)
  BY <1>5, ConcatProperties
<1>7. ToSet(asked) \subseteq Requests
  BY ElementOfSeq, LenProperties DEF ToSet
<1> QED
  BY <1>1, <1>4, <1>6, <1>7 DEF ChannelTypes, Register, Links
-----------------------------------------------------------------------------
(* What a timeline that goes on leaves as good as it was.                  *)

\* Records whose field gets more room.
LEMMA Grows ==
    ASSUME NEW t \in Cursors, NEW u \in Cursors, t \in Past(u)
    PROVE  /\ Exact(t) \subseteq Exact(u) /\ SyncSet(t) \subseteq SyncSet(u)
           /\ Items(t) \subseteq Items(u) /\ SubRecords(t) \subseteq SubRecords(u)
           /\ Hints(t) \subseteq Hints(u) /\ Answers(t) \subseteq Answers(u)
           /\ Pages(t) \subseteq Pages(u)
<1>1. PICK P, Q : P = Past(t) /\ Q = Past(u) /\ P \subseteq Q
  BY PastGrows
<1>2. Seq(P) \subseteq Seq(Q)
  BY <1>1, SeqMonotonic
<1>3. Exact(t) \subseteq Exact(u)
  BY <1>1 DEF Exact
<1>4. SyncSet(t) \subseteq SyncSet(u)
  BY <1>1, <1>2 DEF SyncSet
<1>5. Items(t) \subseteq Items(u)
  BY <1>1, <1>4 DEF Items
<1>6. SubRecords(t) \subseteq SubRecords(u)
  BY <1>1, <1>2 DEF SubRecords
<1>7. Hints(t) \subseteq Hints(u)
  BY <1>1 DEF Hints
<1>8. Answers(t) \subseteq Answers(u)
  BY <1>4 DEF Answers
<1>9. Seq(Items(t)) \subseteq Seq(Items(u))
  BY <1>5, SeqMonotonic
<1>10. Pages(t) \subseteq Pages(u)
  BY <1>3, <1>9 DEF Pages
<1> QED
  BY <1>3, <1>4, <1>5, <1>6, <1>7, <1>8, <1>10

\* The kinds of items a page is fed.
LEMMA ItemKinds ==
    ASSUME NEW t, NEW item \in Items(t), "closed" \notin DOMAIN item
    PROVE  /\ "reset" \in DOMAIN item => item \in SyncSet(t)
           /\ "reset" \notin DOMAIN item => item \in Past(t)
<1>1. \A x \in [closed : {TRUE}] : "closed" \in DOMAIN x
  OBVIOUS
<1>2. \A x \in SyncSet(t) : "reset" \in DOMAIN x
  BY DEF SyncSet
<1>3. \A x \in Past(t) : "reset" \notin DOMAIN x
  BY DEF Past, Cursors
<1> QED
  BY <1>1, <1>2, <1>3 DEF Items

\* Feeding a page, and closing its stream.
LEMMA FeedTypes ==
    ASSUME NEW t, page \in Pages(t), NEW s, NEW items \in Seq(Items(t))
    PROVE  Feed(s, items) \in Pages(t) /\ Closed(s) \in Pages(t)
<1>1. page.feed \in Seq(Items(t))
  BY DEF Pages
<1>2. PICK f \in Seq(Items(t)) : f = page.feed \o items
  BY <1>1, ConcatProperties
<1>3. [closed |-> TRUE] \in Items(t)
  BY DEF Items
<1>4. PICK g \in Seq(Items(t)) : g = Append(page.feed, [closed |-> TRUE])
  BY <1>1, <1>3, AppendProperties
<1>5. [page EXCEPT !.feed = f] \in Pages(t) /\ [page EXCEPT !.feed = g] \in Pages(t)
  BY DEF Pages
<1> QED
  BY <1>2, <1>4, <1>5 DEF Feed, Closed

\* A page whose requests fail.
LEMMA RefetchTypes ==
    ASSUME NEW t \in Cursors, t.epoch > 0, NEW p \in Pages(t)
    PROVE  Refetch(p) \in Pages(t)
<1>1. NoReplica \in Exact(t)
  BY NothingExact
<1>2. PICK m \in Modes : m = IF p.mode = "fetch" THEN "reconcile" ELSE p.mode
  BY DEF Pages, Modes
<1>3. [p EXCEPT !.mode = m, !.base = NoReplica, !.query = FALSE,
                !.before = NoReplica] \in Pages(t)
  BY <1>1 DEF Pages
<1> QED
  BY <1>2, <1>3 DEF Refetch

-----------------------------------------------------------------------------
(* The subscriptions.                                                      *)

\* One subscription changes.
LEMMA OneChanges ==
    ASSUME NEW t, Subscribed(t), NEW s \in Subs, NEW x \in SubRecords(t) \cup {NoSub},
           subs' = [subs EXCEPT ![s] = x]
    PROVE  Subscribed(t)'
<1>1. subs' \in [Subs -> SubRecords(t) \cup {NoSub}]
  BY DEF Subscribed
<1>2. Active' \subseteq Active \cup {s}
  BY DEF Active, Subscribed
<1>3. IsFiniteSet(Active \cup {s})
  BY FS_AddElement DEF Subscribed
<1>4. IsFiniteSet(Active')
  BY <1>2, <1>3, FS_Subset
<1> QED
  BY <1>1, <1>4 DEF Subscribed

\* None does, or all do; none is added.
LEMMA NoneAdded ==
    ASSUME NEW t, Subscribed(t), subs' \in [Subs -> SubRecords(t) \cup {NoSub}],
           \A s \in Subs : subs[s] = NoSub => subs'[s] = NoSub
    PROVE  Subscribed(t)'
<1>1. Active' \subseteq Active
  BY DEF Active
<1>2. IsFiniteSet(Active')
  BY <1>1, FS_Subset DEF Subscribed
<1> QED
  BY <1>2 DEF Subscribed

\* An envelope arrives at the broker.
LEMMA PushTypes ==
    ASSUME NEW t \in Cursors, NEW hint \in Hints(t), Subscribed(t), page \in Pages(t),
           Push(hint)
    PROVE  Subscribed(t)' /\ page' \in Pages(t)
<1>1. PICK s \in Subs, c \in Past(t) : s = hint.for /\ c = hint.at
  BY DEF Hints
<1>2. CASE subs[s] = NoSub
  BY <1>1, <1>2 DEF Push, Subscribed, Active
<1>3. CASE subs[s] # NoSub /\ subs[s].phase # "on"
  <2>1. PICK x \in SubRecords(t) : x = subs[s]
    BY <1>3 DEF Subscribed
  <2>2. PICK b \in Seq(Past(t)) : b = Append(x.buffer, c)
    <3>1. x.buffer \in Seq(Past(t))
      BY DEF SubRecords
    <3> QED
      BY <3>1, AppendProperties
  <2>3. [x EXCEPT !.buffer = b] \in SubRecords(t)
    BY DEF SubRecords
  <2>4. subs' = [subs EXCEPT ![s] = [x EXCEPT !.buffer = b]] /\ page' = page
    BY <1>1, <1>3, <2>1, <2>2 DEF Push, Buffered
  <2> QED
    BY <2>3, <2>4, OneChanges
<1>4. CASE subs[s] # NoSub /\ subs[s].phase = "on"
  <2>1. PICK x \in SubRecords(t) : x = subs[s]
    BY <1>4 DEF Subscribed
  <2>2. <<c>> \in Seq(Past(t))
    OBVIOUS
  <2>3. PICK d \in Deliveries(t) : d = DeliverAll(x, <<c>>)
    BY <2>2, DeliverAllTypes
  <2>4. d.sub \in SubRecords(t) /\ d.feed \in Seq(Past(t)) /\ Past(t) \subseteq Items(t)
    BY DEF Deliveries, Items
  <2>5. d.feed \in Seq(Items(t))
    BY <2>4, SeqMonotonic
  <2>6. subs' = [subs EXCEPT ![s] = d.sub] /\ page' = Feed(s, d.feed)
    BY <1>1, <1>4, <2>1, <2>3 DEF Push
  <2> QED
    BY <2>4, <2>5, <2>6, OneChanges, FeedTypes
<1> QED
  BY <1>2, <1>3, <1>4

\* A subscription has been answered.
LEMMA SettleTypes ==
    ASSUME NEW t \in Cursors, Subscribed(t), page \in Pages(t), NEW s \in Subs,
           NEW ok, NEW sync \in SyncSet(t), Settle(s, ok, sync)
    PROVE  Subscribed(t)' /\ page' \in Pages(t)
<1>1. CASE UNCHANGED <<subs, page>>
  BY <1>1 DEF Subscribed, Active
<1>2. CASE /\ subs[s] # NoSub
           /\ subs' = [subs EXCEPT ![s] = NoSub] /\ page' = Closed(s)
  <2>1. <<>> \in Seq(Items(t)) /\ NoSub \in SubRecords(t) \cup {NoSub}
    OBVIOUS
  <2> QED
    BY <1>2, <2>1, OneChanges, FeedTypes
<1> DEFINE d == DeliverAll([subs[s] EXCEPT !.after = sync.cursor, !.phase = "on",
                                           !.buffer = <<>>], subs[s].buffer)
<1>3. CASE /\ subs[s] # NoSub /\ subs' = [subs EXCEPT ![s] = d.sub]
           /\ page' = Feed(s, <<sync>> \o d.feed)
  <2>1. PICK x \in SubRecords(t) : x = subs[s]
    BY <1>3 DEF Subscribed
  <2>2. PICK b \in Seq(Past(t)), c \in Cursors : b = x.buffer /\ c = sync.cursor
    BY DEF SubRecords, SyncSet, Past
  <2>3. PICK y \in SubRecords(t) :
            y = [x EXCEPT !.after = c, !.phase = "on", !.buffer = <<>>]
    <3>1. <<>> \in Seq(Past(t))
      OBVIOUS
    <3> QED
      BY <3>1 DEF SubRecords
  <2>4. PICK e \in Deliveries(t) : e = DeliverAll(y, b)
    BY DeliverAllTypes
  <2>5. e = d
    BY <2>1, <2>2, <2>3, <2>4
  <2>6. /\ e.sub \in SubRecords(t) /\ e.feed \in Seq(Past(t))
        /\ Past(t) \subseteq Items(t) /\ sync \in Items(t)
    BY DEF Deliveries, Items
  <2>7. e.feed \in Seq(Items(t)) /\ <<sync>> \in Seq(Items(t))
    BY <2>6, SeqMonotonic
  <2>8. <<sync>> \o e.feed \in Seq(Items(t))
    BY <2>7, ConcatProperties
  <2> HIDE DEF d
  <2> QED
    BY <1>3, <2>5, <2>6, <2>8, OneChanges, FeedTypes
<1> QED
  BY <1>1, <1>2, <1>3 DEF Settle
\* A request of the page has been answered.
LEMMA OpenedTypes ==
    ASSUME NEW t \in Cursors, t.epoch > 0, page \in Pages(t), NEW command,
           NEW ok, NEW sync \in SyncSet(t), Opened(command, ok, sync)
    PROVE  subs' = subs /\ page' \in Pages(t)
<1>1. NoReplica \in Exact(t)
  BY NothingExact
<1>2. PICK r \in Exact(t), b \in Exact(t), q \in Exact(t) :
          r = page.replica /\ b = page.base /\ q = page.before
  BY DEF Pages
<1>3. CASE command.for = "query"
  <2>1. PICK f \in Exact(t) \cup {Reconcile} : f = ApplySync(q, sync)
    BY ApplySyncExact
  <2>2. PICK x \in Exact(t) :
            x = IF ok /\ f # Reconcile THEN Resolve(q, r, f) ELSE r
    BY <2>1, ResolveExact
  <2>3. page' = [page EXCEPT !.query = FALSE, !.before = NoReplica, !.replica = x]
    BY <1>2, <1>3, <2>1, <2>2 DEF Opened
  <2>4. page' \in Pages(t)
    BY <1>1, <2>3 DEF Pages
  <2> QED
    BY <2>4 DEF Opened
<1>4. CASE command.for # "query"
  <2>1. PICK f \in Exact(t) \cup {Reconcile} : f = ApplySync(b, sync)
    BY ApplySyncExact
  <2>2. PICK x \in Exact(t) : x = IF ok /\ f # Reconcile THEN f ELSE r
    BY <2>1
  <2>3. PICK m \in Modes : m = IF ok /\ f # Reconcile THEN "connect" ELSE "reconcile"
    BY DEF Modes
  <2>4. page' = [page EXCEPT !.base = NoReplica, !.mode = m, !.replica = x]
    BY <1>2, <1>4, <2>1, <2>2, <2>3 DEF Opened
  <2>5. page' \in Pages(t)
    BY <1>1, <2>4 DEF Pages
  <2> QED
    BY <2>5 DEF Opened
<1> QED
  BY <1>3, <1>4

\* Requests that are told, not asked.
LEMMA UnsubscribeTypes ==
    ASSUME NEW s \in Subs, link \in Links
    PROVE  Command("unsubscribe", s, NoCursor) \in Requests
<1>1. NoCursor \in Cursors /\ link.channel \in Nat
  BY DEF NoCursor, Cursor, Cursors, Links
<1> QED
  BY <1>1 DEF Command, Requests, SessionCommands

\* What is set up anew, and what is given up, when the connector is back.
LEMMA ResubscriptionTypes ==
    ASSUME NEW t, Subscribed(t), NEW epoch \in Nat
    PROVE  /\ Resubscriptions(epoch) \in Seq(Requests)
           /\ Unwanted(epoch) \in Seq(Requests)
<1>1. Settled \subseteq Active /\ Setting \subseteq Active
  BY DEF Settled, Setting, Active
<1>2. IsFiniteSet(Settled) /\ IsFiniteSet(Setting)
  BY <1>1, FS_Subset DEF Subscribed
<1>3. Resubscriptions(epoch) \in Seq(Requests)
  <2>1. PICK N \in Nat : N = Cardinality(Settled)
    BY <1>2, Enumerated
  <2>2. \A n \in 1 .. N : SetToSeq(Settled)[n] \in Settled
    BY <1>2, <2>1, Enumerated
  <2>3. \A s \in Settled : s \in Subs /\ subs[s].after \in Cursors
    BY DEF Settled, Subscribed, SubRecords
  <2> DEFINE e(n) == [type |-> "subscribe", for |-> SetToSeq(Settled)[n],
                      after |-> subs[SetToSeq(Settled)[n]].after, epoch |-> epoch]
  <2>4. \A s \in Settled : [type |-> "subscribe", for |-> s, after |-> subs[s].after,
                            epoch |-> epoch] \in Requests
    BY <2>3 DEF Requests, SessionCommands
  <2>5. \A n \in 1 .. N : e(n) \in Requests
    BY <2>2, <2>4
  <2>6. Resubscriptions(epoch) = [n \in 1 .. N |-> e(n)]
    BY <2>1 DEF Resubscriptions
  <2> HIDE DEF e
  <2> QED
    BY <2>5, <2>6
<1>4. Unwanted(epoch) \in Seq(Requests)
  <2>1. PICK N \in Nat : N = Cardinality(Setting)
    BY <1>2, Enumerated
  <2>2. \A n \in 1 .. N : SetToSeq(Setting)[n] \in Setting
    BY <1>2, <2>1, Enumerated
  <2>3. NoCursor \in Cursors
    BY DEF NoCursor, Cursor, Cursors
  <2> DEFINE e(n) == [type |-> "unsubscribe", for |-> SetToSeq(Setting)[n],
                      after |-> NoCursor, epoch |-> epoch]
  <2>4. \A s \in Setting : [type |-> "unsubscribe", for |-> s, after |-> NoCursor,
                            epoch |-> epoch] \in Requests
    BY <2>3 DEF Requests, SessionCommands, Setting
  <2>5. \A n \in 1 .. N : e(n) \in Requests
    BY <2>2, <2>4
  <2>6. Unwanted(epoch) = [n \in 1 .. N |-> e(n)]
    BY <2>1 DEF Unwanted
  <2> HIDE DEF e
  <2> QED
    BY <2>5, <2>6
<1> QED
  BY <1>3, <1>4

\* The connector is back, has been away for too long, or has a new server.
LEMMA RegisterSessionsTypes ==
    ASSUME NEW t \in Cursors, t.epoch > 0, Subscribed(t), page \in Pages(t),
           \/ \E epoch \in Nat : RegisterSessions(epoch)
           \/ DisconnectSessions \/ ReplacedSessions
    PROVE  Subscribed(t)' /\ page' \in Pages(t)
<1>1. <<>> \in Seq(Items(t))
  OBVIOUS
<1>2. \A s : Closed(s) \in Pages(t)
  BY <1>1, FeedTypes
<1>3. ASSUME NEW epoch \in Nat, RegisterSessions(epoch)
      PROVE  Subscribed(t)' /\ page' \in Pages(t)
  <2>1. page' \in Pages(t)
    BY <1>2, <1>3, RefetchTypes DEF RegisterSessions
  <2>2. <<>> \in Seq(Past(t))
    OBVIOUS
  <2>3. \A s \in Settled : [subs[s] EXCEPT !.phase = "again", !.buffer = <<>>,
                                           !.asked = epoch] \in SubRecords(t)
    <3> SUFFICES ASSUME NEW s \in Settled
                 PROVE  [subs[s] EXCEPT !.phase = "again", !.buffer = <<>>,
                                        !.asked = epoch] \in SubRecords(t)
      OBVIOUS
    <3>1. PICK x \in SubRecords(t) : x = subs[s]
      BY DEF Settled, Subscribed
    <3> QED
      BY <2>2, <3>1 DEF SubRecords
  <2>4. subs' \in [Subs -> SubRecords(t) \cup {NoSub}]
    BY <1>3, <2>3 DEF RegisterSessions
  <2>5. \A s \in Subs : subs[s] = NoSub => subs'[s] = NoSub
    BY <1>3 DEF RegisterSessions, Settled
  <2> QED
    BY <2>1, <2>4, <2>5, NoneAdded
<1>4. ASSUME subs' = [s \in Subs |-> NoSub] PROVE Subscribed(t)'
  BY <1>4, NoneAdded
<1>5. CASE DisconnectSessions
  <2>1. page' \in Pages(t)
    BY <1>2, <1>5, RefetchTypes DEF DisconnectSessions
  <2> QED
    BY <1>4, <1>5, <2>1 DEF DisconnectSessions
<1>6. CASE ReplacedSessions
  <2>1. PICK n \in 0 .. Len(page.feed) :
            page' = Refetch(IF page.mode # "on" THEN page
                            ELSE [page EXCEPT !.feed =
                                Append(SubSeq(@, 1, n), [closed |-> TRUE])])
    BY <1>6 DEF ReplacedSessions
  <2>2. page.feed \in Seq(Items(t)) /\ [closed |-> TRUE] \in Items(t)
    BY DEF Pages, Items
  <2>3. SubSeq(page.feed, 1, n) \in Seq(Items(t))
    BY <2>2, Beginnings
  <2>4. PICK f \in Seq(Items(t)) : f = Append(SubSeq(page.feed, 1, n), [closed |-> TRUE])
    BY <2>2, <2>3, AppendProperties
  <2>5. [page EXCEPT !.feed = f] \in Pages(t)
    BY DEF Pages
  <2>6. page' \in Pages(t)
    BY <2>1, <2>4, <2>5, RefetchTypes
  <2> QED
    BY <1>4, <1>6, <2>6 DEF ReplacedSessions
<1> QED
  BY <1>3, <1>5, <1>6
-----------------------------------------------------------------------------
(* Steps that leave the connector's side of the sessions alone.            *)

\* It is enough to look at the subscriptions, the page and the channel.
LEMMA SoundNext ==
    ASSUME NEW t, timeline = t, StreamTypes, Rest,
           ChannelTypes(Answers(t))', Subscribed(t)', page' \in Pages(t)
    PROVE  Sound'
  BY DEF Sound, StreamTypes, Rest, ChannelTypes, Subscribed, Active

\* Nothing of a session changes but the channel.
LEMMA SoundAside ==
    ASSUME NEW t, timeline = t, StreamTypes, ChannelTypes(Answers(t))', UNCHANGED stream
    PROVE  Sound'
  BY DEF Sound, StreamTypes, stream, ChannelTypes, Subscribed, Active

\* A page asks for what it has not.
LEMMA RequestSound ==
    ASSUME Sound, Reopen \/ Invalidate
    PROVE  Sound' /\ journal' = journal
<1>1. PICK t \in Cursors : /\ t = timeline /\ t.epoch > 0 /\ page \in Pages(t)
                           /\ Subscribed(t) /\ ChannelTypes(Answers(t)) /\ StreamTypes
  BY DEF Sound, StreamTypes
<1>2. PICK r \in Exact(t) : r = page.replica
  BY <1>1 DEF Pages
<1>3. r.cursor \in Cursors /\ link.channel \in Nat
  BY <1>1 DEF Exact, Past, ChannelTypes, Links
<1>4. ASSUME NEW who \in {"page", "query"}, Ask(Command("open", who, r.cursor))
      PROVE  ChannelTypes(Answers(t))' /\ journal' = journal
  <2>1. PICK c \in Requests : c = Command("open", who, r.cursor)
    BY <1>3 DEF Command, Requests, SessionCommands
  <2> QED
    BY <1>1, <1>4, <2>1, AskTypes
<1>5. CASE Reopen
  <2>1. page' \in Pages(t)
    BY <1>1, <1>2, <1>5 DEF Reopen, Pages, Modes
  <2>2. Subscribed(t)'
    BY <1>1, <1>5 DEF Reopen, Subscribed, Active
  <2>3. Ask(Command("open", "page", r.cursor)) /\ Rest
    BY <1>2, <1>5 DEF Reopen
  <2> QED
    BY <1>1, <1>4, <2>1, <2>2, <2>3, SoundNext
<1>6. CASE Invalidate
  <2>1. page' \in Pages(t)
    BY <1>1, <1>2, <1>6 DEF Invalidate, Pages
  <2>2. Subscribed(t)'
    BY <1>1, <1>6 DEF Invalidate, Subscribed, Active
  <2>3. Ask(Command("open", "query", r.cursor)) /\ Rest
    BY <1>2, <1>6 DEF Invalidate
  <2> QED
    BY <1>1, <1>4, <2>1, <2>2, <2>3, SoundNext
<1> QED
  BY <1>5, <1>6

\* It subscribes, or finds the connector offline.
LEMMA ConnectSound ==
    ASSUME Sound, Connect
    PROVE  Sound' /\ journal' = journal
<1>1. PICK t \in Cursors : /\ t = timeline /\ t.epoch > 0 /\ page \in Pages(t)
                           /\ Subscribed(t) /\ ChannelTypes(Answers(t)) /\ StreamTypes
  BY DEF Sound, StreamTypes
<1>2. PICK r \in Exact(t) : r = page.replica
  BY <1>1 DEF Pages
<1>3. r.cursor \in Cursors /\ link.channel \in Nat
  BY <1>1 DEF Exact, Past, ChannelTypes, Links
<1>4. CASE Online
  <2>1. PICK s \in Subs :
            /\ subs' = [subs EXCEPT ![s] =
                   [phase |-> "init", after |-> r.cursor,
                    buffer |-> <<>>, asked |-> link.channel]]
            /\ page' = [page EXCEPT !.mode = "on", !.sub = s]
            /\ Ask(Subscribe(s, r.cursor))
    BY <1>2, <1>4 DEF Connect, Unused
  <2>2. PICK c \in Requests : c = Subscribe(s, r.cursor)
    BY <1>3 DEF Subscribe, Command, Requests, SessionCommands
  <2>3. PICK x \in SubRecords(t) :
            x = [phase |-> "init", after |-> r.cursor, buffer |-> <<>>,
                 asked |-> link.channel]
    <3>1. <<>> \in Seq(Past(t))
      OBVIOUS
    <3> QED
      BY <1>3, <3>1 DEF SubRecords
  <2>4. Subscribed(t)'
    BY <1>1, <2>1, <2>3, OneChanges
  <2>5. page' \in Pages(t)
    BY <1>1, <2>1 DEF Pages, Modes
  <2>6. ChannelTypes(Answers(t))' /\ journal' = journal
    BY <1>1, <2>1, <2>2, AskTypes
  <2> QED
    BY <1>1, <2>4, <2>5, <2>6, SoundNext DEF Connect
<1>5. CASE ~Online
  <2>1. page' \in Pages(t)
    BY <1>1, <1>5 DEF Connect, Pages, Modes
  <2>2. Subscribed(t)' /\ ChannelTypes(Answers(t))' /\ journal' = journal
    BY <1>1, <1>5 DEF Connect, Subscribed, Active, ChannelTypes, channel
  <2> QED
    BY <1>1, <2>1, <2>2, SoundNext DEF Connect
<1> QED
  BY <1>4, <1>5

\* It is opened, cut off, or given something to apply.
LEMMA ShowSound ==
    ASSUME Sound, View \/ Cut \/ Consume
    PROVE  Sound' /\ journal' = journal
<1>1. PICK t \in Cursors : /\ t = timeline /\ t.epoch > 0 /\ page \in Pages(t)
                           /\ Subscribed(t) /\ ChannelTypes(Answers(t)) /\ StreamTypes
  BY DEF Sound, StreamTypes
<1>2. Rest /\ UNCHANGED <<channel, subs>>
  BY DEF View, Cut, Consume
<1>3. Subscribed(t)' /\ ChannelTypes(Answers(t))' /\ journal' = journal
  BY <1>1, <1>2 DEF Subscribed, Active, ChannelTypes, channel
<1>4. <<>> \in Seq(Items(t))
  OBVIOUS
<1>5. Closing \in Pages(t)
  BY <1>1, <1>4 DEF Closing, Pages, Modes
<1>6. CASE View
  <2>1. page' \in Pages(t)
    BY <1>1, <1>6 DEF View, Pages, Modes
  <2> QED
    BY <1>1, <1>2, <1>3, <2>1, SoundNext
<1>7. CASE Cut
  <2>1. page' \in Pages(t)
    BY <1>5, <1>7 DEF Cut
  <2> QED
    BY <1>1, <1>2, <1>3, <2>1, SoundNext
<1>8. CASE Consume
  <2>1. PICK r \in Exact(t), f \in Seq(Items(t)) : r = page.replica /\ f = page.feed
    BY <1>1 DEF Pages
  <2>2. f # <<>>
    BY <1>8, <2>1 DEF Consume
  <2>3. PICK item \in Items(t), g \in Seq(Items(t)) : item = Head(f) /\ g = Tail(f)
    BY <2>2, Rest1
  <2>4. PICK n \in Exact(t) \cup {Reconcile} :
            n = IF "closed" \in DOMAIN item THEN Reconcile
                ELSE IF "reset" \in DOMAIN item THEN ApplySync(r, item)
                ELSE Apply(r, item)
    BY ItemKinds, ApplySyncExact, ApplyExact
  <2>5. page' = IF n = Reconcile THEN Closing
                ELSE [page EXCEPT !.feed = g, !.replica = n]
    BY <1>8, <2>1, <2>3, <2>4 DEF Consume
  <2>6. n # Reconcile => n \in Exact(t)
    OBVIOUS
  <2>7. n # Reconcile => [page EXCEPT !.feed = g, !.replica = n] \in Pages(t)
    BY <1>1, <2>6 DEF Pages
  <2>8. page' \in Pages(t)
    BY <1>5, <2>5, <2>7
  <2> QED
    BY <1>1, <1>2, <1>3, <2>8, SoundNext
<1> QED
  BY <1>6, <1>7, <1>8

\* Its stream's reader is gone.
LEMMA LeaveSound ==
    ASSUME Sound, NEW s \in Subs, Leave(s)
    PROVE  Sound' /\ journal' = journal
<1>1. PICK t \in Cursors : /\ t = timeline /\ t.epoch > 0 /\ page \in Pages(t)
                           /\ Subscribed(t) /\ ChannelTypes(Answers(t)) /\ StreamTypes
  BY DEF Sound, StreamTypes
<1>2. PICK c \in Requests : c = Command("unsubscribe", s, NoCursor)
  BY <1>1, UnsubscribeTypes DEF ChannelTypes
<1>3. ChannelTypes(Answers(t))' /\ journal' = journal
  BY <1>1, <1>2, AskTypes DEF Leave
<1>4. Subscribed(t)'
  BY <1>1, OneChanges DEF Leave
<1> QED
  BY <1>1, <1>3, <1>4, SoundNext DEF Leave, Rest

\* An answer to a session's request is accepted.
LEMMA AcceptSessionSound ==
    ASSUME Sound, AcceptSession
    PROVE  Sound' /\ journal # <<>> /\ journal' = Tail(journal)
<1>1. PICK t \in Cursors : /\ t = timeline /\ t.epoch > 0 /\ page \in Pages(t)
                           /\ Subscribed(t) /\ ChannelTypes(Answers(t)) /\ StreamTypes
  BY DEF Sound, StreamTypes
<1>2. journal # <<>> /\ Head(journal) \in Answers(t) /\ Rest
  BY <1>1, Rest1 DEF AcceptSession, ChannelTypes, Rest
<1>3. PICK answer : answer = Head(journal)
  OBVIOUS
<1>4. answer.to \in SessionCommands /\ answer.data \in SyncSet(t)
  <2>1. Lane(answer.to) = "session"
    BY <1>3 DEF AcceptSession
  <2>2. answer.to \in GitCommands => Lane(answer.to) # "session"
    BY LaneTypes
  <2> QED
    BY <1>2, <1>3, <2>1, <2>2 DEF Answers
<1>5. PICK command \in SessionCommands, sync \in SyncSet(t) :
          command = answer.to /\ sync = answer.data
  BY <1>4
<1>6. <<>> \in Seq(Requests)
  OBVIOUS
<1>7. CASE ~Awaited
  <2>1. Accept(<<>>) /\ UNCHANGED <<subs, page>>
    BY <1>7 DEF AcceptSession
  <2>2. ChannelTypes(Answers(t))'
    BY <1>1, <1>6, <2>1, AcceptTypes
  <2>3. Subscribed(t)' /\ page' \in Pages(t) /\ journal' = Tail(journal)
    BY <1>1, <2>1 DEF Subscribed, Active, Accept
  <2> QED
    BY <1>1, <1>2, <2>2, <2>3, SoundNext
<1>8. CASE Awaited
  <2>1. /\ Accept(Unsubscribes(command, answer.ok))
        /\ IF command.type = "open" THEN Opened(command, answer.ok, sync)
           ELSE Settle(command.for, answer.ok, sync)
    BY <1>3, <1>5, <1>8 DEF AcceptSession
  <2>2. command.type # "open" => command.for \in Subs
    BY DEF SessionCommands
  <2>3. PICK told \in Seq(Requests) : told = Unsubscribes(command, answer.ok)
    <3>1. ASSUME NEW s \in Subs
          PROVE  <<Command("unsubscribe", s, NoCursor)>> \in Seq(Requests)
      <4>1. Command("unsubscribe", s, NoCursor) \in Requests
        BY <1>1, UnsubscribeTypes DEF ChannelTypes
      <4> QED
        BY <4>1
    <3>2. CASE command.type = "subscribe"
      BY <1>6, <2>2, <3>1, <3>2 DEF Unsubscribes
    <3>3. CASE command.type # "subscribe"
      BY <1>6, <3>3 DEF Unsubscribes
    <3> QED
      BY <3>2, <3>3
  <2>4. ChannelTypes(Answers(t))' /\ journal' = Tail(journal)
    BY <1>1, <2>1, <2>3, AcceptTypes DEF Accept
  <2>5. Subscribed(t)' /\ page' \in Pages(t)
    <3>1. CASE command.type = "open"
      <4>1. subs' = subs /\ page' \in Pages(t)
        BY <1>1, <2>1, <3>1, OpenedTypes
      <4> QED
        BY <1>1, <4>1 DEF Subscribed, Active
    <3>2. CASE command.type # "open"
      BY <1>1, <2>1, <2>2, <3>2, SettleTypes
    <3> QED
      BY <3>1, <3>2
  <2> QED
    BY <1>1, <1>2, <2>4, <2>5, SoundNext
<1> QED
  BY <1>7, <1>8
-----------------------------------------------------------------------------
(* The connector's side of the sessions.                                   *)

\* The timeline goes on, and everybody who has subscribed is told.
LEMMA TimelineGoesOn ==
    ASSUME Sound, NEW u \in Cursors, u.epoch > 0, timeline \in Past(u), timeline' = u,
           Notify(u), UNCHANGED <<csubs, late, subs, page>>, UNCHANGED channel
    PROVE  Sound' /\ journal' = journal
<1>1. PICK t \in Cursors :
          /\ t = timeline /\ t.epoch > 0 /\ t \in Past(u) /\ page \in Pages(t)
          /\ Subscribed(t) /\ ChannelTypes(Answers(t)) /\ StreamTypes
  BY DEF Sound, StreamTypes
<1>2. /\ SubRecords(t) \subseteq SubRecords(u) /\ Hints(t) \subseteq Hints(u)
      /\ Answers(t) \subseteq Answers(u) /\ Pages(t) \subseteq Pages(u)
  BY <1>1, Grows
<1>3. u \in Past(u)
  BY PastOwn
<1>4. IsFiniteSet(csubs) /\ csubs \subseteq Subs /\ hints \in Seq(Hints(t))
  BY <1>1 DEF StreamTypes
<1>5. PICK N \in Nat : N = Cardinality(csubs)
  BY <1>4, Enumerated
<1>6. \A n \in 1 .. N : SetToSeq(csubs)[n] \in Subs
  BY <1>4, <1>5, Enumerated
<1> DEFINE e(n) == [for |-> SetToSeq(csubs)[n], at |-> u]
<1>7. \A n \in 1 .. N : e(n) \in Hints(u)
  BY <1>3, <1>6 DEF Hints
<1>8. PICK l : l = [n \in 1 .. N |-> e(n)]
  OBVIOUS
<1>9. l \in Seq(Hints(u))
  <2> HIDE DEF e
  <2> QED
    BY <1>7, <1>8
<1>10. hints \in Seq(Hints(u))
  BY <1>2, <1>4, SeqMonotonic
<1>11. hints' = hints \o l
  BY <1>5, <1>8 DEF Notify
<1>12. hints' \in Seq(Hints(u))
  BY <1>9, <1>10, <1>11, ConcatProperties
<1>13. late' \subseteq Hints(u)
  BY <1>1, <1>2 DEF StreamTypes
<1>14. subs' \in [Subs -> SubRecords(u) \cup {NoSub}] /\ IsFiniteSet(Active')
  BY <1>1, <1>2 DEF Subscribed, Active
<1>15. journal \in Seq(Answers(u))
  BY <1>1, <1>2, SeqMonotonic DEF ChannelTypes
<1>16. ChannelTypes(Answers(timeline))'
  BY <1>1, <1>15 DEF ChannelTypes, channel
<1>17. StreamTypes'
  BY <1>1, <1>2, <1>4, <1>12, <1>13, <1>14 DEF StreamTypes, Subscribed
<1> QED
  BY <1>16, <1>17 DEF Sound, channel

\* An event, or another history.
LEMMA CommitSound ==
    ASSUME Sound, Commit \/ Rewind, UNCHANGED channel
    PROVE  Sound' /\ journal' = journal
<1>1. PICK e \in Nat, n \in Nat : /\ e = timeline.epoch /\ n = timeline.seq /\ e > 0
                                  /\ timeline = [epoch |-> e, seq |-> n]
  BY DEF Sound, StreamTypes, Cursors
<1>2. timeline \in Cursors
  BY <1>1 DEF Cursors
<1>3. CASE Commit
  <2>1. PICK m \in Nat : m = n + 1
    OBVIOUS
  <2>2. PICK u : u = [epoch |-> e, seq |-> m]
    OBVIOUS
  <2>3. u \in Cursors /\ u.epoch = e /\ u.seq = m
    BY <2>2 DEF Cursors
  <2>4. timeline \in Past(u)
    BY <1>1, <1>2, <2>1, <2>3 DEF Past
  <2>5. [timeline EXCEPT !.seq = @ + 1] = u
    BY <1>1, <2>1, <2>2
  <2>6. timeline' = u /\ Notify(u) /\ UNCHANGED <<csubs, late, subs, page>>
    BY <1>3, <2>5 DEF Commit
  <2> QED
    BY <1>1, <2>3, <2>4, <2>6, TimelineGoesOn
<1>4. CASE Rewind
  <2>1. PICK m \in Nat : m = e + 1
    OBVIOUS
  <2>2. PICK u : u = Cursor(m, 1)
    OBVIOUS
  <2>3. u \in Cursors /\ u.epoch = m /\ u.seq = 1
    BY <2>2 DEF Cursors, Cursor
  <2>4. timeline \in Past(u)
    BY <1>1, <1>2, <2>1, <2>3 DEF Past
  <2>5. timeline' = u /\ Notify(u) /\ UNCHANGED <<csubs, late, subs, page>>
    BY <1>1, <1>4, <2>1, <2>2 DEF Rewind
  <2> QED
    BY <1>1, <2>1, <2>3, <2>4, <2>5, TimelineGoesOn
<1> QED
  BY <1>3, <1>4

\* Envelopes reach the server, in order, again, or not at all.
LEMMA EnvelopeSound ==
    ASSUME Sound, UNCHANGED channel,
           Displace \/ ArriveLate \/ \E kept \in BOOLEAN : Arrive(kept)
    PROVE  Sound' /\ journal' = journal
<1>1. PICK t \in Cursors : /\ t = timeline /\ t.epoch > 0 /\ page \in Pages(t)
                           /\ Subscribed(t) /\ ChannelTypes(Answers(t)) /\ StreamTypes
  BY DEF Sound, StreamTypes
<1>2. /\ hints \in Seq(Hints(t)) /\ late \subseteq Hints(t)
      /\ csubs \subseteq Subs /\ IsFiniteSet(csubs)
  BY <1>1 DEF StreamTypes
<1>3. ChannelTypes(Answers(t))' /\ journal' = journal
  BY <1>1 DEF ChannelTypes, channel
<1>4. timeline' = t /\ csubs' = csubs
  BY <1>1 DEF Displace, ArriveLate, Arrive
<1>5. SUFFICES /\ hints' \in Seq(Hints(t)) /\ late' \subseteq Hints(t)
               /\ Subscribed(t)' /\ page' \in Pages(t)
  BY <1>1, <1>2, <1>3, <1>4 DEF Sound, StreamTypes, Subscribed, Active, ChannelTypes
<1>6. CASE Displace
  <2>1. hints # <<>>
    <3>1. PICK n \in 2 .. Len(hints) : TRUE
      BY <1>6 DEF Displace
    <3>2. hints = <<>> => Len(hints) = 0
      BY EmptySeq
    <3> QED
      BY <1>2, <3>1, <3>2
  <2>2. Tail(hints) \in Seq(Hints(t))
    BY <1>2, <2>1, Rest1
  <2> QED
    BY <1>1, <1>2, <1>6, <2>2 DEF Displace, Subscribed, Active
<1>7. CASE ArriveLate
  <2>1. PICK hint \in late : late' = late \ {hint} /\ Push(hint) /\ UNCHANGED hints
    BY <1>7 DEF ArriveLate
  <2>2. Subscribed(t)' /\ page' \in Pages(t)
    BY <1>1, <1>2, <2>1, PushTypes
  <2> QED
    BY <1>2, <2>1, <2>2
<1>8. CASE \E kept \in BOOLEAN : Arrive(kept)
  <2>1. /\ hints # <<>> /\ hints' = Tail(hints) /\ Push(Head(hints))
        /\ late' \subseteq late \cup {Head(hints)}
    BY <1>8 DEF Arrive
  <2>2. Head(hints) \in Hints(t) /\ Tail(hints) \in Seq(Hints(t))
    BY <1>2, <2>1, Rest1
  <2>3. Subscribed(t)' /\ page' \in Pages(t)
    BY <1>1, <2>1, <2>2, PushTypes
  <2> QED
    BY <1>2, <2>1, <2>2, <2>3
<1> QED
  BY <1>6, <1>7, <1>8

\* The connector starts a session's request.
LEMMA StartSessionSound ==
    ASSUME Sound, lanes["session"] # <<>>, StartSession(Head(lanes["session"]))
    PROVE  Sound' /\ journal' = journal
<1>1. PICK t \in Cursors : /\ t = timeline /\ t.epoch > 0 /\ page \in Pages(t)
                           /\ Subscribed(t) /\ ChannelTypes(Answers(t)) /\ StreamTypes
  BY DEF Sound, StreamTypes
<1>2. "session" \in Lanes
  BY DEF Lanes
<1>3. PICK command : command = Head(lanes["session"])
  OBVIOUS
<1>4. Start(command, command.type # "unsubscribe")
  BY <1>3 DEF StartSession
<1>5. ChannelTypes(Answers(t))' /\ journal' = journal
  BY <1>1, <1>2, <1>3, <1>4, StartTypes
<1>6. /\ csubs' \subseteq csubs /\ csubs \subseteq Subs /\ IsFiniteSet(csubs)
      /\ UNCHANGED <<timeline, hints, late, subs, page>>
  BY <1>1 DEF StartSession, StreamTypes
<1>7. IsFiniteSet(csubs')
  BY <1>6, FS_Subset
<1> QED
  BY <1>1, <1>5, <1>6, <1>7 DEF Sound, StreamTypes, ChannelTypes, Subscribed, Active

\* And answers it.
LEMMA AnswerSessionSound ==
    ASSUME Sound, NEW command \in running, Lane(command) = "session",
           NEW ok \in BOOLEAN, AnswerSession(command, ok)
    PROVE  /\ Sound'
           /\ \E a : journal' = Append(journal, a) /\ a.to \in SessionCommands
<1>1. PICK t \in Cursors : /\ t = timeline /\ t.epoch > 0 /\ page \in Pages(t)
                           /\ Subscribed(t) /\ ChannelTypes(Answers(t)) /\ StreamTypes
  BY DEF Sound, StreamTypes
<1>2. command \in SessionCommands
  BY <1>1, LaneTypes DEF ChannelTypes, Requests
<1>3. command.after \in Cursors /\ (command.type = "subscribe" => command.for \in Subs)
  BY <1>2 DEF SessionCommands
<1>4. PICK sync \in Syncs(command.after) : Answer(command, ok, sync)
  BY DEF AnswerSession
<1>5. sync \in SyncSet(t)
  BY <1>1, <1>3, <1>4, SyncsReached
<1>6. [to |-> command, ok |-> ok, data |-> sync] \in Answers(t)
  BY <1>2, <1>5 DEF Answers
<1>7. ChannelTypes(Answers(t))'
  BY <1>1, <1>4, <1>6, AnswerTypes
<1>8. /\ csubs' \subseteq csubs \cup {command.for} /\ csubs' \subseteq Subs
      /\ IsFiniteSet(csubs) /\ UNCHANGED <<timeline, hints, late, subs, page>>
  BY <1>1, <1>3 DEF AnswerSession, StreamTypes
<1>9. IsFiniteSet(csubs')
  BY <1>8, FS_AddElement, FS_Subset
<1>10. journal' = Append(journal, [to |-> command, ok |-> ok, data |-> sync])
  BY <1>4 DEF Answer
<1>11. Sound'
  BY <1>1, <1>7, <1>8, <1>9 DEF Sound, StreamTypes, ChannelTypes, Subscribed, Active
<1> QED
  BY <1>2, <1>10, <1>11

\* The connector begins a connection, or dies.
LEMMA BeginSessionsSound ==
    ASSUME Sound, NEW t, t = timeline, ChannelTypes(Answers(t))',
           BeginSessions \/ DieSessions
    PROVE  Sound'
<1>1. <<>> \in Seq(Hints(t)) /\ IsFiniteSet({})
  BY FS_EmptySet
<1> QED
  BY <1>1 DEF Sound, StreamTypes, ChannelTypes, Subscribed, Active, BeginSessions,
              DieSessions
-----------------------------------------------------------------------------
(* The reports of a workspace.                                             *)

Dated(x) == x.status \in Int /\ x.revision \in Int /\ x.count \in Int

Alike(x, y) == x.status = y.status /\ x.revision = y.revision /\ x.count = y.count

\* A report the workspace makes now: of what the repository is, and numbered
\* higher than any before.
New(x, w, v, q) ==
    /\ x.status = q /\ x.revision = v.revision /\ x.count = v.count
    /\ v.count > w.count \/ (v.count = w.count /\ v.revision > w.revision)

\* Reports stay in order when they are copied, moved or lost, when a new one is
\* made, and when the numbering begins anew.
LEMMA AgesNext ==
    ASSUME NEW S, NEW T, NEW w, NEW v, NEW r \in Int, NEW q \in Int,
           Dated(w), Dated(v), \A y \in S : Dated(y), \A x \in T : Dated(x),
           Ages(S, w, r), r <= q,
           v.count > w.count \/ (v.count = w.count /\ v.revision >= w.revision),
           \A x \in T : 0 < x.revision => \/ \E y \in S : Alike(x, y)
                                          \/ New(x, w, v, q)
    PROVE  Ages(T, v, q)
<1>1. ASSUME NEW x \in T PROVE NotAhead(x, v, q)
  <2>1. CASE \E y \in S : Alike(x, y)
    <3>1. PICK y \in S : Alike(x, y) /\ Dated(y) /\ NotAhead(y, w, r)
      BY <2>1 DEF Ages
    <3> QED
      BY <3>1 DEF Alike, Dated, NotAhead
  <2>2. CASE New(x, w, v, q)
    BY <2>2 DEF New, NotAhead, Dated
  <2> QED
    BY <2>1, <2>2 DEF NotAhead
<1>2. ASSUME NEW x \in T, NEW y \in S, 0 < x.revision, New(x, w, v, q)
      PROVE  /\ x.count = y.count /\ 0 < y.revision => y.revision < x.revision
             /\ x.count = y.count /\ 0 < y.revision => y.status <= x.status
  <2>1. Dated(x) /\ Dated(y) /\ NotAhead(y, w, r)
    BY DEF Ages
  <2>2. /\ x.status = q /\ x.revision = v.revision /\ x.count = v.count
        /\ v.count > w.count \/ (v.count = w.count /\ v.revision > w.revision)
    BY <1>2 DEF New
  <2>3. /\ x.status \in Int /\ x.revision \in Int /\ x.count \in Int
        /\ y.status \in Int /\ y.revision \in Int /\ y.count \in Int
        /\ w.revision \in Int /\ w.count \in Int
    BY <2>1 DEF Dated
  <2>4. 0 < y.revision => \/ y.count < w.count
                          \/ /\ y.count = w.count /\ y.revision <= w.revision
                             /\ y.status <= r
    BY <2>1 DEF NotAhead
  <2> QED
    BY <2>2, <2>3, <2>4
<1>3. ASSUME NEW x \in T, NEW y \in T, x.count = y.count, 0 < x.revision,
             x.revision <= y.revision, 0 < y.revision
      PROVE  x.status <= y.status
  <2>1. /\ x.status \in Int /\ x.revision \in Int /\ y.status \in Int
        /\ y.revision \in Int
    BY DEF Dated
  <2>2. CASE (\E z \in S : Alike(x, z)) /\ (\E z \in S : Alike(y, z))
    <3>1. PICK a \in S : Alike(x, a)
      BY <2>2
    <3>2. PICK b \in S : Alike(y, b)
      BY <2>2
    <3>3. InOrder(a, b)
      BY DEF Ages
    <3> QED
      BY <1>3, <3>1, <3>2, <3>3 DEF Alike, InOrder
  <2>3. CASE (\E z \in S : Alike(x, z)) /\ New(y, w, v, q)
    <3>1. PICK a \in S : Alike(x, a)
      BY <2>3
    <3> QED
      BY <1>2, <1>3, <2>3, <3>1 DEF Alike
  <2>4. CASE New(x, w, v, q) /\ (\E z \in S : Alike(y, z))
    <3>1. PICK b \in S : Alike(y, b)
      BY <2>4
    <3>2. b.revision < x.revision /\ b.revision = y.revision
      BY <1>2, <1>3, <2>4, <3>1 DEF Alike
    <3> QED
      BY <1>3, <2>1, <3>2
  <2>5. CASE New(x, w, v, q) /\ New(y, w, v, q)
    BY <2>1, <2>5 DEF New
  <2> QED
    BY <1>3, <2>2, <2>3, <2>4, <2>5
<1>4. ASSUME NEW x \in T, NEW y \in T PROVE InOrder(x, y)
  <2>1. Dated(x) /\ Dated(y)
    OBVIOUS
  <2> SUFFICES ASSUME x.count = y.count, 0 < x.revision, x.revision <= y.revision
               PROVE  x.status <= y.status
    BY DEF InOrder
  <2>2. 0 < y.revision
    BY <2>1 DEF Dated
  <2> QED
    BY <1>3, <2>2
<1> QED
  BY <1>1, <1>4 DEF Ages

\* A report that is there already, and one that is accounted for.
Old(x) == \E y \in Found : Alike(x, y)

Traced(x) == 0 < x.revision => Old(x) \/ New(x, work, work', repo')

\* What a page shows moves to what has been found, and not to less, or is given up.
Moves(x) == \/ Alike(x, watch)
            \/ ~x.live /\ x.revision <= 0
            \/ \E y \in Found : Alike(x, y) /\ y.revision >= watch.revision

Forward == Shows /\ watch'.live /\ watch'.id = watch.id /\ watch'.count = watch.count
           => watch'.status >= watch.status

\* The answers that carry reports.
LEMMA InspectedStamps ==
    ASSUME NEW t, ChannelTypes(Answers(t))
    PROVE  Inspected \subseteq Stamps
<1>1. ASSUME NEW i \in DOMAIN journal, journal[i].to.type \in {"watch", "unwatch"}
      PROVE  journal[i].data \in Stamps
  <2>1. journal[i] \in Answers(t)
    BY ElementOfSeq DEF ChannelTypes
  <2>2. CASE journal[i] \in [to : SessionCommands, ok : BOOLEAN, data : SyncSet(t)]
    BY <1>1, <2>2 DEF SessionCommands
  <2> QED
    BY <2>1, <2>2 DEF Answers
<1> QED
  BY <1>1 DEF Inspected

\* Everything that is found is a report with its numbering.
LEMMA FoundDated ==
    Sound /\ GitTypes => (\A x \in Found : Dated(x)) /\ Dated(work) /\ repo \in Int
<1> SUFFICES ASSUME Sound, GitTypes
             PROVE  (\A x \in Found : Dated(x)) /\ Dated(work) /\ repo \in Int
  OBVIOUS
<1>1. Inspected \subseteq Stamps
  BY InspectedStamps DEF Sound
<1>2. Dated(work) /\ Dated(watch) /\ repo \in Int
  BY DEF GitTypes, Dated, Works, WatchRecords
<1>3. ASSUME NEW x \in statuses \cup latest PROVE Dated(x)
  BY DEF GitTypes, Dated, Reported
<1>4. ASSUME NEW x \in Inspected PROVE Dated(x)
  BY <1>1 DEF Dated, Stamps
<1>5. ASSUME NEW x \in Held PROVE x = work
  BY DEF Held
<1> QED
  BY <1>2, <1>3, <1>4, <1>5 DEF Found

\* A step that accounts for every report keeps them in order, and moves what a
\* page shows forward.
LEMMA GitNext ==
    ASSUME Sound, Sound', GitTypes, GitTypes', GitInv, repo <= repo',
           \/ work'.count > work.count
           \/ work'.count = work.count /\ work'.revision >= work.revision,
           \A x \in (statuses \cup latest \cup Inspected \cup Held)' : Traced(x),
           Moves(watch')
    PROVE  GitInv' /\ Forward
<1>1. (\A x \in Found : Dated(x)) /\ Dated(work) /\ repo \in Int
  BY FoundDated
<1>2. (\A x \in Found' : Dated(x)) /\ Dated(work') /\ repo' \in Int
  <2>1. (Sound /\ GitTypes => (\A x \in Found : Dated(x)) /\ Dated(work) /\ repo \in Int)'
    BY FoundDated, PTL
  <2> QED
    BY <2>1
<1>3. watch \in Found
  BY DEF Found
<1>4. Traced(watch')
  BY <1>2, <1>3 DEF Found, Dated, Moves, Traced, Old
<1>5. \A x \in Found' : Traced(x)
  BY <1>4 DEF Found
<1>6. GitInv'
  <2>1. PICK F, G, w, v, r, q : /\ F = Found /\ G = Found' /\ w = work /\ v = work'
                                /\ r = repo /\ q = repo'
    OBVIOUS
  <2>2. \A x \in G : 0 < x.revision => (\E y \in F : Alike(x, y)) \/ New(x, w, v, q)
    BY <1>5, <2>1 DEF Traced, Old
  <2>3. Ages(F, w, r)
    BY <2>1 DEF GitInv
  <2>4. Ages(G, v, q)
    <3>1. r \in Int /\ q \in Int /\ Dated(w) /\ Dated(v)
      BY <1>1, <1>2, <2>1
    <3>2. (\A y \in F : Dated(y)) /\ (\A x \in G : Dated(x))
      BY <1>1, <1>2, <2>1
    <3>3. r <= q /\ (v.count > w.count \/ (v.count = w.count /\ v.revision >= w.revision))
      BY <2>1
    <3> QED
      BY <2>2, <2>3, <3>1, <3>2, <3>3, AgesNext
  <2> QED
    BY <2>1, <2>4 DEF GitInv
<1>7. Forward
  <2> SUFFICES ASSUME Shows, watch'.live, watch'.count = watch.count
               PROVE  watch'.status >= watch.status
    BY DEF Forward
  <2>1. Dated(watch) /\ Dated(watch')
    BY <1>1, <1>2 DEF Found
  <2>2. CASE Alike(watch', watch)
    BY <2>1, <2>2 DEF Alike, Dated
  <2>3. CASE \E y \in Found : Alike(watch', y) /\ y.revision >= watch.revision
    <3>1. PICK y \in Found : Alike(watch', y) /\ y.revision >= watch.revision
      BY <2>3
    <3>2. InOrder(watch, y)
      BY <1>3 DEF GitInv, Ages
    <3> QED
      BY <2>1, <3>1, <3>2 DEF InOrder, Alike, Dated, Shows
  <2> QED
    BY <2>2, <2>3 DEF Moves
<1> QED
  BY <1>6, <1>7

\* Answers to sessions, and answers that have been accepted, add no report.
LEMMA InspectedKept ==
    ASSUME NEW t, ChannelTypes(Answers(t)),
           \/ journal' = journal
           \/ journal # <<>> /\ journal' = Tail(journal)
           \/ \E a : journal' = Append(journal, a) /\ a.to \in SessionCommands
    PROVE  Inspected' \subseteq Inspected
<1>0. PICK A : journal \in Seq(A)
  BY DEF ChannelTypes
<1>1. CASE journal' = journal
  BY <1>1 DEF Inspected
<1>2. CASE journal # <<>> /\ journal' = Tail(journal)
  <2>1. \A i \in DOMAIN journal' : i + 1 \in DOMAIN journal /\ journal'[i] = journal[i + 1]
    BY <1>0, <1>2
  <2> QED
    BY <2>1 DEF Inspected
<1>3. CASE \E a : journal' = Append(journal, a) /\ a.to \in SessionCommands
  <2>1. PICK a : journal' = Append(journal, a) /\ a.to \in SessionCommands
    BY <1>3
  <2>2. a.to.type \notin {"watch", "unwatch"}
    BY <2>1 DEF SessionCommands
  <2>3. \A i \in DOMAIN journal' : \/ i \in DOMAIN journal /\ journal'[i] = journal[i]
                                   \/ journal'[i] = a
    BY <1>0, <2>1
  <2> QED
    BY <2>2, <2>3 DEF Inspected
<1> QED
  BY <1>1, <1>2, <1>3

\* What is found is there already.
LEMMA FoundOld == \A x \in Found : Old(x)
  BY DEF Old, Alike

\* A step of the sessions alone.
LEMMA GitAside ==
    ASSUME Sound, Sound', GitTypes, GitInv, UNCHANGED git,
           \/ journal' = journal
           \/ journal # <<>> /\ journal' = Tail(journal)
           \/ \E a : journal' = Append(journal, a) /\ a.to \in SessionCommands
    PROVE  GitTypes' /\ GitInv' /\ Forward
<1>1. GitTypes'
  BY DEF git, GitTypes
<1>2. Inspected' \subseteq Inspected
  BY InspectedKept DEF Sound
<1>3. (statuses \cup latest \cup Inspected \cup Held)' \subseteq Found
  BY <1>2 DEF git, Held, Found
<1>4. Moves(watch')
  BY DEF git, Moves, Alike
<1>5. repo <= repo' /\ work'.count = work.count /\ work'.revision >= work.revision
  BY DEF git, GitTypes, Works
<1>6. \A x \in (statuses \cup latest \cup Inspected \cup Held)' : Traced(x)
  BY <1>3, FoundOld DEF Traced
<1> QED
  BY <1>1, <1>4, <1>5, <1>6, GitNext
-----------------------------------------------------------------------------
(* The workspace, its reports and the watch.                               *)

LiveInv == Sound /\ GitTypes /\ GitInv

\* A step that concerns the workspace and leaves the sessions alone.
LEMMA GitStep ==
    ASSUME LiveInv, UNCHANGED stream, NEW t, t = timeline, ChannelTypes(Answers(t))',
           GitTypes', repo <= repo',
           \/ work'.count > work.count
           \/ work'.count = work.count /\ work'.revision >= work.revision,
           \A x \in (statuses \cup latest \cup Inspected \cup Held)' : Traced(x),
           Moves(watch')
    PROVE  LiveInv' /\ Forward
<1>1. Sound'
  BY SoundAside DEF LiveInv, Sound
<1> QED
  BY <1>1, GitNext DEF LiveInv

\* The same for one that leaves the channel alone, too.
LEMMA GitAlone ==
    ASSUME LiveInv, UNCHANGED <<channel, stream>>,
           GitTypes', repo <= repo',
           \/ work'.count > work.count
           \/ work'.count = work.count /\ work'.revision >= work.revision,
           \A x \in (statuses \cup latest \cup Held)' : Traced(x),
           Moves(watch')
    PROVE  LiveInv' /\ Forward
<1>1. PICK t : t = timeline
  OBVIOUS
<1>2. ChannelTypes(Answers(t))'
  BY <1>1 DEF LiveInv, Sound, ChannelTypes, channel
<1>3. Inspected' = Inspected
  BY DEF Inspected, channel
<1>4. \A x \in Inspected' : Traced(x)
  BY <1>3, FoundOld DEF Traced, Found
<1> QED
  BY <1>1, <1>2, <1>4, GitStep

\* What a page shows may stay as it is.
LEMMA Stays == Moves(watch)
  BY DEF Moves, Alike

\* The repository changes.
LEMMA ChangeLive ==
    ASSUME LiveInv, UNCHANGED <<channel, stream>>, Change
    PROVE  LiveInv' /\ Forward
<1>1. GitTypes' /\ repo <= repo'
  BY DEF LiveInv, GitTypes, Change
<1>2. work' = work /\ work.revision \in Int
  BY DEF LiveInv, GitTypes, Change, Works
<1>3. (statuses \cup latest \cup Held)' \subseteq Found
  BY DEF Change, Held, Found
<1>4. Moves(watch')
  BY DEF Change, Moves, Alike
<1> QED
  BY <1>1, <1>2, <1>3, <1>4, FoundOld, GitAlone DEF Traced

\* The workspace reports.
LEMMA ReportLive ==
    ASSUME LiveInv, UNCHANGED <<channel, stream>>, Report
    PROVE  LiveInv' /\ Forward
<1> DEFINE n == work.revision + 1
<1>1. /\ work \in Works /\ work.revision \in Nat /\ work.count \in Nat /\ repo \in Nat
      /\ work.listeners \subseteq Nat
  BY DEF LiveInv, GitTypes, Works
<1>2. /\ work' = [work EXCEPT !.status = repo, !.reported = repo, !.revision = n]
      /\ repo' = repo /\ latest' = latest /\ watch' = watch
  BY DEF Report
<1>3. n \in Nat /\ n > work.revision
  BY <1>1
<1>4. /\ work'.status = repo' /\ work'.revision = n /\ work'.count = work.count
      /\ work' \in Works
  <2> HIDE DEF n
  <2>1. work'.status = repo' /\ work'.revision = n /\ work'.count = work.count
    BY <1>1, <1>2 DEF Works
  <2>2. work' \in Works
    <3>0. PICK p \in Int, w \in Works : p = repo /\ w = work
      BY <1>1
    <3>1. PICK a \in Works : a = [w EXCEPT !.status = p]
      BY DEF Works
    <3>2. PICK b \in Works : b = [a EXCEPT !.reported = p]
      BY DEF Works
    <3>3. [b EXCEPT !.revision = n] \in Works
      BY <1>3 DEF Works
    <3>4. work' = [b EXCEPT !.revision = n]
      BY <1>1, <1>2, <3>0, <3>1, <3>2 DEF Works
    <3> QED
      BY <3>3, <3>4
  <2> QED
    BY <2>1, <2>2
<1>5. ASSUME NEW s \in statuses' PROVE s \in Reported /\ Traced(s)
  <2>1. CASE s \in statuses
    BY <2>1, FoundOld DEF Traced, Found, LiveInv, GitTypes
  <2>2. CASE s \notin statuses
    <3>1. PICK w \in work.listeners : s = [for |-> w, status |-> repo, revision |-> n,
                                          count |-> work.count]
      BY <2>2 DEF Report
    <3>2. s \in Reported
      BY <1>1, <1>3, <3>1 DEF Reported
    <3>3. New(s, work, work', repo')
      BY <1>2, <1>3, <1>4, <3>1 DEF New
    <3> QED
      BY <3>2, <3>3 DEF Traced
  <2> QED
    BY <2>1, <2>2
<1>6. Traced(work')
  BY <1>2, <1>3, <1>4 DEF Traced, New
<1>7. GitTypes'
  BY <1>2, <1>4, <1>5 DEF LiveInv, GitTypes
<1>8. \A x \in (statuses \cup latest \cup Held)' : Traced(x)
  BY <1>2, <1>5, <1>6, FoundOld DEF Traced, Found, Held
<1>9. Moves(watch')
  BY <1>2 DEF Moves, Alike
<1> QED
  BY <1>1, <1>2, <1>3, <1>4, <1>7, <1>8, <1>9, GitAlone

\* The workspace is as it was reported, its process reports nothing, or it is
\* closed.
Remains(w) == \/ Alike(w, work)
              \/ /\ w.status = Unknown /\ w.count = work.count
                 /\ w.revision = work.revision
              \/ w = Unopened(work.count + 1)

\* Then nothing new is reported.
LEMMA WorkLive ==
    ASSUME LiveInv, work' \in Works, UNCHANGED <<repo, latest, watch>>,
           statuses' \subseteq statuses, Remains(work')
    PROVE  /\ GitTypes' /\ repo <= repo' /\ Moves(watch')
           /\ \/ work'.count > work.count
              \/ work'.count = work.count /\ work'.revision >= work.revision
           /\ \A x \in (statuses \cup latest \cup Held)' : Traced(x)
<1>1. GitTypes' /\ repo <= repo'
  BY DEF LiveInv, GitTypes
<1>2. work.revision \in Int /\ work.count \in Int
  BY DEF LiveInv, GitTypes, Works
<1>3. Moves(watch')
  BY DEF Moves, Alike
<1>4. \/ work'.count > work.count
      \/ work'.count = work.count /\ work'.revision >= work.revision
  BY <1>2 DEF Remains, Alike, Unopened
<1>5. ASSUME NEW x \in Held' PROVE Old(x)
  <2>1. x = work' /\ work'.status # Unknown
    BY DEF Held
  <2>2. Alike(work', work)
    BY <2>1 DEF Remains, Unopened
  <2>3. work \in Held
    BY <2>1, <2>2 DEF Held, Alike
  <2> QED
    BY <2>1, <2>2, <2>3 DEF Old, Found
<1>6. \A x \in (statuses \cup latest)' : Old(x)
  BY FoundOld DEF Found
<1> QED
  BY <1>1, <1>3, <1>4, <1>5, <1>6 DEF Traced

\* A workspace that is opened anew.
LEMMA UnopenedWorks ==
    ASSUME NEW n \in Nat
    PROVE  Unopened(n) \in Works
<1>1. Unknown \in Int /\ {} \in SUBSET Nat
  BY DEF Unknown
<1> QED
  BY <1>1 DEF Unopened, Works

\* The host process exits or begins, or the workspace is closed.
LEMMA ProcessLive ==
    ASSUME LiveInv, UNCHANGED <<channel, stream>>,
           ProcessExits \/ ProcessStarts \/ CloseWorkspace
    PROVE  LiveInv' /\ Forward
<1>1. work \in Works
  BY DEF LiveInv, GitTypes
<1>2. CASE ProcessExits
  <2>1. work' = [work EXCEPT !.process = FALSE, !.status = Unknown,
                             !.reported = Unknown]
    BY <1>2 DEF ProcessExits
  <2>2. /\ work'.status = Unknown /\ work'.count = work.count
        /\ work'.revision = work.revision
    BY <1>1, <2>1 DEF Works
  <2>3. work' \in Works
    <3>1. Unknown \in Int
      BY DEF Unknown
    <3>2. PICK a \in Works : a = [work EXCEPT !.process = FALSE]
      BY <1>1 DEF Works
    <3>3. PICK b \in Works : b = [a EXCEPT !.status = Unknown]
      BY <3>1 DEF Works
    <3>4. [b EXCEPT !.reported = Unknown] \in Works
      BY <3>1 DEF Works
    <3>5. work' = [b EXCEPT !.reported = Unknown]
      BY <1>1, <2>1, <3>2, <3>3 DEF Works
    <3> QED
      BY <3>4, <3>5
  <2> QED
    BY <1>2, <2>2, <2>3, WorkLive, GitAlone DEF Remains, ProcessExits
<1>3. CASE ProcessStarts
  <2>1. work' = [work EXCEPT !.process = TRUE]
    BY <1>3 DEF ProcessStarts
  <2>2. Alike(work', work)
    BY <1>1, <2>1 DEF Works, Alike
  <2>3. work' \in Works
    BY <1>1, <2>1 DEF Works
  <2> QED
    BY <1>3, <2>2, <2>3, WorkLive, GitAlone DEF Remains, ProcessStarts
<1>4. CASE CloseWorkspace
  <2>1. work' = Unopened(work.count + 1)
    BY <1>4 DEF CloseWorkspace
  <2>2. work' \in Works
    BY <1>1, <2>1, UnopenedWorks DEF Works
  <2> QED
    BY <1>4, <2>1, <2>2, WorkLive, GitAlone DEF Remains, CloseWorkspace
<1> QED
  BY <1>2, <1>3, <1>4

\* A watch goes live as it is, or is cleared.
LEMMA SetLiveMoves ==
    ASSUME NEW w \in WatchRecords, NEW live \in BOOLEAN
    PROVE  /\ SetLive(w, live) \in WatchRecords
           /\ \/ Alike(SetLive(w, live), w)
              \/ ~live /\ ~SetLive(w, live).live /\ SetLive(w, live).revision <= 0
           /\ live => Alike(SetLive(w, live), w)
<1>0. Unknown \in Int
  BY DEF Unknown
<1>1. CASE w.live = live
  <2>1. SetLive(w, live) = w
    BY <1>1 DEF SetLive
  <2> QED
    BY <2>1 DEF Alike
<1>2. CASE w.live # live /\ live
  <2>1. SetLive(w, live) = [w EXCEPT !.live = TRUE]
    BY <1>2 DEF SetLive
  <2>2. [w EXCEPT !.live = TRUE] \in WatchRecords
    BY DEF WatchRecords
  <2>3. Alike([w EXCEPT !.live = TRUE], w)
    BY DEF WatchRecords, Alike
  <2> QED
    BY <2>1, <2>2, <2>3
<1>3. CASE w.live # live /\ ~live
  <2> DEFINE v == [w EXCEPT !.live = FALSE, !.status = Unknown, !.revision = -1]
  <2>1. SetLive(w, live) = v
    BY <1>3 DEF SetLive
  <2>2. v \in WatchRecords
    <3>1. PICK a \in WatchRecords : a = [w EXCEPT !.live = FALSE]
      BY DEF WatchRecords
    <3>2. PICK b \in WatchRecords : b = [a EXCEPT !.status = Unknown]
      BY <1>0 DEF WatchRecords
    <3>3. [b EXCEPT !.revision = -1] \in WatchRecords
      BY DEF WatchRecords
    <3>4. v = [b EXCEPT !.revision = -1]
      BY <3>1, <3>2 DEF WatchRecords
    <3> QED
      BY <3>3, <3>4
  <2>3. ~v.live /\ v.revision <= 0
    BY DEF WatchRecords
  <2> HIDE DEF v
  <2> QED
    BY <1>3, <2>1, <2>2, <2>3
<1> QED
  BY <1>1, <1>2, <1>3

\* A status replaces what the watch holds.
LEMMA TakesStatus ==
    ASSUME NEW w \in WatchRecords, NEW s, s.status \in Int, s.revision \in Nat,
           s.count \in Nat
    PROVE  Takes(w, s) \in WatchRecords /\ Alike(Takes(w, s), s)
<1>1. PICK st \in Int, re \in Int, co \in Nat :
          st = s.status /\ re = s.revision /\ co = s.count
  OBVIOUS
<1> DEFINE v == [w EXCEPT !.status = st, !.revision = re, !.count = co]
<1>2. Takes(w, s) = v
  BY <1>1 DEF Takes
<1>3. v \in WatchRecords
  <2>1. PICK a \in WatchRecords : a = [w EXCEPT !.status = st]
    BY DEF WatchRecords
  <2>2. PICK b \in WatchRecords : b = [a EXCEPT !.revision = re]
    BY DEF WatchRecords
  <2>3. [b EXCEPT !.count = co] \in WatchRecords
    BY DEF WatchRecords
  <2>4. v = [b EXCEPT !.count = co]
    BY <2>1, <2>2 DEF WatchRecords
  <2> QED
    BY <2>3, <2>4
<1>4. v.status = st /\ v.revision = re /\ v.count = co
  BY DEF WatchRecords
<1> HIDE DEF v
<1> QED
  BY <1>1, <1>2, <1>3, <1>4 DEF Alike

\* A pushed status is taken if its revision is higher.
LEMMA PushMoves ==
    ASSUME GitTypes, NEW s \in statuses \cup latest, PushStatus(s)
    PROVE  watch' \in WatchRecords /\ Moves(watch')
<1>1. /\ watch \in WatchRecords /\ s \in Found /\ s \in Reported
      /\ watch.revision \in Int /\ s.revision \in Nat
  BY DEF GitTypes, Found, WatchRecords, Reported
<1>2. CASE watch' = watch
  BY <1>1, <1>2, Stays
<1>3. CASE watch' = Takes(watch, s) /\ ~ (s.revision <= watch.revision)
  <2>1. s.status \in Int /\ s.count \in Nat
    BY <1>1 DEF Reported
  <2>2. watch' \in WatchRecords /\ Alike(watch', s)
    BY <1>1, <1>3, <2>1, TakesStatus
  <2>3. s.revision >= watch.revision
    BY <1>1, <1>3
  <2> QED
    BY <1>1, <2>2, <2>3 DEF Moves
<1> QED
  BY <1>2, <1>3 DEF PushStatus, Pushed

\* A status arrives, in time or late.
LEMMA ArriveLive ==
    ASSUME LiveInv, UNCHANGED <<channel, stream>>,
           \/ \E s \in statuses, kept \in BOOLEAN : ArriveStatus(s, kept)
           \/ \E s \in latest : ArriveStatusLate(s)
    PROVE  LiveInv' /\ Forward
<1>1. PICK s \in statuses \cup latest : PushStatus(s)
  BY DEF ArriveStatus, ArriveStatusLate
<1>2. GitTypes /\ work.revision \in Int /\ repo \in Int
  BY DEF LiveInv, GitTypes, Works
<1>3. watch' \in WatchRecords /\ Moves(watch')
  BY <1>1, <1>2, PushMoves
<1>4. /\ UNCHANGED <<repo, work>>
      /\ statuses' \cup latest' \subseteq statuses \cup latest
  BY DEF ArriveStatus, ArriveStatusLate
<1>5. GitTypes'
  BY <1>2, <1>3, <1>4 DEF GitTypes
<1>6. (statuses \cup latest \cup Held)' \subseteq Found
  BY <1>4 DEF Held, Found
<1>7. \A x \in (statuses \cup latest \cup Held)' : Traced(x)
  BY <1>6, FoundOld DEF Traced
<1> QED
  BY <1>2, <1>3, <1>4, <1>5, <1>7, GitAlone

\* The broker's watch moves; the connector has no part in it, and nothing is
\* added to the journal.
LEMMA WatchLive ==
    ASSUME LiveInv, UNCHANGED stream, NEW t, t = timeline,
           ChannelTypes(Answers(t))',
           \/ journal' = journal
           \/ journal # <<>> /\ journal' = Tail(journal),
           UNCHANGED <<repo, work, statuses, latest>>,
           watch' \in WatchRecords, Moves(watch')
    PROVE  LiveInv' /\ Forward
<1>1. GitTypes' /\ work.revision \in Int /\ repo \in Int
  BY DEF LiveInv, GitTypes, Works
<1>2. Inspected' \subseteq Inspected
  BY InspectedKept DEF LiveInv, Sound
<1>3. (statuses \cup latest \cup Inspected \cup Held)' \subseteq Found
  BY <1>2 DEF Held, Found
<1>4. \A x \in (statuses \cup latest \cup Inspected \cup Held)' : Traced(x)
  BY <1>3, FoundOld DEF Traced
<1> QED
  BY <1>1, <1>4, GitStep

\* The answer to a watch is accepted.
LEMMA AcceptGitLive ==
    ASSUME LiveInv, UNCHANGED stream, AcceptGit
    PROVE  LiveInv' /\ Forward
<1> DEFINE a == Head(journal)
<1>1. PICK t : t = timeline
  OBVIOUS
<1>2. /\ ChannelTypes(Answers(t)) /\ watch \in WatchRecords /\ watch.revision \in Int
      /\ journal # <<>> /\ a.to.type = "watch"
  BY <1>1 DEF LiveInv, Sound, GitTypes, AcceptGit, WatchRecords
<1>3. <<>> \in Seq(Requests) /\ Accept(<<>>)
  BY DEF AcceptGit
<1>4. ChannelTypes(Answers(t))' /\ a \in Answers(t)
  BY <1>2, <1>3, AcceptTypes
<1>5. a.data \in Stamps /\ a.ok \in BOOLEAN
  BY <1>2, <1>4 DEF Answers, SessionCommands
<1>6. a.data \in Found
  <2>1. journal \in Seq(Answers(t))
    BY <1>2 DEF ChannelTypes
  <2>2. 1 \in DOMAIN journal /\ a = journal[1]
    BY <1>2, <2>1
  <2>3. a.data \in Inspected
    BY <1>2, <2>2 DEF Inspected
  <2> QED
    BY <2>3 DEF Found
<1>7. /\ a.data.status \in Int /\ a.data.revision \in Nat /\ a.data.count \in Nat
  BY <1>5 DEF Stamps
<1>8. watch' \in WatchRecords /\ Moves(watch')
  <2>1. CASE watch' = watch
    BY <1>2, <2>1, Stays
  <2>2. CASE watch' = SetLive(watch, FALSE)
    BY <1>2, <2>2, SetLiveMoves DEF Moves
  <2>3. CASE watch' = SetLive(watch, TRUE)
    BY <1>2, <2>3, SetLiveMoves DEF Moves
  <2>4. CASE watch' = SetLive(Takes(watch, a.data), TRUE)
              /\ ~ (a.data.revision < watch.revision)
    <3>1. PICK w \in WatchRecords : w = Takes(watch, a.data) /\ Alike(w, a.data)
      BY <1>2, <1>7, TakesStatus
    <3>2. watch' \in WatchRecords /\ Alike(watch', w)
      BY <2>4, <3>1, SetLiveMoves
    <3>3. Alike(watch', a.data)
      BY <3>1, <3>2 DEF Alike
    <3>4. a.data.revision >= watch.revision
      BY <1>2, <1>7, <2>4
    <3> QED
      BY <1>6, <3>2, <3>3, <3>4 DEF Moves
  <2> HIDE DEF a
  <2>5. \/ watch' = watch \/ watch' = SetLive(watch, FALSE)
        \/ watch' = Answered(watch, a.data)
    BY DEF AcceptGit, a
  <2> QED
    BY <2>1, <2>2, <2>3, <2>4, <2>5 DEF Answered
<1>9. journal' = Tail(journal) /\ UNCHANGED <<repo, work, statuses, latest>>
  BY DEF AcceptGit, Accept
<1> QED
  BY <1>1, <1>2, <1>4, <1>8, <1>9, WatchLive

\* No answer to a watch comes in time.
LEMMA ExpireGitLive ==
    ASSUME LiveInv, UNCHANGED stream, NEW command, ExpireGit(command)
    PROVE  LiveInv' /\ Forward
<1>1. PICK t : t = timeline
  OBVIOUS
<1>2. ChannelTypes(Answers(t))' /\ journal' = journal
  BY <1>1 DEF LiveInv, Sound, ChannelTypes, ExpireGit, Expire
<1>3. watch \in WatchRecords
  BY DEF LiveInv, GitTypes
<1>4. watch' = watch \/ watch' = SetLive(watch, FALSE)
  BY DEF ExpireGit
<1>5. watch' \in WatchRecords /\ Moves(watch')
  BY <1>3, <1>4, SetLiveMoves DEF Moves, Alike
<1>6. UNCHANGED <<repo, work, statuses, latest>>
  BY DEF ExpireGit
<1> QED
  BY <1>1, <1>2, <1>5, <1>6, WatchLive

\* What the broker asks about a watch.
LEMMA WatchCommand ==
    ASSUME NEW w \in Nat, link \in Links, NEW type \in {"watch", "unwatch"}
    PROVE  Command(type, w, "") \in Requests
  BY DEF Command, Requests, GitCommands, Links

\* A watch may be given up.
LEMMA NoWatchMoves == NoWatch \in WatchRecords /\ Moves(NoWatch)
  BY DEF NoWatch, Unknown, WatchRecords, Moves

\* A page opens.
LEMMA ListenLive ==
    ASSUME LiveInv, UNCHANGED stream, Listen
    PROVE  LiveInv' /\ Forward
<1>1. PICK t : t = timeline
  OBVIOUS
<1>2. ChannelTypes(Answers(t)) /\ watch \in WatchRecords /\ link \in Links
  BY <1>1 DEF LiveInv, Sound, GitTypes, ChannelTypes
<1>3. UNCHANGED <<repo, work, statuses, latest>>
  BY DEF Listen
<1>4. CASE watch.id # 0
  <2>1. /\ watch' = [watch EXCEPT !.listened = TRUE, !.leaving = FALSE]
        /\ UNCHANGED channel
    BY <1>4 DEF Listen
  <2>2. watch' \in WatchRecords /\ Moves(watch')
    BY <1>2, <2>1 DEF WatchRecords, Moves, Alike
  <2>3. ChannelTypes(Answers(t))' /\ journal' = journal
    BY <1>2, <2>1 DEF ChannelTypes, channel
  <2> QED
    BY <1>1, <1>3, <2>2, <2>3, WatchLive
<1>5. CASE watch.id = 0
  <2>1. PICK w \in UnusedWatches :
            /\ watch' = [NoWatch EXCEPT !.id = w, !.listened = TRUE,
                                        !.asked = link.channel]
            /\ Ask(Command("watch", w, "")) \/ UNCHANGED channel
    BY <1>5 DEF Listen
  <2>2. w \in Nat /\ link.channel \in Nat
    BY <1>2, WatchesAssumption DEF UnusedWatches, Links
  <2>3. watch' \in WatchRecords /\ Moves(watch')
    <3>1. PICK epoch \in Nat : epoch = link.channel
      BY <2>2
    <3>2. watch' = [NoWatch EXCEPT !.id = w, !.listened = TRUE, !.asked = epoch]
      BY <2>1, <3>1
    <3>3. NoWatch \in WatchRecords /\ ~NoWatch.live /\ NoWatch.revision <= 0
      BY NoWatchMoves DEF NoWatch
    <3>4. watch' \in WatchRecords
      BY <2>2, <3>2, <3>3 DEF WatchRecords
    <3>5. watch'.live = NoWatch.live /\ watch'.revision = NoWatch.revision
      BY <2>2, <3>2, <3>3 DEF WatchRecords
    <3> QED
      BY <3>3, <3>4, <3>5 DEF Moves
  <2>4. PICK c \in Requests : c = Command("watch", w, "")
    BY <1>2, <2>2, WatchCommand
  <2>5. ChannelTypes(Answers(t))' /\ journal' = journal
    <3>1. CASE Ask(c)
      BY <1>2, <3>1, AskTypes
    <3>2. CASE UNCHANGED channel
      BY <1>2, <3>2 DEF ChannelTypes, channel
    <3> QED
      BY <2>1, <2>4, <3>1, <3>2
  <2> QED
    BY <1>1, <1>3, <2>3, <2>5, WatchLive
<1> QED
  BY <1>4, <1>5

\* The last page closes, and the watch is given up.
LEMMA LeaveWatchLive ==
    ASSUME LiveInv, UNCHANGED stream, Unlisten \/ Release
    PROVE  LiveInv' /\ Forward
<1>1. PICK t : t = timeline
  OBVIOUS
<1>2. /\ ChannelTypes(Answers(t)) /\ watch \in WatchRecords /\ link \in Links
      /\ watch.id \in Nat
  BY <1>1 DEF LiveInv, Sound, GitTypes, ChannelTypes, WatchRecords
<1>3. UNCHANGED <<repo, work, statuses, latest>>
  BY DEF Unlisten, Release
<1>4. watch' \in WatchRecords /\ Moves(watch')
  BY <1>2, NoWatchMoves DEF Unlisten, Release, WatchRecords, Moves, Alike
<1>5. ChannelTypes(Answers(t))' /\ journal' = journal
  <2>1. CASE Unlisten
    BY <1>2, <2>1 DEF Unlisten, ChannelTypes, channel
  <2>2. CASE Release
    <3>1. PICK c \in Requests : c = Command("unwatch", watch.id, "")
      BY <1>2, WatchCommand
    <3>2. Tell(c)
      BY <2>2, <3>1 DEF Release
    <3> QED
      BY <1>2, <3>2, AskTypes
  <2> QED
    BY <2>1, <2>2
<1> QED
  BY <1>1, <1>3, <1>4, <1>5, WatchLive

\* The connector starts to watch, or ends it.
LEMMA StartGitLive ==
    ASSUME LiveInv, UNCHANGED stream, NEW lane \in {"git", "workspace"},
           lanes[lane] # <<>>, StartGit(Head(lanes[lane]))
    PROVE  LiveInv' /\ Forward
<1> DEFINE command == Head(lanes[lane])
<1>1. PICK t : t = timeline
  OBVIOUS
<1>2. ChannelTypes(Answers(t)) /\ work \in Works
  BY <1>1 DEF LiveInv, Sound, GitTypes
<1>3. lane \in Lanes /\ Start(command, command.type = "watch")
  BY DEF Lanes, StartGit
<1>4. /\ ChannelTypes(Answers(t))' /\ journal' = journal
      /\ command \in Requests
  BY <1>2, <1>3, StartTypes
<1>5. command.type = "watch" => command.for \in Nat
  BY <1>4 DEF Requests, SessionCommands, GitCommands
<1>6. UNCHANGED <<repo, statuses, latest, watch>>
  BY DEF StartGit
<1>7. work' \in Works /\ Alike(work', work)
  <2> HIDE DEF command
  <2>1. CASE command.type = "watch"
    <3>1. work' = [work EXCEPT !.open = TRUE, !.listeners = @ \cup {command.for}]
      BY <2>1 DEF StartGit, command
    <3>2. work.listeners \cup {command.for} \in SUBSET Nat
      BY <1>2, <1>5, <2>1 DEF Works
    <3> QED
      BY <1>2, <3>1, <3>2 DEF Works, Alike
  <2>2. CASE command.type # "watch"
    <3>1. work' = [work EXCEPT !.listeners = @ \ {command.for}]
      BY <2>2 DEF StartGit, command
    <3>2. work.listeners \ {command.for} \in SUBSET Nat
      BY <1>2 DEF Works
    <3> QED
      BY <1>2, <3>1, <3>2 DEF Works, Alike
  <2> QED
    BY <2>1, <2>2
<1>8. Inspected' = Inspected
  BY <1>4 DEF Inspected
<1>9. \A x \in Inspected' : Traced(x)
  BY <1>8, FoundOld DEF Traced, Found
<1>10. /\ GitTypes' /\ repo <= repo' /\ Moves(watch')
       /\ \/ work'.count > work.count
          \/ work'.count = work.count /\ work'.revision >= work.revision
       /\ \A x \in (statuses \cup latest \cup Held)' : Traced(x)
  <2>1. Remains(work')
    BY <1>7 DEF Remains
  <2> QED
    BY <1>6, <1>7, <2>1, WorkLive
<1> QED
  BY <1>1, <1>4, <1>9, <1>10, GitStep

\* The connector answers a watch.
LEMMA AnswerGitLive ==
    ASSUME LiveInv, UNCHANGED stream, NEW command \in running,
           Lane(command) = "git", NEW ok \in BOOLEAN, AnswerGit(command, ok)
    PROVE  LiveInv' /\ Forward
<1>1. PICK t : t = timeline
  OBVIOUS
<1>2. /\ ChannelTypes(Answers(t)) /\ work \in Works /\ repo \in Nat
      /\ work.revision \in Nat /\ work.count \in Nat /\ work.status \in Int
  BY <1>1 DEF LiveInv, Sound, GitTypes, Works
<1>3. command \in GitCommands
  <2>1. command \in Requests
    BY <1>2 DEF ChannelTypes
  <2>2. \A c \in SessionCommands : Lane(c) # "git"
    BY LaneTypes
  <2> QED
    BY <2>1, <2>2 DEF Requests
<1>4. PICK data \in Stamps : /\ Answer(command, ok, data)
                             /\ 0 < data.revision => Alike(data, work) /\ work \in Held
  <2>1. CASE work.status # Unknown
    <3>1. Stamped(work.status, work.revision) \in Stamps
      BY <1>2 DEF Stamped, Stamps
    <3>2. Alike(Stamped(work.status, work.revision), work) /\ work \in Held
      BY <2>1 DEF Stamped, Alike, Held
    <3> QED
      BY <2>1, <3>1, <3>2 DEF AnswerGit
  <2>2. CASE work.status = Unknown
    <3>1. PICK status \in 0 .. repo : Answer(command, ok, Stamped(status, 0))
      BY <2>2 DEF AnswerGit
    <3>2. Stamped(status, 0) \in Stamps /\ ~ (0 < Stamped(status, 0).revision)
      BY <1>2 DEF Stamped, Stamps
    <3> QED
      BY <3>1, <3>2
  <2> QED
    BY <2>1, <2>2
<1> DEFINE a == [to |-> command, ok |-> ok, data |-> data]
<1>5. a \in Answers(t)
  BY <1>3 DEF Answers
<1>6. ChannelTypes(Answers(t))'
  BY <1>2, <1>4, <1>5, AnswerTypes
<1>7. Inspected' \subseteq Inspected \cup {data}
  <2>1. journal \in Seq(Answers(t)) /\ journal' = Append(journal, a)
    BY <1>2, <1>4 DEF ChannelTypes, Answer
  <2>2. \A i \in DOMAIN journal' : \/ i \in DOMAIN journal /\ journal'[i] = journal[i]
                                   \/ journal'[i] = a
    BY <1>5, <2>1
  <2>3. a.data = data
    OBVIOUS
  <2> HIDE DEF a
  <2> QED
    BY <2>2, <2>3 DEF Inspected
<1>8. UNCHANGED <<repo, work, statuses, latest, watch>>
  BY DEF AnswerGit, git
<1>9. Traced(data)
  BY <1>4 DEF Traced, Old, Found
<1>10. (statuses \cup latest \cup Inspected \cup Held)' \subseteq Found \cup {data}
  BY <1>7, <1>8 DEF Held, Found
<1>11. \A x \in (statuses \cup latest \cup Inspected \cup Held)' : Traced(x)
  BY <1>9, <1>10, FoundOld DEF Traced
<1>12. GitTypes' /\ Moves(watch') /\ repo <= repo'
  BY <1>2, <1>8, Stays DEF GitTypes, LiveInv, Moves
<1> QED
  BY <1>1, <1>2, <1>6, <1>8, <1>11, <1>12, GitStep
-----------------------------------------------------------------------------
(* The connection, which concerns the sessions and the watch together.     *)

\* A step of both that adds no answer.
LEMMA BothStep ==
    ASSUME LiveInv, Sound', journal' = journal, GitTypes', repo <= repo',
           \/ work'.count > work.count
           \/ work'.count = work.count /\ work'.revision >= work.revision,
           \A x \in (statuses \cup latest \cup Held)' : Traced(x),
           Moves(watch')
    PROVE  LiveInv' /\ Forward
<1>1. Inspected' = Inspected
  BY DEF Inspected
<1>2. \A x \in Inspected' : Traced(x)
  BY <1>1, FoundOld DEF Traced, Found
<1> QED
  BY <1>2, GitNext DEF LiveInv

\* The same where only the broker's watch is concerned.
LEMMA BothWatch ==
    ASSUME LiveInv, Sound', journal' = journal,
           UNCHANGED <<repo, work, statuses, latest>>,
           watch' \in WatchRecords, Moves(watch')
    PROVE  LiveInv' /\ Forward
<1>1. GitTypes' /\ work.revision \in Int /\ repo \in Int
  BY DEF LiveInv, GitTypes, Works
<1>2. (statuses \cup latest \cup Held)' \subseteq Found
  BY DEF Held, Found
<1>3. \A x \in (statuses \cup latest \cup Held)' : Traced(x)
  BY <1>2, FoundOld DEF Traced
<1> QED
  BY <1>1, <1>3, BothStep

\* A connection begins with nothing watched; the connector dies.
LEMMA BeginLive ==
    ASSUME LiveInv, BeginConnection \/ Crash
    PROVE  LiveInv' /\ Forward
<1>1. PICK t : t = timeline
  OBVIOUS
<1>2. ChannelTypes(Answers(t)) /\ work \in Works /\ work.count \in Nat
  BY <1>1 DEF LiveInv, Sound, GitTypes, Works
<1>3. ChannelTypes(Answers(t))' /\ journal' = journal
  <2>1. CASE ReadSync
    BY <1>2, <2>1, ReadTypes
  <2>2. CASE Die
    BY <1>2, <2>2, ConnectionEnds
  <2> QED
    BY <2>1, <2>2 DEF BeginConnection, Crash
<1>4. Sound'
  BY <1>1, <1>3, BeginSessionsSound DEF LiveInv, BeginConnection, Crash
<1>5. UNCHANGED <<repo, latest, watch>> /\ statuses' \subseteq statuses
  BY DEF BeginConnection, Crash, BeginWatches, DieWatches
<1>6. work' \in Works /\ Remains(work')
  <2>1. CASE BeginConnection
    <3>1. work' = [work EXCEPT !.listeners = {}]
      BY <2>1 DEF BeginConnection, BeginWatches
    <3> QED
      BY <1>2, <3>1 DEF Works, Alike, Remains
  <2>2. CASE Crash
    <3>1. work' = Unopened(work.count + 1)
      BY <2>2 DEF Crash, DieWatches
    <3> QED
      BY <1>2, <3>1, UnopenedWorks DEF Remains
  <2> QED
    BY <2>1, <2>2
<1>7. /\ GitTypes' /\ repo <= repo' /\ Moves(watch')
      /\ \/ work'.count > work.count
         \/ work'.count = work.count /\ work'.revision >= work.revision
      /\ \A x \in (statuses \cup latest \cup Held)' : Traced(x)
  BY <1>5, <1>6, WorkLive
<1> QED
  BY <1>3, <1>4, <1>7, BothStep

\* The connection breaks, or a command is read.
LEMMA BreakLive ==
    ASSUME LiveInv, ReadCommand \/ Break
    PROVE  LiveInv' /\ Forward
<1>1. PICK t : t = timeline
  OBVIOUS
<1>2. ChannelTypes(Answers(t))' /\ journal' = journal
  <2>1. CASE Read
    BY <1>1, <2>1, ReadTypes DEF LiveInv, Sound
  <2>2. CASE Lose
    BY <1>1, <2>2, ConnectionEnds DEF LiveInv, Sound
  <2> QED
    BY <2>1, <2>2 DEF ReadCommand, Break
<1>3. UNCHANGED <<stream, git>>
  BY DEF ReadCommand, Break
<1>4. Sound'
  BY <1>1, <1>2, <1>3, SoundAside DEF LiveInv, Sound
<1> QED
  BY <1>2, <1>3, <1>4, GitAside DEF LiveInv

\* The server notices that the connector is gone, gives up waiting for it, or
\* is replaced.
LEMMA EndsLive ==
    ASSUME LiveInv, Noticed \/ Disconnected \/ ServerRestart
    PROVE  LiveInv' /\ Forward
<1>1. PICK t : t = timeline
  OBVIOUS
<1>2. ChannelTypes(Answers(t))' /\ journal' = journal
  BY <1>1, ConnectionEnds DEF LiveInv, Sound, Noticed, Disconnected, ServerRestart
<1>3. StreamTypes /\ t \in Cursors /\ t.epoch > 0 /\ watch \in WatchRecords
  BY <1>1 DEF LiveInv, Sound, StreamTypes, GitTypes
<1>4. Sound'
  <2>1. CASE UNCHANGED stream
    BY <1>1, <1>2, <1>3, <2>1, SoundAside
  <2>2. CASE DisconnectSessions \/ ReplacedSessions
    <3>1. Subscribed(t)' /\ page' \in Pages(t)
      BY <1>1, <1>3, <2>2, RegisterSessionsTypes DEF StreamTypes
    <3>2. Rest
      BY <2>2 DEF DisconnectSessions, ReplacedSessions, Rest
    <3> QED
      BY <1>1, <1>2, <1>3, <3>1, <3>2, SoundNext
  <2> QED
    BY <2>1, <2>2 DEF Noticed, Disconnected, ServerRestart
<1>5. UNCHANGED <<repo, work, statuses, latest>>
  BY DEF Noticed, Disconnected, ServerRestart, UnregisterWatch, ReplacedWatch, git
<1>6. watch' \in WatchRecords /\ Moves(watch')
  <2>1. CASE watch' = watch
    BY <1>3, <2>1, Stays
  <2>2. CASE watch' = NoWatch
    BY <2>2, NoWatchMoves
  <2>3. CASE watch' = [SetLive(watch, FALSE) EXCEPT !.asked = 0]
    <3>1. PICK w \in WatchRecords :
              /\ w = SetLive(watch, FALSE)
              /\ Alike(w, watch) \/ (~w.live /\ w.revision <= 0)
      BY <1>3, SetLiveMoves
    <3> QED
      BY <2>3, <3>1 DEF WatchRecords, Moves, Alike
  <2> QED
    BY <2>1, <2>2, <2>3 DEF Noticed, Disconnected, ServerRestart, UnregisterWatch,
                            ReplacedWatch, git
<1> QED
  BY <1>2, <1>4, <1>5, <1>6, BothWatch

\* The connector is back.
LEMMA RegisteredLive ==
    ASSUME LiveInv, Registered
    PROVE  LiveInv' /\ Forward
<1> DEFINE epoch == link.drawn + 1
<1>1. PICK t : t = timeline
  OBVIOUS
<1>2. /\ ChannelTypes(Answers(t)) /\ StreamTypes /\ t \in Cursors /\ t.epoch > 0
      /\ watch \in WatchRecords /\ watch.id \in Nat
  BY <1>1 DEF LiveInv, Sound, StreamTypes, GitTypes, WatchRecords
<1>3. epoch \in Nat
  BY <1>2 DEF ChannelTypes, Links
<1> HIDE DEF epoch
<1>4. PICK resubscribed \in Seq(Requests), told \in Seq(Requests) :
          resubscribed = Resubscriptions(epoch) /\ told = Unwanted(epoch)
  BY <1>1, <1>2, <1>3, ResubscriptionTypes DEF StreamTypes
<1>5. PICK rewatched \in Seq(Requests) : rewatched = Rewatches(epoch)
  <2>1. CASE watch.id = 0
    <3>1. <<>> \in Seq(Requests)
      OBVIOUS
    <3> QED
      BY <2>1, <3>1 DEF Rewatches
  <2>2. CASE watch.id # 0
    <3>1. PICK c \in Requests : c = [type |-> "watch", for |-> watch.id, after |-> "",
                                     epoch |-> epoch]
      BY <1>2, <1>3 DEF Requests, GitCommands
    <3>2. <<c>> \in Seq(Requests)
      OBVIOUS
    <3> QED
      BY <2>2, <3>1, <3>2 DEF Rewatches
  <2> QED
    BY <2>1, <2>2
<1>6. PICK asked \in Seq(Requests) : asked = resubscribed \o rewatched
  BY ConcatProperties
<1>7. /\ Register(asked, told) /\ RegisterSessions(epoch) /\ RegisterWatch(epoch)
  BY <1>4, <1>5, <1>6 DEF Registered, epoch
<1>8. ChannelTypes(Answers(t))' /\ journal' = journal
  BY <1>2, <1>7, RegisterTypes
<1>9. Sound'
  <2>1. Subscribed(t)' /\ page' \in Pages(t)
    BY <1>1, <1>2, <1>3, <1>7, RegisterSessionsTypes DEF StreamTypes
  <2>2. Rest
    BY <1>7 DEF RegisterSessions, Rest
  <2> QED
    BY <1>1, <1>2, <1>8, <2>1, <2>2, SoundNext
<1>10. watch' \in WatchRecords /\ Moves(watch')
  <2>1. CASE watch' = watch
    BY <1>2, <2>1, Stays
  <2>2. CASE watch' = [SetLive(watch, FALSE) EXCEPT !.asked = epoch]
    <3>1. PICK w \in WatchRecords :
              /\ w = SetLive(watch, FALSE)
              /\ Alike(w, watch) \/ (~w.live /\ w.revision <= 0)
      BY <1>2, SetLiveMoves
    <3> QED
      BY <1>3, <2>2, <3>1 DEF WatchRecords, Moves, Alike
  <2> QED
    BY <1>7, <2>1, <2>2 DEF RegisterWatch
<1>11. UNCHANGED <<repo, work, statuses, latest>>
  BY <1>7 DEF RegisterWatch
<1> QED
  BY <1>8, <1>9, <1>10, <1>11, BothWatch
-----------------------------------------------------------------------------
(* The theorems.                                                           *)

LEMMA LiveInit == Init => LiveInv
<1> SUFFICES ASSUME Init PROVE LiveInv
  OBVIOUS
<1>1. /\ timeline = Cursor(1, 0) /\ timeline \in Cursors /\ timeline.epoch = 1
  BY DEF Init, StreamInit, Cursor, Cursors
<1>2. PICK t \in Cursors : t = timeline /\ t.epoch > 0
  BY <1>1
<1>3. NoReplica \in Exact(t)
  BY <1>2, NothingExact
<1>4. <<>> \in Seq(Items(t)) /\ <<>> \in Seq(Hints(t)) /\ IsFiniteSet({})
  BY FS_EmptySet
<1>5. page \in Pages(t)
  BY <1>3, <1>4 DEF Init, StreamInit, Pages, Modes
<1>6. Subscribed(t)
  <2>1. subs = [s \in Subs |-> NoSub] /\ Active = {}
    BY DEF Init, StreamInit, Active
  <2> QED
    BY <1>4, <2>1 DEF Subscribed
<1>7. StreamTypes
  BY <1>1, <1>2, <1>4, <1>5, <1>6 DEF Init, StreamInit, StreamTypes
<1>8. ChannelTypes(Answers(t))
  <2>1. /\ <<>> \in Seq(Wired) /\ <<>> \in Seq(Requests) /\ <<>> \in Seq(Answers(t))
    OBVIOUS
  <2> QED
    BY <2>1 DEF Init, ChannelInit, ChannelTypes, Links
<1>9. GitTypes
  BY NoWatchMoves DEF Init, GitInit, GitTypes, Unopened, Unknown, Works
<1>10. GitInv
  <2>1. journal = <<>> /\ Inspected = {}
    BY DEF Init, ChannelInit, Inspected
  <2>2. Found = {NoWatch}
    BY <2>1 DEF Init, GitInit, Held, Unopened, Found
  <2>3. ~ (0 < NoWatch.revision)
    BY DEF NoWatch
  <2> QED
    BY <2>2, <2>3 DEF GitInv, Ages, NotAhead, InOrder
<1> QED
  BY <1>2, <1>7, <1>8, <1>9, <1>10 DEF LiveInv, Sound

\* A step of a session or of the page that shows it.
LEMMA SessionLive ==
    ASSUME LiveInv, Session \/ Page
    PROVE  LiveInv' /\ Forward
<1>1. /\ Sound' /\ UNCHANGED git
      /\ \/ journal' = journal
         \/ journal # <<>> /\ journal' = Tail(journal)
         \/ \E a : journal' = Append(journal, a) /\ a.to \in SessionCommands
  <2>1. CASE StartSessions
    BY <2>1, StartSessionSound DEF StartSessions, LiveInv
  <2>2. CASE AnswerSessions
    <3>1. PICK command \in running, ok \in BOOLEAN :
              Lane(command) = "session" /\ AnswerSession(command, ok)
      BY <2>2 DEF AnswerSessions, AnswersSession
    <3> QED
      BY <2>2, <3>1, AnswerSessionSound DEF AnswerSessions, LiveInv
  <2>3. CASE AcceptSessions
    BY <2>3, AcceptSessionSound DEF AcceptSessions, LiveInv
  <2>4. CASE (Commit \/ Rewind) /\ UNCHANGED channel /\ UNCHANGED git
    BY <2>4, CommitSound DEF LiveInv
  <2>5. CASE (Displace \/ Envelopes) /\ UNCHANGED channel /\ UNCHANGED git
    <3>1. Displace \/ ArriveLate \/ \E kept \in BOOLEAN : Arrive(kept)
      BY <2>5 DEF Envelopes
    <3> QED
      BY <2>5, <3>1, EnvelopeSound DEF LiveInv
  <2>6. CASE (View \/ Cut \/ Consume) /\ UNCHANGED git
    BY <2>6, ShowSound DEF LiveInv
  <2>7. CASE (Invalidate \/ Reopen) /\ UNCHANGED git
    BY <2>7, RequestSound DEF LiveInv
  <2>8. CASE Connect /\ UNCHANGED git
    BY <2>8, ConnectSound DEF LiveInv
  <2>9. CASE (\E s \in Subs : Leave(s)) /\ UNCHANGED git
    BY <2>9, LeaveSound DEF LiveInv
  <2>10. CASE Session
    BY <2>1, <2>2, <2>3, <2>4, <2>5, <2>10 DEF Session, Alone
  <2>11. CASE Page
    BY <2>6, <2>7, <2>8, <2>9, <2>11 DEF Page
  <2> QED
    BY <2>10, <2>11
<1> QED
  BY <1>1, GitAside DEF LiveInv

\* A step of the workspace, of its reports or of its watch.
LEMMA WorkspaceLive ==
    ASSUME LiveInv, Workspace
    PROVE  LiveInv' /\ Forward
<1>0. UNCHANGED stream
  BY DEF Workspace, StartWatches, AnswerWatches, AcceptWatches, Reports
<1>1. CASE StartWatches
  BY <1>0, <1>1, StartGitLive DEF StartWatches
<1>2. CASE AnswerWatches
  <2>1. PICK command \in running, ok \in BOOLEAN :
            Lane(command) = "git" /\ AnswerGit(command, ok)
    BY <1>2 DEF AnswerWatches, AnswersGit
  <2> QED
    BY <1>0, <2>1, AnswerGitLive
<1>3. CASE AcceptWatches
  BY <1>0, <1>3, AcceptGitLive DEF AcceptWatches
<1>4. CASE Change /\ UNCHANGED channel
  BY <1>0, <1>4, ChangeLive
<1>5. CASE Report /\ UNCHANGED channel
  BY <1>0, <1>5, ReportLive
<1>6. CASE (ProcessExits \/ ProcessStarts \/ CloseWorkspace) /\ UNCHANGED channel
  BY <1>0, <1>6, ProcessLive
<1>7. CASE /\ UNCHANGED channel
           /\ \/ \E s \in statuses, kept \in BOOLEAN : ArriveStatus(s, kept)
              \/ \E s \in latest : ArriveStatusLate(s)
  BY <1>0, <1>7, ArriveLive
<1>8. CASE \E command \in pending : ExpireGit(command)
  BY <1>0, <1>8, ExpireGitLive
<1>9. CASE Listen
  BY <1>0, <1>9, ListenLive
<1>10. CASE Unlisten \/ Release
  BY <1>0, <1>10, LeaveWatchLive
<1> QED
  BY <1>1, <1>2, <1>3, <1>4, <1>5, <1>6, <1>7, <1>8, <1>9, <1>10
  DEF Workspace, Reports, Alone

\* Every step keeps the invariant.
LEMMA LiveNext ==
    ASSUME LiveInv, [Next]_vars
    PROVE  LiveInv' /\ [Forward]_vars
<1>1. CASE Connection
  BY <1>1, BeginLive, BreakLive, EndsLive, RegisteredLive DEF Connection
<1>2. CASE Session \/ Page
  BY <1>2, SessionLive
<1>3. CASE Workspace
  BY <1>3, WorkspaceLive
<1>4. CASE UNCHANGED vars
  <2>1. UNCHANGED git /\ UNCHANGED stream /\ UNCHANGED channel
    BY <1>4 DEF vars
  <2>2. PICK t : t = timeline
    OBVIOUS
  <2>3. ChannelTypes(Answers(t))' /\ journal' = journal
    BY <2>1, <2>2 DEF LiveInv, Sound, ChannelTypes, channel
  <2>4. Sound'
    BY <2>1, <2>2, <2>3, SoundAside DEF LiveInv, Sound
  <2> QED
    BY <2>1, <2>3, <2>4, GitAside DEF LiveInv
<1> QED
  BY <1>1, <1>2, <1>3, <1>4 DEF Next

\* It holds always.
LEMMA LiveAlways == Spec => []LiveInv
<1>1. LiveInv /\ [Next]_vars => LiveInv'
  BY LiveNext
<1> QED
  BY LiveInit, <1>1, PTL DEF Spec

\* The replica a page shows is the connector's own transcript at some moment:
\* every event up to its cursor once and in order, and never one beyond what the
\* connector has committed, whatever is lost, repeated, late or refetched and
\* however often the connector, the server or the connection comes and goes
\* (applyEnvelopeToReplica(), the broker's subscriptions, agentSessions.ts).
THEOREM TranscriptsExact == Spec => []ReplicaExact
<1>1. LiveInv => ReplicaExact
  <2> SUFFICES ASSUME LiveInv PROVE ReplicaExact
    OBVIOUS
  <2>1. page.replica \in Exact(timeline)
    BY DEF LiveInv, Sound, StreamTypes, Pages
  <2>2. page.replica.cursor \in Past(timeline)
        /\ page.replica = Snapshot(page.replica.cursor)
    BY <2>1 DEF Exact
  <2> QED
    BY <2>2 DEF ReplicaExact, Past
<1> QED
  BY LiveAlways, <1>1, PTL

\* The Git status of a live watch never goes back while it is told of one and the
\* same numbering of revisions: neither the answer to the watch nor a status that
\* overtook it, came twice or came late shows an older repository than what is
\* shown (accept() and watchWorkspaceGit() of the broker, WatchedWorkspace).
THEOREM StatusNeverBack == Spec => StatusForward
<1>1. LiveInv /\ [Next]_vars
      => [Shows /\ watch'.live /\ watch'.id = watch.id /\ watch'.count = watch.count
          => watch'.status >= watch.status]_vars
  BY LiveNext DEF Forward
<1> QED
  BY LiveAlways, <1>1, PTL DEF Spec, StatusForward
=============================================================================
