-------------------------- MODULE Timeline_proofs --------------------------
(***************************************************************************)
(* Proofs about Timeline, for any number of subscribers, events, runtimes, *)
(* rewinds, deletions and crashes.                                         *)
(*                                                                         *)
(* The argument: what the store holds in memory is its file read again     *)
(* (MemoryInv), and a browser that follows the file's epoch has read a     *)
(* prefix of it (ViewInv), because a write is over before anybody is told  *)
(* of it, and content that does not continue what was there comes under an *)
(* epoch never used before (EpochInv).  Both rest on one fact about the    *)
(* envelopes: replaying some and then some more is replaying them all.     *)
(***************************************************************************)
EXTENDS Timeline, Induction, SequenceTheorems

-----------------------------------------------------------------------------
(* The inductive invariant.                                                *)

Logs      == Seq(Nat)
Deltas    == [kind : {"delta"}, offset : Nat, id : Nat]
Wholes    == [kind : {"turn", "snapshot"}, log : Logs]
Envelopes == Deltas \cup Wholes

Files  == [epoch : Nat, seq : Nat, base : Logs, records : Seq(Envelopes),
           torn : BOOLEAN]
States == [epoch : Nat, seq : Nat, log : Logs, events : Seq(Envelopes)]
Views  == [epoch : Nat, seq : Nat, log : Logs, reconcile : BOOLEAN]

Plain      == [op : {"open"}, log : Logs, replace : BOOLEAN]
              \cup [op : {"subscribe"}, who : Followers]
              \cup [op : {"release"}] \cup [op : {"delete"}]
Drains     == [op : {"drain"}, commits : Seq(Envelopes), then : Seq(Plain)]
Operations == Plain \cup Drains

Counts == [events : Nat, attaches : Nat, rewinds : Nat, deletes : Nat,
           subscribes : Nat, crashes : Nat]

QueueTypes ==
    /\ batch \in Seq(Envelopes) /\ buffered \in Seq(Envelopes)
    /\ tail \in Seq(Operations)
    /\ runtime \in Logs /\ counts \in Counts

StoreTypes ==
    /\ disk \in Files \cup {NoFile} /\ mem \in States \cup {NoState}
    /\ subs \subseteq Followers /\ view \in [Followers -> Views]
    /\ epochs \in Nat /\ fatal \in BOOLEAN

\* Memory is the file read again, and has subscribers only while it is held.
MemoryInv ==
    /\ mem = NoState => subs = {}
    /\ ~fatal /\ mem # NoState => /\ disk # NoFile /\ ~disk.torn
                                  /\ Reopened(disk) = mem

\* Epochs in use have been drawn.
EpochInv ==
    /\ disk # NoFile => disk.epoch <= epochs
    /\ mem # NoState => mem.epoch <= epochs
    /\ \A f \in Followers : view[f].epoch <= epochs

\* A view of the file's epoch is not ahead of the file, and, unless it is
\* older than the checkpoint, the file's content at its own position.
Reads(v, d) ==
    v.epoch = d.epoch =>
        /\ v.seq <= d.seq + Len(d.records)
        /\ v.seq >= d.seq =>
               v.log = Replay(d.base, SubSeq(d.records, 1, v.seq - d.seq))

ViewInv == disk # NoFile => \A f \in Followers : Reads(view[f], disk)

DiskInv == /\ QueueTypes /\ StoreTypes /\ MemoryInv /\ EpochInv
           /\ ViewInv /\ SubscribersCurrent

-----------------------------------------------------------------------------
(* Envelopes and what replaying them gives.                                *)

\* Joining sequences, as a relation, is associative.
Joined(a, b, ab) == ab = a \o b

\* Concatenation is associative, in the form the provers can use.
LEMMA Join ==
    ASSUME NEW S, NEW a \in Seq(S), NEW b \in Seq(S), NEW c \in Seq(S),
           NEW ab \in Seq(S), NEW bc \in Seq(S), NEW abc,
           Joined(a, b, ab), Joined(b, c, bc)
    PROVE  Joined(a, bc, abc) <=> Joined(ab, c, abc)
<1>1. (a \o b) \o c = a \o (b \o c)
  BY ConcatAssociative
<1> QED
  BY <1>1 DEF Joined

\* Two sequences have one concatenation.
LEMMA JoinExists ==
    ASSUME NEW S, NEW a \in Seq(S), NEW b \in Seq(S)
    PROVE  \E ab \in Seq(S) : Joined(a, b, ab)
  BY ConcatProperties DEF Joined

\* And no other.
LEMMA JoinUnique ==
    ASSUME NEW a, NEW b, NEW c, NEW d, Joined(a, b, c), Joined(a, b, d)
    PROVE  c = d
  BY DEF Joined

\* Numbers of deltas, one after the other.
LEMMA IdsFacts ==
    ASSUME NEW q \in Seq(Deltas)
    PROVE  /\ Ids(q) \in Logs /\ Len(Ids(q)) = Len(q)
           /\ \A i \in 1 .. Len(q) : Ids(q)[i] = q[i].id
<1>1. Len(q) \in Nat /\ DOMAIN q = 1 .. Len(q)
  OBVIOUS
<1>2. \A i \in 1 .. Len(q) : q[i] \in Deltas
  BY ElementOfSeq
<1>3. \A i \in 1 .. Len(q) : q[i].id \in Nat
  BY <1>2 DEF Deltas
<1> QED
  BY <1>1, <1>3 DEF Ids, Logs

\* The numbers of two sequences of deltas.
LEMMA IdsAppend ==
    ASSUME NEW a \in Seq(Deltas), NEW b \in Seq(Deltas)
    PROVE  Ids(a \o b) = Ids(a) \o Ids(b)
<1>1. PICK q \in Seq(Deltas) : q = a \o b
  BY ConcatProperties
<1>2. /\ Len(a) \in Nat /\ Len(b) \in Nat /\ Len(q) = Len(a) + Len(b)
      /\ \A i \in 1 .. Len(a) + Len(b) :
             q[i] = IF i <= Len(a) THEN a[i] ELSE b[i - Len(a)]
  BY <1>1, ConcatProperties, LenProperties
<1>3. PICK x \in Logs, y \in Logs, z \in Logs :
          /\ x = Ids(a) /\ Len(x) = Len(a) /\ \A i \in 1 .. Len(a) : x[i] = a[i].id
          /\ y = Ids(b) /\ Len(y) = Len(b) /\ \A i \in 1 .. Len(b) : y[i] = b[i].id
          /\ z = Ids(q) /\ Len(z) = Len(q) /\ \A i \in 1 .. Len(q) : z[i] = q[i].id
  <2>1. /\ Ids(a) \in Logs /\ Ids(b) \in Logs /\ Ids(q) \in Logs
        /\ Len(Ids(a)) = Len(a) /\ \A i \in 1 .. Len(a) : Ids(a)[i] = a[i].id
        /\ Len(Ids(b)) = Len(b) /\ \A i \in 1 .. Len(b) : Ids(b)[i] = b[i].id
        /\ Len(Ids(q)) = Len(q) /\ \A i \in 1 .. Len(q) : Ids(q)[i] = q[i].id
    BY IdsFacts
  <2> QED
    BY <2>1
<1>4. PICK w \in Logs : w = x \o y
  BY ConcatProperties DEF Logs
<1>5. /\ Len(w) = Len(a) + Len(b)
      /\ \A i \in 1 .. Len(a) + Len(b) :
             w[i] = IF i <= Len(a) THEN x[i] ELSE y[i - Len(a)]
  <2>1. /\ Len(x \o y) = Len(x) + Len(y)
        /\ \A i \in 1 .. Len(x) + Len(y) :
               (x \o y)[i] = IF i <= Len(x) THEN x[i] ELSE y[i - Len(x)]
    BY ConcatProperties DEF Logs
  <2> QED
    BY <1>3, <1>4, <2>1
<1>6. ASSUME NEW i \in 1 .. Len(a) + Len(b) PROVE z[i] = w[i]
  <2>1. z[i] = q[i].id
    BY <1>2, <1>3
  <2>2. CASE i <= Len(a)
    <3>1. i \in 1 .. Len(a)
      BY <1>2, <2>2
    <3> QED
      BY <1>2, <1>3, <1>5, <2>1, <2>2, <3>1
  <2>3. CASE ~(i <= Len(a))
    <3>1. i - Len(a) \in 1 .. Len(b)
      BY <1>2, <2>3
    <3> QED
      BY <1>2, <1>3, <1>5, <2>1, <2>3, <3>1
  <2> QED
    BY <2>2, <2>3
<1>7. z = w
  BY <1>2, <1>3, <1>5, <1>6, SeqEqual DEF Logs
<1> QED
  BY <1>1, <1>3, <1>4, <1>7

\* Sequences of deltas are sequences of envelopes.
LEMMA DeltaSeq == /\ Seq(Deltas) \subseteq Seq(Envelopes)
                  /\ \A e \in Wholes : <<e>> \in Seq(Envelopes)
<1>1. Deltas \subseteq Envelopes /\ Wholes \subseteq Envelopes
  BY DEF Envelopes
<1> QED
  BY <1>1, SeqMonotonic

\* Replaying deltas appends their numbers.
LEMMA ReplayDeltas ==
    ASSUME NEW log, NEW q \in Seq(Deltas)
    PROVE  Replay(log, q) = log \o Ids(q)
<1>1. \A i \in DOMAIN q : q[i] \in Deltas
  OBVIOUS
<1>2. {i \in DOMAIN q : q[i].kind # "delta"} = {}
  BY <1>1 DEF Deltas
<1> QED
  BY <1>2 DEF Replay

\* The last envelope that carries the whole content decides.
Parts(all, p, e, d) == all = (p \o <<e>>) \o d

\* Replaying envelopes of which one carries the whole content: that content,
\* and the deltas behind it.
LEMMA ReplayWhole ==
    ASSUME NEW log, NEW p \in Seq(Envelopes), NEW e \in Wholes, NEW d \in Seq(Deltas),
           NEW all, Parts(all, p, e, d)
    PROVE  Joined(e.log, Ids(d), Replay(log, all))
<1>1. PICK s \in Seq(Envelopes) : s = p \o <<e>>
  BY DeltaSeq, ConcatProperties
<1>2. PICK n \in Nat : n = Len(s) /\ n > 0 /\ s[n] = e
  <2>1. <<e>> \in Seq(Envelopes) /\ Len(<<e>>) = 1 /\ <<e>>[1] = e
    BY DeltaSeq
  <2>2. /\ Len(p) \in Nat /\ Len(s) = Len(p) + 1
        /\ s[Len(p) + 1] = <<e>>[Len(p) + 1 - Len(p)]
    BY <1>1, <2>1, ConcatProperties, LenProperties
  <2> QED
    BY <2>1, <2>2
<1>3. PICK q \in Seq(Envelopes) : q = s \o d
  BY DeltaSeq, ConcatProperties
<1>4. /\ Len(d) \in Nat /\ Len(q) = n + Len(d) /\ DOMAIN q = 1 .. n + Len(d)
      /\ q[n] = e
      /\ \A i \in n + 1 .. n + Len(d) : q[i] = d[i - n] /\ i - n \in 1 .. Len(d)
  <2>1. /\ Len(s \o d) = Len(s) + Len(d)
        /\ \A i \in 1 .. Len(s) + Len(d) :
               (s \o d)[i] = IF i <= Len(s) THEN s[i] ELSE d[i - Len(s)]
    BY DeltaSeq, ConcatProperties
  <2>2. Len(d) \in Nat /\ DOMAIN q = 1 .. Len(q)
    BY LenProperties
  <2> QED
    BY <1>2, <1>3, <2>1, <2>2
<1>5. \A i \in 1 .. Len(d) : d[i].kind = "delta"
  <2>1. \A i \in 1 .. Len(d) : d[i] \in Deltas
    BY ElementOfSeq
  <2> QED
    BY <2>1 DEF Deltas
<1>6. e.kind # "delta"
  BY DEF Wholes
<1> DEFINE W == {i \in DOMAIN q : q[i].kind # "delta"}
<1>7. n \in W /\ W \subseteq Int /\ \A y \in W : n >= y
  <2>1. n \in W
    BY <1>2, <1>4, <1>6
  <2>2. ASSUME NEW y \in W PROVE y \in Int /\ n >= y
    <3>1. y \in 1 .. n + Len(d) /\ q[y].kind # "delta"
      BY <1>4
    <3>2. CASE y > n
      <4>1. q[y] = d[y - n] /\ y - n \in 1 .. Len(d)
        <5>1. y \in n + 1 .. n + Len(d)
          BY <1>2, <1>4, <3>1, <3>2
        <5> QED
          BY <1>4, <5>1
      <4> QED
        BY <1>5, <3>1, <4>1
    <3>3. CASE ~(y > n)
      BY <1>2, <3>1, <3>3
    <3> QED
      BY <3>2, <3>3
  <2> QED
    BY <2>1, <2>2
<1>8. \A x \in W : (\A y \in W : x >= y) => x = n
  BY <1>7
<1> HIDE DEF W
<1>9. Max(W) = n
  BY <1>7, <1>8 DEF Max
<1>10. SubSeq(q, n + 1, Len(q)) = d
  <2>1. CASE Len(d) = 0
    <3>1. d = <<>>
      BY <2>1, EmptySeq
    <3>2. n + 1 \in Int /\ Len(q) \in Int /\ Len(q) < n + 1
      BY <1>4, <2>1
    <3>3. SubSeq(q, n + 1, Len(q)) = <<>>
      BY <3>2, SubSeqEmpty
    <3> QED
      BY <3>1, <3>3
  <2>2. CASE Len(d) # 0
    <3>1. n + 1 \in Len(s) + 1 .. Len(s) + Len(d) /\ Len(q) \in Len(s) + 1 .. Len(s) + Len(d)
      BY <1>2, <1>4, <2>2
    <3>2. d \in Seq(Envelopes)
      BY DeltaSeq
    <3>3. SubSeq(s \o d, n + 1, Len(q)) = SubSeq(d, n + 1 - Len(s), Len(q) - Len(s))
      BY <3>1, <3>2, SubSeqOfConcat2
    <3>4. n + 1 - Len(s) = 1 /\ Len(q) - Len(s) = Len(d)
      BY <1>2, <1>4
    <3> QED
      BY <1>3, <3>3, <3>4, SubSeqFull
  <2> QED
    BY <2>1, <2>2
<1>11. Replay(log, q) = e.log \o Ids(d)
  BY <1>4, <1>7, <1>9, <1>10 DEF Replay, W
<1>12. all = q
  BY <1>1, <1>3 DEF Parts
<1> QED
  BY <1>11, <1>12 DEF Joined

\* Either all envelopes are deltas, or there is such a last one.
LEMMA LastWhole ==
    ASSUME NEW q \in Seq(Envelopes)
    PROVE  \/ q \in Seq(Deltas)
           \/ \E p \in Seq(Envelopes), e \in Wholes, d \in Seq(Deltas) :
                  Parts(q, p, e, d)
<1> DEFINE W == {i \in 1 .. Len(q) : q[i] \notin Deltas}
<1>0. Len(q) \in Nat /\ \A i \in 1 .. Len(q) : q[i] \in Envelopes
  BY LenProperties, ElementOfSeq
<1>1. CASE W = {}
  <2>1. \A i \in 1 .. Len(q) : q[i] \in Deltas
    BY <1>1
  <2>2. SubSeq(q, 1, Len(q)) \in Seq(Deltas)
    BY <1>0, <2>1, SubSeqProperties
  <2> QED
    BY <2>2, SubSeqFull
<1>2. CASE W # {}
  <2>1. W \subseteq Nat /\ \A x \in W : x <= Len(q)
    BY <1>0
  <2>2. PICK n \in W : \A y \in W : n >= y
    <3> HIDE DEF W
    <3> QED
      BY <1>0, <1>2, <2>1, Greatest
  <2>3. \A i \in n + 1 .. Len(q) : q[i] \in Deltas
    BY <1>0, <2>1, <2>2
  <2>4. n \in 1 .. Len(q) /\ q[n] \in Wholes
    BY <1>0 DEF Envelopes
  <2> HIDE DEF W
  <2>5a. SubSeq(q, 1, n - 1) \in Seq(Envelopes)
    <3>1. \A i \in 1 .. n - 1 : q[i] \in Envelopes
      BY <1>0, <2>4
    <3>2. 1 \in Int /\ n - 1 \in Int
      BY <2>4
    <3> QED
      BY <3>1, <3>2, SubSeqProperties
  <2>5. PICK p \in Seq(Envelopes) : p = SubSeq(q, 1, n - 1)
    BY <2>5a
  <2>6a. SubSeq(q, n + 1, Len(q)) \in Seq(Deltas)
    <3>1. n + 1 \in Int /\ Len(q) \in Int
      BY <1>0, <2>4
    <3> QED
      BY <2>3, <3>1, SubSeqProperties
  <2>6. PICK d \in Seq(Deltas) : d = SubSeq(q, n + 1, Len(q))
    BY <2>6a
  <2>7. SubSeq(q, 1, n) = p \o <<q[n]>>
    <3>1. 1 \in 1 .. Len(q) /\ n \in 1 .. Len(q)
      BY <1>0, <2>4
    <3> QED
      BY <2>5, <3>1, SubSeqRecursiveSecond
  <2>8. SubSeq(q, 1, n) \o SubSeq(q, n + 1, Len(q)) = SubSeq(q, 1, Len(q))
    <3>1. 1 \in 1 .. Len(q) + 1 /\ n \in 1 - 1 .. Len(q) /\ Len(q) \in n .. Len(q)
      BY <1>0, <2>4
    <3> QED
      BY <3>1, ConcatAdjacentSubSeq
  <2>9. Parts(q, p, q[n], d)
    BY <2>6, <2>7, <2>8, SubSeqFull DEF Parts
  <2> QED
    BY <2>4, <2>9
<1> QED
  BY <1>1, <1>2
\* What is replayed is a content.
LEMMA ReplayLog ==
    ASSUME NEW log \in Logs, NEW q \in Seq(Envelopes)
    PROVE  Replay(log, q) \in Logs
<1>1. CASE q \in Seq(Deltas)
  <2>1. Replay(log, q) = log \o Ids(q) /\ Ids(q) \in Logs
    BY <1>1, ReplayDeltas, IdsFacts
  <2> QED
    BY <2>1, ConcatProperties DEF Logs
<1>2. CASE \E p \in Seq(Envelopes), e \in Wholes, d \in Seq(Deltas) :
               Parts(q, p, e, d)
  <2>1. PICK p \in Seq(Envelopes), e \in Wholes, d \in Seq(Deltas) :
            Parts(q, p, e, d)
    BY <1>2
  <2>2. Joined(e.log, Ids(d), Replay(log, q)) /\ Ids(d) \in Logs
    BY <2>1, ReplayWhole, IdsFacts
  <2>3. e.log \in Logs
    BY DEF Wholes
  <2> QED
    BY <2>2, <2>3, ConcatProperties DEF Logs, Joined
<1> QED
  BY <1>1, <1>2, LastWhole

\* The empty sequence.
LEMMA NoEnvelopes ==
    ASSUME NEW S
    PROVE  <<>> \in Seq(S) /\ Len(<<>>) = 0
  OBVIOUS

\* No envelopes change nothing.
LEMMA ReplayNothing ==
    ASSUME NEW log \in Logs
    PROVE  Replay(log, <<>>) = log
<1>1. Replay(log, <<>>) = log \o Ids(<<>>)
  BY NoEnvelopes, ReplayDeltas
<1>2. Ids(<<>>) \in Logs /\ Len(Ids(<<>>)) = 0
  BY NoEnvelopes, IdsFacts
<1>3. Ids(<<>>) = <<>>
  BY <1>2, EmptySeq DEF Logs
<1> QED
  BY <1>1, <1>3, ConcatEmptySeq DEF Logs

\* A snapshot alone is its content.
LEMMA ReplaySnapshot ==
    ASSUME NEW log, NEW e \in Wholes
    PROVE  Replay(log, <<e>>) = e.log
<1>1. <<e>> \in Seq(Envelopes)
  BY DeltaSeq
<1>2. Parts(<<e>>, <<>>, e, <<>>)
  BY <1>1, ConcatEmptySeq DEF Parts
<1>3. Joined(e.log, Ids(<<>>), Replay(log, <<e>>))
  BY <1>2, NoEnvelopes, ReplayWhole
<1>4. Ids(<<>>) \in Logs /\ Len(Ids(<<>>)) = 0
  BY NoEnvelopes, IdsFacts
<1>5. Ids(<<>>) = <<>>
  BY <1>4, EmptySeq DEF Logs
<1>6. e.log \in Seq(Nat)
  BY DEF Wholes, Logs
<1>7. e.log \o <<>> = e.log
  BY <1>6, ConcatEmptySeq
<1> QED
  BY <1>3, <1>5, <1>7 DEF Joined

\* Replaying some envelopes and then some more is replaying them all.
LEMMA ReplayAppend ==
    ASSUME NEW log \in Logs, NEW a \in Seq(Envelopes), NEW b \in Seq(Envelopes)
    PROVE  Replay(log, a \o b) = Replay(Replay(log, a), b)
<1>0. PICK q \in Seq(Envelopes) : q = a \o b
  BY ConcatProperties
<1>00. Joined(a, b, q)
  BY <1>0 DEF Joined
<1>1. CASE \E p \in Seq(Envelopes), e \in Wholes, d \in Seq(Deltas) :
               Parts(b, p, e, d)
  <2>1. PICK p \in Seq(Envelopes), e \in Wholes, d \in Seq(Deltas) :
            Parts(b, p, e, d)
    BY <1>1
  <2>2. PICK r \in Seq(Envelopes) : Joined(a, p, r)
    BY JoinExists
  <2>3. Parts(q, r, e, d)
    <3>1. PICK w \in Seq(Envelopes) : w = <<e>>
      BY DeltaSeq
    <3>2. d \in Seq(Envelopes)
      BY DeltaSeq
    <3>3. PICK s \in Seq(Envelopes) : Joined(p, w, s)
      BY JoinExists
    <3>4. PICK t \in Seq(Envelopes) : Joined(a, s, t)
      BY JoinExists
    <3>5. Joined(s, d, b)
      BY <2>1, <3>1, <3>3 DEF Joined, Parts
    <3>6. Joined(r, w, t)
      BY <2>2, <3>3, <3>4, Join
    <3>7. Joined(t, d, q)
      BY <1>00, <3>2, <3>4, <3>5, Join
    <3> QED
      BY <3>1, <3>6, <3>7 DEF Joined, Parts
  <2>4. Joined(e.log, Ids(d), Replay(log, q))
    BY <2>3, ReplayWhole
  <2>5. Joined(e.log, Ids(d), Replay(Replay(log, a), b))
    BY <2>1, ReplayWhole
  <2> QED
    BY <1>0, <2>4, <2>5, JoinUnique
<1>2. CASE b \in Seq(Deltas)
  <2>1. PICK x \in Logs : x = Replay(log, a)
    BY ReplayLog
  <2>2. PICK y \in Logs : y = Ids(b)
    BY <1>2, IdsFacts
  <2>3. Replay(Replay(log, a), b) = x \o y
    BY <1>2, <2>1, <2>2, ReplayDeltas
  <2>4. CASE a \in Seq(Deltas)
    <3>1. q \in Seq(Deltas)
      BY <1>0, <1>2, <2>4, ConcatProperties
    <3>2. PICK z \in Logs : z = Ids(a)
      BY <2>4, IdsFacts
    <3>3. PICK u \in Logs : u = Ids(q)
      BY <3>1, IdsFacts
    <3>4. Joined(z, y, u)
      BY <1>0, <1>2, <2>2, <2>4, <3>2, <3>3, IdsAppend DEF Joined
    <3>5. Joined(log, u, Replay(log, q))
      BY <3>1, <3>3, ReplayDeltas DEF Joined
    <3>6. Joined(log, z, x)
      BY <2>1, <2>4, <3>2, ReplayDeltas DEF Joined
    <3>7. Joined(x, y, Replay(log, q))
      BY <3>4, <3>5, <3>6, Join DEF Logs
    <3> QED
      BY <1>0, <2>3, <3>7 DEF Joined
  <2>5. CASE \E p \in Seq(Envelopes), e \in Wholes, d \in Seq(Deltas) :
                 Parts(a, p, e, d)
    <3>1. PICK p \in Seq(Envelopes), e \in Wholes, d \in Seq(Deltas) :
              Parts(a, p, e, d)
      BY <2>5
    <3>2. PICK w \in Seq(Envelopes) : w = <<e>>
      BY DeltaSeq
    <3>3. PICK s \in Seq(Envelopes) : Joined(p, w, s)
      BY JoinExists
    <3>4. PICK c \in Seq(Deltas) : c = d \o b
      BY <1>2, ConcatProperties
    <3>5. Joined(s, c, q)
      <4>1. d \in Seq(Envelopes) /\ c \in Seq(Envelopes)
        BY DeltaSeq
      <4>2. Joined(s, d, a)
        BY <3>1, <3>2, <3>3 DEF Joined, Parts
      <4>3. Joined(d, b, c)
        BY <3>4 DEF Joined
      <4> QED
        BY <1>00, <4>1, <4>2, <4>3, Join
    <3>6. Parts(q, p, e, c)
      BY <3>2, <3>3, <3>5 DEF Joined, Parts
    <3>7. PICK z \in Logs, u \in Logs : z = Ids(d) /\ u = Ids(c)
      BY IdsFacts
    <3>8. PICK l \in Logs : l = e.log
      BY DEF Wholes
    <3>9. Joined(z, y, u)
      BY <1>2, <2>2, <3>4, <3>7, IdsAppend DEF Joined
    <3>10. Joined(l, u, Replay(log, q))
      <4>1. Joined(e.log, Ids(c), Replay(log, q))
        BY <3>6, ReplayWhole
      <4> QED
        BY <3>7, <3>8, <4>1
    <3>11. Joined(l, z, x)
      <4>1. Joined(e.log, Ids(d), Replay(log, a))
        BY <3>1, ReplayWhole
      <4> QED
        BY <2>1, <3>7, <3>8, <4>1
    <3>12. Joined(x, y, Replay(log, q))
      BY <3>9, <3>10, <3>11, Join DEF Logs
    <3> QED
      BY <1>0, <2>3, <3>12 DEF Joined
  <2> QED
    BY <2>4, <2>5, LastWhole
<1> QED
  BY <1>1, <1>2, LastWhole

\* coalesceCommits() step by step: what it has kept of the first n commits.
Lasts(c, i) == \/ i = Len(c) \/ c[i].kind = "delta"
               \/ c[i].kind # c[i + 1].kind
Coalesces(k, c) ==
    /\ k[0] = <<>>
    /\ \A n \in 1 .. Len(c) :
           k[n] = IF Lasts(c, n) THEN Append(k[n - 1], c[n]) ELSE k[n - 1]
    /\ Coalesced(c) = k[Len(c)]

\* The function by which it is defined exists.
LEMMA Coalescing ==
    ASSUME NEW c \in Seq(Envelopes)
    PROVE  \E k : Coalesces(k, c)
<1> DEFINE S == Seq(Envelopes)
           Lasting(i) == Lasts(c, i)
           Kept(g) == g = [n \in 0 .. Len(c) |->
                              IF n = 0 THEN <<>>
                              ELSE IF Lasting(n) THEN Append(g[n - 1], c[n]) ELSE g[n - 1]]
           K == CHOOSE g : Kept(g)
           step == [n \in 1 .. Len(c) |->
                       [x \in S |-> IF Lasting(n) THEN Append(x, c[n]) ELSE x]]
<1>1. Coalesced(c) = K[Len(c)]
  BY DEF Coalesced, Lasts
<1>2. Len(c) \in Nat /\ \A i \in 1 .. Len(c) : c[i] \in Envelopes
  BY LenProperties, ElementOfSeq
<1>3. step \in [1 .. Len(c) -> [S -> S]] /\ <<>> \in S
  <2>1. \A n \in 1 .. Len(c), x \in S : Append(x, c[n]) \in S
    BY <1>2, AppendProperties
  <2> QED
    BY <2>1
<1>4. PICK f \in [0 .. Len(c) -> S] :
          f[0] = <<>> /\ \A k \in 1 .. Len(c) : f[k] = step[k][f[k - 1]]
  <2> HIDE DEF S, step
  <2>a. PICK N \in Nat, base \in S : N = Len(c) /\ base = <<>>
    BY <1>2, <1>3
  <2>b. Steps(step, N, S)
    BY <1>3, <2>a DEF Steps
  <2>c. PICK f \in [0 .. N -> S] : Runs(f, N, base, step)
    BY <2>b, Recursion
  <2> QED
    BY <2>a, <2>c DEF Runs
<1>5. Kept(f)
  <2> DEFINE g == [n \in 0 .. Len(c) |->
                      IF n = 0 THEN <<>>
                      ELSE IF Lasting(n) THEN Append(f[n - 1], c[n]) ELSE f[n - 1]]
  <2>1. ASSUME NEW n \in 0 .. Len(c) PROVE f[n] = g[n]
    <3>1. CASE n = 0
      BY <1>4, <3>1
    <3>2. CASE n # 0
      <4>1. n \in 1 .. Len(c) /\ n - 1 \in 0 .. Len(c)
        BY <1>2, <3>2
      <4>2. f[n] = step[n][f[n - 1]] /\ f[n - 1] \in S
        BY <1>4, <4>1
      <4> QED
        BY <3>2, <4>1, <4>2
    <3> QED
      BY <3>1, <3>2
  <2>2. DOMAIN f = 0 .. Len(c) /\ DOMAIN g = 0 .. Len(c)
    OBVIOUS
  <2> HIDE DEF S, step
  <2> QED
    BY <2>1, <2>2
<1>6. Kept(K)
  <2> HIDE DEF Kept
  <2> QED
    BY <1>5
<1>7. PICK k : k = K
  OBVIOUS
<1>8. /\ k[0] = <<>>
      /\ \A n \in 1 .. Len(c) :
             k[n] = IF Lasting(n) THEN Append(k[n - 1], c[n]) ELSE k[n - 1]
  <2>1. Kept(k)
    <3> HIDE DEF Kept, K
    <3> QED
      BY <1>6, <1>7
  <2> HIDE DEF Lasting
  <2>2. \A n \in 0 .. Len(c) :
            k[n] = IF n = 0 THEN <<>>
                   ELSE IF Lasting(n) THEN Append(k[n - 1], c[n]) ELSE k[n - 1]
    BY <2>1
  <2>3. 0 \in 0 .. Len(c) /\ \A n \in 1 .. Len(c) : n \in 0 .. Len(c) /\ n # 0
    BY <1>2
  <2>4. ASSUME NEW n \in 1 .. Len(c)
        PROVE  k[n] = IF Lasting(n) THEN Append(k[n - 1], c[n]) ELSE k[n - 1]
    BY <2>2, <2>3
  <2> QED
    BY <2>2, <2>3, <2>4
<1>9. Coalesced(c) = k[Len(c)]
  <2> HIDE DEF K
  <2> QED
    BY <1>1, <1>7
<1> QED
  BY <1>8, <1>9 DEF Coalesces

\* Coalescing envelopes gives envelopes.
LEMMA CoalescedType ==
    ASSUME NEW c \in Seq(Envelopes)
    PROVE  Coalesced(c) \in Seq(Envelopes)
<1> DEFINE S == Seq(Envelopes)
<1>1. PICK k : Coalesces(k, c)
  BY Coalescing
<1>2. Len(c) \in Nat /\ \A i \in 1 .. Len(c) : c[i] \in Envelopes
  BY LenProperties, ElementOfSeq
<1> DEFINE G == {n \in 0 .. Len(c) : k[n] \in S}
<1>3. 0 \in G
  <2>1. k[0] = <<>> /\ 0 \in 0 .. Len(c)
    BY <1>1, <1>2 DEF Coalesces
  <2> QED
    BY <2>1, EmptySeq
<1>4. ASSUME NEW n \in 0 .. Len(c) - 1, n \in G PROVE n + 1 \in G
  <2>1. n + 1 \in 1 .. Len(c) /\ n + 1 - 1 = n /\ k[n] \in S
    BY <1>2, <1>4
  <2>2. k[n + 1] = IF Lasts(c, n + 1) THEN Append(k[n], c[n + 1]) ELSE k[n]
    BY <1>1, <2>1 DEF Coalesces
  <2>3. Append(k[n], c[n + 1]) \in S
    BY <1>2, <2>1, AppendProperties
  <2>4. k[n + 1] \in S
    <3> HIDE DEF S
    <3> QED
      BY <2>1, <2>2, <2>3
  <2>5. n + 1 \in 0 .. Len(c)
    BY <1>2, <2>1
  <2> QED
    BY <2>4, <2>5
<1>5. 0 .. Len(c) \subseteq G
  <2> HIDE DEF G
  <2> QED
    BY <1>2, <1>3, <1>4, Induct
<1>6. Len(c) \in 0 .. Len(c)
  BY <1>2
<1>7. k[Len(c)] \in S
  BY <1>5, <1>6
<1> QED
  BY <1>1, <1>7 DEF Coalesces

-----------------------------------------------------------------------------
(* Files and what is read from them.                                       *)

LEMMA NotNothing ==
    /\ \A d \in Files : d # NoFile
    /\ \A m \in States : m # NoState
<1>1. ASSUME NEW d \in Files PROVE d # NoFile
  <2>1. "file" \notin DOMAIN d
    BY DEF Files
  <2>2. "file" \in DOMAIN NoFile
    BY DEF NoFile
  <2> QED
    BY <2>1, <2>2
<1>2. ASSUME NEW m \in States PROVE m # NoState
  <2>1. "state" \notin DOMAIN m
    BY DEF States
  <2>2. "state" \in DOMAIN NoState
    BY DEF NoState
  <2> QED
    BY <2>1, <2>2
<1> QED
  BY <1>1, <1>2

\* What a file holds is a state of the store.
LEMMA ReopenedType ==
    ASSUME NEW d \in Files
    PROVE  Reopened(d) \in States
<1>1. Replay(d.base, d.records) \in Logs
  <2>1. d.base \in Logs /\ d.records \in Seq(Envelopes)
    BY DEF Files
  <2> QED
    BY <2>1, ReplayLog
<1>2. d.epoch \in Nat /\ d.seq + Len(d.records) \in Nat
  <2>1. d.records \in Seq(Envelopes) /\ d.seq \in Nat /\ d.epoch \in Nat
    BY DEF Files
  <2>2. Len(d.records) \in Nat
    BY <2>1, LenProperties
  <2> QED
    BY <2>1, <2>2
<1>3. (IF d.torn THEN <<>> ELSE d.records) \in Seq(Envelopes)
  BY DEF Files
<1> QED
  BY <1>1, <1>2, <1>3 DEF Reopened, States

\* A checkpoint holds what it was written from.
LEMMA CheckpointFacts ==
    ASSUME NEW m \in States
    PROVE  /\ Checkpoint(m) \in Files /\ ~Checkpoint(m).torn
           /\ Checkpoint(m).epoch = m.epoch
           /\ Reopened(Checkpoint(m)) = [m EXCEPT !.events = <<>>]
<1>1. Checkpoint(m) \in Files /\ ~Checkpoint(m).torn /\ Checkpoint(m).epoch = m.epoch
  BY DEF Checkpoint, Files, States
<1>2. Replay(m.log, <<>>) = m.log
  <2>1. m.log \in Logs
    BY DEF States
  <2> QED
    BY <2>1, ReplayNothing
<1>3. m.seq + Len(<<>>) = m.seq
  BY NoEnvelopes DEF States
<1>4. Reopened(Checkpoint(m)) = [epoch |-> m.epoch, seq |-> m.seq, log |-> m.log,
                                 events |-> <<>>]
  BY <1>2, <1>3 DEF Checkpoint, Reopened
<1> QED
  BY <1>1, <1>4 DEF States

\* Repairing a torn file does not change what it holds.
LEMMA RepairedFacts ==
    ASSUME NEW d \in Files
    PROVE  /\ Repaired(d) \in Files /\ ~Repaired(d).torn
           /\ Repaired(d).epoch = d.epoch
           /\ Reopened(Repaired(d)) = Reopened(d)
<1>1. CASE d.torn
  <2>1. PICK m \in States : m = Reopened(d)
    BY ReopenedType
  <2>2. m.events = <<>> /\ m.epoch = d.epoch
    BY <1>1, <2>1 DEF Reopened
  <2>3. [m EXCEPT !.events = <<>>] = m
    BY <2>2 DEF States
  <2>4. Repaired(d) = Checkpoint(m)
    BY <1>1, <2>1 DEF Repaired
  <2> QED
    BY <2>1, <2>2, <2>3, <2>4, CheckpointFacts
<1>2. CASE ~d.torn
  BY <1>2 DEF Repaired
<1> QED
  BY <1>1, <1>2

\* A view that has read a file is not ahead of it, and has its content when
\* it is not behind.
Ends(v, m) == v.epoch = m.epoch => /\ v.seq <= m.seq
                                   /\ v.seq = m.seq => v.log = m.log

\* A view that reads a file as far as its own sequence ends in what the file is
\* reopened with, once it has come to its end.
LEMMA ReadsEnd ==
    ASSUME NEW d \in Files, NEW v \in Views, Reads(v, d)
    PROVE  Ends(v, Reopened(d))
<1>1. PICK r \in Seq(Envelopes), b \in Logs, s \in Nat :
          r = d.records /\ b = d.base /\ s = d.seq
  BY DEF Files
<1>2. PICK n \in Nat : n = Len(r)
  BY LenProperties
<1>3. SubSeq(r, 1, n) = r
  BY <1>2, SubSeqFull
<1>4. v.seq \in Nat
  BY DEF Views
<1>5. v.epoch = d.epoch => /\ v.seq <= s + n
                           /\ v.seq >= s => v.log = Replay(b, SubSeq(r, 1, v.seq - s))
  BY <1>1, <1>2 DEF Reads
<1>6. v.epoch = d.epoch /\ v.seq = s + n => v.log = Replay(b, r)
  <2> SUFFICES ASSUME v.epoch = d.epoch, v.seq = s + n PROVE v.log = Replay(b, r)
    OBVIOUS
  <2>1. v.seq >= s /\ v.seq - s = n
    OBVIOUS
  <2> QED
    BY <1>3, <1>5, <2>1
<1>7. /\ Reopened(d).epoch = d.epoch /\ Reopened(d).seq = s + n
      /\ Reopened(d).log = Replay(b, r)
  BY <1>1, <1>2 DEF Reopened
<1> QED
  BY <1>5, <1>6, <1>7 DEF Ends

\* Having the content at the end is having read a checkpoint taken there.
LEMMA ReadsCheckpoint ==
    ASSUME NEW m \in States, NEW v \in Views, Ends(v, m)
    PROVE  Reads(v, Checkpoint(m))
<1>1. m.seq \in Nat /\ v.seq \in Nat /\ m.log \in Logs
  BY DEF States, Views
<1>2. Replay(m.log, <<>>) = m.log
  BY <1>1, ReplayNothing
<1>3. SubSeq(<<>>, 1, 0) = <<>>
  BY SubSeqEmpty
<1>4. /\ Checkpoint(m).epoch = m.epoch /\ Checkpoint(m).seq = m.seq
      /\ Checkpoint(m).base = m.log /\ Checkpoint(m).records = <<>>
  BY DEF Checkpoint
<1>5. Len(<<>>) = 0
  BY NoEnvelopes
<1> SUFFICES ASSUME v.epoch = m.epoch
             PROVE  /\ v.seq <= m.seq + 0
                    /\ v.seq >= m.seq => v.log = Replay(m.log, SubSeq(<<>>, 1, v.seq - m.seq))
  BY <1>4, <1>5 DEF Reads
<1>6. v.seq <= m.seq /\ (v.seq = m.seq => v.log = m.log)
  BY DEF Ends
<1>7. ASSUME v.seq >= m.seq PROVE v.log = Replay(m.log, SubSeq(<<>>, 1, v.seq - m.seq))
  <2>1. v.seq = m.seq /\ v.seq - m.seq = 0
    BY <1>1, <1>6, <1>7
  <2> QED
    BY <1>2, <1>3, <1>6, <2>1
<1> QED
  BY <1>1, <1>6, <1>7

\* The state a file holds has read it.
LEMMA ReadsReset ==
    ASSUME NEW d \in Files
    PROVE  Reset(Reopened(d)) \in Views /\ Reads(Reset(Reopened(d)), d)
<1>1. PICK r \in Seq(Envelopes), b \in Logs, s \in Nat :
          r = d.records /\ b = d.base /\ s = d.seq
  BY DEF Files
<1>2. PICK n \in Nat : n = Len(r)
  BY LenProperties
<1>3. SubSeq(r, 1, n) = r
  BY <1>2, SubSeqFull
<1>4. PICK m \in States : m = Reopened(d)
  BY ReopenedType
<1>5. m.epoch = d.epoch /\ m.seq = s + n /\ m.log = Replay(b, r)
  BY <1>1, <1>2, <1>4 DEF Reopened
<1>6. Reset(m) \in Views
  BY DEF Reset, States, Views
<1>7. /\ Reset(m).epoch = d.epoch /\ Reset(m).seq = s + n
      /\ Reset(m).log = Replay(b, r)
  BY <1>5 DEF Reset
<1>8. s + n - s = n /\ s + n <= s + n
  OBVIOUS
<1>9. PICK v \in Views : v = Reset(m)
  BY <1>6
<1>10. Reads(v, d)
  <2>1. v.seq = s + n /\ v.seq - s = n /\ v.log = Replay(b, r)
    BY <1>7, <1>8, <1>9
  <2>2. v.log = Replay(b, SubSeq(r, 1, v.seq - s))
    BY <1>3, <2>1
  <2> QED
    BY <1>1, <1>2, <1>8, <2>1, <2>2 DEF Reads
<1> QED
  BY <1>4, <1>9, <1>10
\* What has read a file has read it with records appended, torn or not.
Appended(d, g, t) == [d EXCEPT !.records = @ \o g, !.torn = t]

\* Appending records keeps the epoch and whatever could be read before, and
\* reopening replays them.
LEMMA AppendedFacts ==
    ASSUME NEW d \in Files, NEW g \in Seq(Envelopes), NEW t \in BOOLEAN
    PROVE  /\ Appended(d, g, t) \in Files
           /\ Appended(d, g, t).epoch = d.epoch /\ Appended(d, g, t).torn = t
           /\ Reopened(Appended(d, g, t)).seq = Reopened(d).seq + Len(g)
           /\ Reopened(Appended(d, g, t)).log = Replay(Reopened(d).log, g)
           /\ \A v \in Views : Reads(v, d) => Reads(v, Appended(d, g, t))
<1>1. PICK r \in Seq(Envelopes), b \in Logs, s \in Nat :
          r = d.records /\ b = d.base /\ s = d.seq
  BY DEF Files
<1>2. PICK n \in Nat, k \in Nat : n = Len(r) /\ k = Len(g)
  BY LenProperties
<1>3. PICK q \in Seq(Envelopes) : q = r \o g /\ Len(q) = n + k
  BY <1>2, ConcatProperties
<1>4. PICK e \in Files : /\ e = Appended(d, g, t)
                         /\ e.epoch = d.epoch /\ e.seq = s /\ e.base = b
                         /\ e.records = q /\ e.torn = t
  <2>1. Appended(d, g, t) = [d EXCEPT !.records = q, !.torn = t]
    BY <1>1, <1>3 DEF Appended
  <2>2. PICK e : e = [d EXCEPT !.records = q, !.torn = t]
    OBVIOUS
  <2>3. /\ e \in Files /\ e.epoch = d.epoch /\ e.seq = s /\ e.base = b
        /\ e.records = q /\ e.torn = t
    BY <1>1, <2>2 DEF Files
  <2> QED
    BY <2>1, <2>2, <2>3
<1>5. Reopened(d).seq = s + n /\ Reopened(d).log = Replay(b, r)
  BY <1>1, <1>2 DEF Reopened
<1>6. Reopened(e).seq = s + (n + k) /\ Reopened(e).log = Replay(b, q)
  BY <1>3, <1>4 DEF Reopened
<1>7. Replay(b, q) = Replay(Replay(b, r), g)
  BY <1>3, ReplayAppend
<1>8. ASSUME NEW v \in Views, Reads(v, d) PROVE Reads(v, e)
  <2>1. v.seq \in Nat
    BY DEF Views
  <2>2. v.epoch = d.epoch => /\ v.seq <= s + n
                             /\ v.seq >= s => v.log = Replay(b, SubSeq(r, 1, v.seq - s))
    BY <1>1, <1>2, <1>8 DEF Reads
  <2>3. ASSUME v.seq >= s, v.seq <= s + n
        PROVE  SubSeq(q, 1, v.seq - s) = SubSeq(r, 1, v.seq - s)
    <3>1. PICK i \in 0 .. n : i = v.seq - s
      BY <2>1, <2>3
    <3>2. CASE i = 0
      <4>1. SubSeq(q, 1, i) = <<>> /\ SubSeq(r, 1, i) = <<>>
        BY <3>2, SubSeqEmpty
      <4> QED
        BY <3>1, <4>1
    <3>3. CASE i # 0
      <4>1. 1 \in 1 .. Len(r) /\ i \in 1 .. Len(r)
        BY <1>2, <3>3
      <4>2. SubSeq(r \o g, 1, i) = SubSeq(r, 1, i)
        BY <4>1, SubSeqOfConcat1
      <4> QED
        BY <1>3, <3>1, <4>2
    <3> QED
      BY <3>2, <3>3
  <2>4. v.epoch = e.epoch => /\ v.seq <= s + (n + k)
                             /\ v.seq >= s => v.log = Replay(b, SubSeq(q, 1, v.seq - s))
    <3> SUFFICES ASSUME v.epoch = e.epoch
                 PROVE  /\ v.seq <= s + (n + k)
                        /\ v.seq >= s =>
                               v.log = Replay(b, SubSeq(q, 1, v.seq - s))
      OBVIOUS
    <3>1. v.seq <= s + n
      BY <1>4, <2>2
    <3>2. ASSUME v.seq >= s PROVE v.log = Replay(b, SubSeq(q, 1, v.seq - s))
      <4>1. v.log = Replay(b, SubSeq(r, 1, v.seq - s))
        BY <1>4, <2>2, <3>2
      <4> QED
        BY <2>3, <3>1, <3>2, <4>1
    <3> QED
      BY <2>1, <3>1, <3>2
  <2> QED
    BY <1>3, <1>4, <2>4 DEF Reads
<1>9. Reopened(e).seq = Reopened(d).seq + k
  BY <1>5, <1>6
<1>10. Reopened(e).log = Replay(Reopened(d).log, g)
  BY <1>5, <1>6, <1>7
<1> QED
  BY <1>2, <1>4, <1>8, <1>9, <1>10

\* A whole file is left whole.
LEMMA AppendedWhole ==
    ASSUME NEW d \in Files, NEW g \in Seq(Envelopes), ~d.torn
    PROVE  /\ [d EXCEPT !.records = @ \o g] = Appended(d, g, FALSE)
           /\ Reopened(d).events = d.records
           /\ Reopened(Appended(d, g, FALSE)).events = Reopened(d).events \o g
<1>1. d.torn = FALSE
  BY DEF Files
<1>2. [d EXCEPT !.records = @ \o g] = Appended(d, g, FALSE)
  BY <1>1 DEF Appended, Files
<1>3. Reopened(d).events = d.records
  BY DEF Reopened
<1>4. PICK e : /\ e = Appended(d, g, FALSE)
               /\ e.records = d.records \o g /\ e.torn = FALSE
  <2>1. PICK q : q = d.records \o g
    OBVIOUS
  <2>2. Appended(d, g, FALSE) = [d EXCEPT !.records = q, !.torn = FALSE]
    BY <2>1 DEF Appended
  <2>3. PICK e : e = [d EXCEPT !.records = q, !.torn = FALSE]
    OBVIOUS
  <2>4. e.records = q /\ e.torn = FALSE
    BY <2>3 DEF Files
  <2> QED
    BY <2>1, <2>2, <2>3, <2>4
<1>5. Reopened(e).events = d.records \o g
  BY <1>4 DEF Reopened
<1> QED
  BY <1>2, <1>3, <1>4, <1>5

-----------------------------------------------------------------------------
(* From one file to the next.                                              *)

\* File e continues d: whoever has read d has read e, whose content is that
\* of d or comes at a later position.
Continues(d, e) ==
    /\ e.epoch = d.epoch
    /\ \A v \in Views : Reads(v, d) => Reads(v, e)
    /\ \/ Reopened(e).seq = Reopened(d).seq /\ Reopened(e).log = Reopened(d).log
       \/ Reopened(e).seq > Reopened(d).seq

\* What may happen to the file, with what becomes of the epochs.
Becomes(d, e, drawn) ==
    e # NoFile => \/ d # NoFile /\ Continues(d, e)
                  \/ e.epoch = epochs + 1 /\ drawn = epochs + 1

\* A file continues itself.
LEMMA ContinuesSame ==
    ASSUME NEW d \in Files
    PROVE  Continues(d, d)
  BY DEF Continues

\* Continuing a continuation is continuing.
LEMMA ContinuesTrans ==
    ASSUME NEW c \in Files, NEW d \in Files, NEW e \in Files,
           Continues(c, d), Continues(d, e)
    PROVE  Continues(c, e)
<1>1. /\ Reopened(c).seq \in Nat /\ Reopened(d).seq \in Nat
      /\ Reopened(e).seq \in Nat
  BY ReopenedType DEF States
<1> QED
  BY <1>1 DEF Continues

\* A checkpoint of the content, or of later content under the same epoch.
LEMMA ContinuesCheckpoint ==
    ASSUME NEW d \in Files, NEW m \in States, m.epoch = d.epoch,
           \/ m.seq > Reopened(d).seq
           \/ m.seq = Reopened(d).seq /\ m.log = Reopened(d).log
    PROVE  Continues(d, Checkpoint(m))
<1>1. PICK x \in States : x = Reopened(d)
  BY ReopenedType
<1>2. x.epoch = d.epoch
  BY <1>1 DEF Reopened
<1>3. x.seq \in Nat /\ m.seq \in Nat
  BY DEF States
<1>4. ASSUME NEW v \in Views, Reads(v, d) PROVE Reads(v, Checkpoint(m))
  <2>1. Ends(v, x)
    BY <1>1, <1>4, ReadsEnd
  <2>2. v.seq \in Nat
    BY DEF Views
  <2>3. Ends(v, m)
    BY <1>1, <1>2, <1>3, <2>1, <2>2 DEF Ends
  <2> QED
    BY <2>3, ReadsCheckpoint
<1>5. /\ Checkpoint(m).epoch = m.epoch
      /\ Reopened(Checkpoint(m)).seq = m.seq /\ Reopened(Checkpoint(m)).log = m.log
  BY CheckpointFacts DEF States
<1> QED
  BY <1>4, <1>5 DEF Continues

\* A repaired file continues the torn one: nothing whole is lost.
LEMMA ContinuesRepaired ==
    ASSUME NEW d \in Files
    PROVE  Continues(d, Repaired(d))
<1>1. CASE d.torn
  <2>1. PICK m \in States : m = Reopened(d) /\ m.epoch = d.epoch
    BY ReopenedType DEF Reopened
  <2>2. Repaired(d) = Checkpoint(m)
    BY <1>1, <2>1 DEF Repaired
  <2> QED
    BY <2>1, <2>2, ContinuesCheckpoint
<1>2. CASE ~d.torn
  BY <1>2, ContinuesSame DEF Repaired
<1> QED
  BY <1>1, <1>2

\* A file with more records continues the one before, cut off or not.
LEMMA ContinuesAppended ==
    ASSUME NEW d \in Files, NEW g \in Seq(Envelopes), NEW t \in BOOLEAN
    PROVE  Continues(d, Appended(d, g, t))
<1>1. PICK n \in Nat : n = Len(g)
  BY LenProperties
<1>2. PICK e \in Files :
          /\ e = Appended(d, g, t) /\ e.epoch = d.epoch
          /\ Reopened(e).seq = Reopened(d).seq + n
          /\ Reopened(e).log = Replay(Reopened(d).log, g)
          /\ \A v \in Views : Reads(v, d) => Reads(v, e)
  BY <1>1, AppendedFacts
<1>3. Reopened(d).seq \in Nat /\ Reopened(d).log \in Logs
  BY ReopenedType DEF States
<1>4. n = 0 => Reopened(e).log = Reopened(d).log
  <2> SUFFICES ASSUME n = 0 PROVE Reopened(e).log = Reopened(d).log
    OBVIOUS
  <2>1. g = <<>>
    BY <1>1, EmptySeq
  <2> QED
    BY <1>2, <1>3, <2>1, ReplayNothing
<1> QED
  BY <1>2, <1>3, <1>4 DEF Continues
-----------------------------------------------------------------------------
(* What the operations find and leave.                                     *)

LEMMA CurrentFacts ==
    ASSUME DiskInv, ~fatal
    PROVE  /\ mem # NoState => Current = mem /\ File = disk
           /\ disk = NoFile => Current = NoState /\ mem = NoState /\ File = NoFile
           /\ disk # NoFile =>
                  /\ disk \in Files /\ File \in Files /\ ~File.torn
                  /\ File.epoch = disk.epoch /\ Continues(disk, File)
                  /\ Current \in States /\ Reopened(File) = Current
                  /\ Current.epoch = disk.epoch
<1>1. CASE mem # NoState
  <2>1. /\ disk # NoFile /\ ~disk.torn /\ Reopened(disk) = mem
        /\ disk \in Files /\ mem \in States
    BY <1>1 DEF DiskInv, MemoryInv, StoreTypes
  <2>2. Current = mem /\ File = disk
    BY <1>1 DEF Current, File
  <2>3. mem.epoch = disk.epoch
    BY <2>1 DEF Reopened
  <2> QED
    BY <2>1, <2>2, <2>3, ContinuesSame
<1>2. CASE mem = NoState /\ disk = NoFile
  BY <1>2 DEF Current, File
<1>3. CASE mem = NoState /\ disk # NoFile
  <2>1. disk \in Files
    BY <1>3 DEF DiskInv, StoreTypes
  <2>2. Current = Reopened(disk) /\ File = Repaired(disk)
    BY <1>3 DEF Current, File
  <2>3. Reopened(disk).epoch = disk.epoch
    BY DEF Reopened
  <2> QED
    BY <1>3, <2>1, <2>2, <2>3, RepairedFacts, ReopenedType, ContinuesRepaired
<1> QED
  BY <1>1, <1>2, <1>3

\* The operation carried out, and what is left of the queue.
LEMMA HeadFacts ==
    ASSUME QueueTypes, tail # <<>>
    PROVE  /\ Head(tail) \in Operations /\ Tail(tail) \in Seq(Operations)
           /\ Head(tail).op = "drain" => Head(tail) \in Drains
           /\ Head(tail).op = "open" => Head(tail).log \in Logs
           /\ Head(tail).op = "subscribe" => Head(tail).who \in Followers
<1>1. PICK o \in Operations : o = Head(tail) /\ Tail(tail) \in Seq(Operations)
  BY HeadTailProperties DEF QueueTypes
<1>2. /\ o.op = "drain" => o \in Drains
      /\ o.op = "open" => o.log \in Logs
      /\ o.op = "subscribe" => o.who \in Followers
  BY DEF Operations, Plain, Drains
<1> QED
  BY <1>1, <1>2

\* What a drain commits are envelopes.
LEMMA GroupsType ==
    ASSUME QueueTypes, tail # <<>>, Head(tail).op = "drain"
    PROVE  Groups \in Seq(Envelopes)
<1>1. Head(tail).commits \in Seq(Envelopes)
  BY HeadFacts DEF Drains
<1> QED
  BY <1>1, CoalescedType DEF Groups

\* A state is what its four parts are.
IsState(x, e, s, l, q) ==
    /\ x = [epoch |-> e, seq |-> s, log |-> l, events |-> q]
    /\ x \in States
    /\ x.epoch = e /\ x.seq = s /\ x.log = l /\ x.events = q

\* A state with given components exists (an interface to its record).
LEMMA StateExists ==
    ASSUME NEW e \in Nat, NEW s \in Nat, NEW l \in Logs, NEW q \in Seq(Envelopes)
    PROVE  \E x \in States : IsState(x, e, s, l, q)
<1>1. PICK x : x = [epoch |-> e, seq |-> s, log |-> l, events |-> q]
  OBVIOUS
<1>2. x \in States /\ x.epoch = e /\ x.seq = s /\ x.log = l /\ x.events = q
  BY <1>1 DEF States
<1> QED
  BY <1>1, <1>2 DEF IsState

\* A drain leaves the same content in memory and in the file, and the file
\* continues the one before.
DrainLeaves(r) ==
    /\ r.mem \in States /\ r.disk \in Files /\ ~r.disk.torn
    /\ Reopened(r.disk) = r.mem /\ Continues(disk, r.disk)
    /\ r.mem.epoch = Current.epoch /\ r.mem.seq = Current.seq + Len(Groups)
    /\ r.mem.log = Replay(Current.log, Groups)
    /\ r.told = Told(Current.epoch, Current.seq + 1, Groups)

\* What drainPending() leaves in memory, on disk and with the subscribers
\* belongs together.
LEMMA DrainedFacts ==
    ASSUME DiskInv, ~fatal, tail # <<>>, Head(tail).op = "drain",
           Current # NoState, NEW checkpoint \in BOOLEAN
    PROVE  DrainLeaves(Drained(checkpoint))
<1>1. PICK d \in Files, m \in States :
          /\ d = File /\ m = Current /\ ~d.torn /\ d.epoch = m.epoch
          /\ Reopened(d) = m /\ disk \in Files /\ Continues(disk, d)
  BY CurrentFacts
<1>2. PICK g \in Seq(Envelopes) : g = Groups
  BY GroupsType DEF DiskInv
<1>3. PICK k \in Nat : k = Len(g)
  BY LenProperties
<1>4. PICK l \in Logs : l = Replay(m.log, g)
  <2>1. m.log \in Logs
    BY DEF States
  <2> QED
    BY <2>1, ReplayLog
<1>5. PICK q \in Seq(Envelopes) : q = m.events \o g
  <2>1. m.events \in Seq(Envelopes)
    BY DEF States
  <2> QED
    BY <2>1, ConcatProperties
<1>6. m.epoch \in Nat /\ m.seq \in Nat
  BY DEF States
<1>7. CASE checkpoint
  <2>r. PICK r \in Seq(Envelopes) : r = <<>>
    BY NoEnvelopes
  <2>0. PICK i \in Nat, j \in Nat : i = m.epoch /\ j = m.seq + k
    BY <1>6
  <2>1. PICK x \in States : IsState(x, i, j, l, r)
    BY StateExists
  <2>2. /\ x.epoch = m.epoch /\ x.seq = m.seq + k /\ x.log = l
        /\ [x EXCEPT !.events = <<>>] = x
    BY <2>r, <2>0, <2>1 DEF IsState
  <2>3. Drained(checkpoint) = [mem |-> x, disk |-> Checkpoint(x),
                               told |-> Told(m.epoch, m.seq + 1, g)]
    BY <1>1, <1>2, <1>3, <1>4, <1>7, <2>r, <2>0, <2>1 DEF Drained, IsState
  <2>4. /\ Checkpoint(x) \in Files /\ ~Checkpoint(x).torn
        /\ Reopened(Checkpoint(x)) = x
    BY <2>2, CheckpointFacts
  <2>5. Continues(d, Checkpoint(x))
    <3>1. k = 0 => l = m.log
      <4> SUFFICES ASSUME k = 0 PROVE l = m.log
        OBVIOUS
      <4>1. g = <<>>
        BY <1>3, EmptySeq
      <4>2. m.log \in Logs
        BY DEF States
      <4> QED
        BY <1>4, <4>1, <4>2, ReplayNothing
    <3>2. \/ x.seq > m.seq
          \/ x.seq = m.seq /\ x.log = m.log
      BY <1>6, <2>2, <3>1
    <3> QED
      BY <1>1, <2>2, <3>2, ContinuesCheckpoint
  <2>6. Continues(disk, Checkpoint(x))
    BY <1>1, <2>4, <2>5, ContinuesTrans
  <2> QED
    BY <1>1, <1>2, <1>3, <1>4, <2>2, <2>3, <2>4, <2>6 DEF DrainLeaves
<1>8. CASE ~checkpoint
  <2>0. PICK i \in Nat, j \in Nat : i = m.epoch /\ j = m.seq + k
    BY <1>6
  <2>1. PICK x \in States : IsState(x, i, j, l, q)
    BY StateExists
  <2>2. /\ x.epoch = m.epoch /\ x.seq = m.seq + k /\ x.log = l /\ x.events = q
    BY <2>0, <2>1 DEF IsState
  <2>3. PICK e \in Files :
            /\ e = Appended(d, g, FALSE) /\ e.epoch = d.epoch /\ e.torn = FALSE
            /\ Reopened(e).seq = m.seq + k /\ Reopened(e).log = l
            /\ Reopened(e).events = q /\ e = [d EXCEPT !.records = @ \o g]
    <3>1. PICK t \in BOOLEAN : t = FALSE
      OBVIOUS
    <3>2. /\ Appended(d, g, t) \in Files
          /\ Appended(d, g, t).epoch = d.epoch /\ Appended(d, g, t).torn = t
          /\ Reopened(Appended(d, g, t)).seq = Reopened(d).seq + Len(g)
          /\ Reopened(Appended(d, g, t)).log = Replay(Reopened(d).log, g)
      BY AppendedFacts
    <3>2a. PICK e \in Files : e = Appended(d, g, t)
      BY <3>2
    <3>3. e = [d EXCEPT !.records = @ \o g] /\ Reopened(e).events = Reopened(d).events \o g
      BY <1>1, <3>1, <3>2a, AppendedWhole
    <3> QED
      BY <1>1, <1>3, <1>4, <1>5, <3>1, <3>2, <3>2a, <3>3
  <2>4. Drained(checkpoint) = [mem |-> x, disk |-> e,
                               told |-> Told(m.epoch, m.seq + 1, g)]
    BY <1>1, <1>2, <1>3, <1>4, <1>5, <1>8, <2>0, <2>1, <2>3 DEF Drained, IsState
  <2>5. Reopened(e) = x
    BY <1>1, <2>0, <2>1, <2>3 DEF Reopened, IsState
  <2>6. Continues(disk, e)
    BY <1>1, <2>3, ContinuesAppended, ContinuesTrans
  <2>7. PICK w : /\ w = Drained(checkpoint)
                 /\ w.mem = x /\ w.disk = e /\ w.told = Told(m.epoch, m.seq + 1, g)
    BY <2>4
  <2>8. Reopened(w.disk) = w.mem /\ Continues(disk, w.disk) /\ ~w.disk.torn
    BY <2>3, <2>5, <2>6, <2>7
  <2>9. DrainLeaves(w)
    BY <1>1, <1>2, <1>3, <1>4, <2>2, <2>7, <2>8 DEF DrainLeaves
  <2> QED
    BY <2>7, <2>9
<1> QED
  BY <1>7, <1>8

\* Opening leaves a checkpoint: of a transcript under a new epoch, or of the
\* next position of the one there was.
OpenLeaves(r) ==
    /\ r.mem \in States /\ r.mem.events = <<>> /\ r.disk = Checkpoint(r.mem)
    /\ r.mem.log = Head(tail).log
    /\ \/ r.mem.epoch = epochs + 1
       \/ /\ disk # NoFile /\ Continues(disk, r.disk)
          /\ r.mem.epoch = Current.epoch /\ r.mem.seq = Current.seq + 1
    /\ Current # NoState =>
           r.told = Told(r.mem.epoch, r.mem.seq, <<Whole("snapshot", r.mem.log)>>)

\* So does what openSession() leaves.
LEMMA OpenedFacts ==
    ASSUME DiskInv, ~fatal, tail # <<>>, Head(tail).op = "open"
    PROVE  OpenLeaves(Opened)
<1>1. PICK l \in Logs : l = Head(tail).log
  BY HeadFacts DEF DiskInv
<1>2. epochs \in Nat
  BY DEF DiskInv, StoreTypes
<1>3. disk = NoFile => Current = NoState
  BY CurrentFacts
<1>4. disk # NoFile => disk \in Files /\ Current \in States /\ Current # NoState
  BY CurrentFacts, NotNothing
<1>5. CASE Current = NoState
  <2>r. PICK r \in Seq(Envelopes) : r = <<>>
    BY NoEnvelopes
  <2>0. PICK i \in Nat, j \in Nat : i = epochs + 1 /\ j = 0
    BY <1>2
  <2>1. PICK x \in States : IsState(x, i, j, l, r)
    BY StateExists
  <2>2. x.epoch = epochs + 1 /\ x.log = l /\ x.events = <<>>
    BY <2>r, <2>0, <2>1 DEF IsState
  <2>3. Opened.mem = x /\ Opened.disk = Checkpoint(x)
    BY <1>1, <1>5, <2>r, <2>0, <2>1 DEF Opened, IsState
  <2> QED
    BY <1>1, <1>5, <2>2, <2>3 DEF OpenLeaves
<1>6. CASE Current # NoState /\ Head(tail).replace
  <2>r. PICK r \in Seq(Envelopes) : r = <<>>
    BY NoEnvelopes
  <2>0. PICK i \in Nat, j \in Nat : i = epochs + 1 /\ j = 1
    BY <1>2
  <2>1. PICK x \in States : IsState(x, i, j, l, r)
    BY StateExists
  <2>2. x.epoch = epochs + 1 /\ x.log = l /\ x.events = <<>>
    BY <2>r, <2>0, <2>1 DEF IsState
  <2>3. /\ Opened.mem = x /\ Opened.disk = Checkpoint(x)
        /\ Opened.told = Told(x.epoch, x.seq, <<Whole("snapshot", l)>>)
    BY <1>1, <1>6, <2>r, <2>0, <2>1 DEF Opened, IsState
  <2> QED
    BY <1>1, <2>2, <2>3 DEF OpenLeaves
<1>7. CASE Current # NoState /\ ~Head(tail).replace
  <2>a. PICK m \in States : m = Current /\ m.epoch \in Nat /\ m.seq \in Nat
    BY <1>3, <1>4, <1>7 DEF States
  <2>r. PICK r \in Seq(Envelopes) : r = <<>>
    BY NoEnvelopes
  <2>0. PICK i \in Nat, j \in Nat : i = m.epoch /\ j = m.seq + 1
    BY <2>a
  <2>1. PICK x \in States : IsState(x, i, j, l, r)
    BY StateExists
  <2>2. x.epoch = m.epoch /\ x.seq = m.seq + 1 /\ x.log = l /\ x.events = <<>>
    BY <2>r, <2>0, <2>1 DEF IsState
  <2>3. /\ Opened.mem = x /\ Opened.disk = Checkpoint(x)
        /\ Opened.told = Told(x.epoch, x.seq, <<Whole("snapshot", l)>>)
    BY <1>1, <1>7, <2>a, <2>r, <2>0, <2>1 DEF Opened, IsState
  <2>4. PICK d \in Files : /\ d = File /\ Continues(disk, d) /\ Reopened(d) = m
                           /\ d.epoch = m.epoch /\ disk \in Files
    BY <1>3, <1>7, <2>a, CurrentFacts
  <2>5. x.seq > m.seq
    BY <2>a, <2>2
  <2>6. Continues(d, Checkpoint(x))
    BY <2>2, <2>4, <2>5, ContinuesCheckpoint
  <2>7. Continues(disk, Checkpoint(x))
    BY <2>4, <2>6, CheckpointFacts, ContinuesTrans
  <2> QED
    BY <1>1, <1>3, <1>7, <2>a, <2>2, <2>3, <2>7 DEF OpenLeaves
<1> QED
  BY <1>5, <1>6, <1>7

\* So does an operation that is cut off, whose epoch may be lost.
LEMMA LeftoverFacts ==
    ASSUME DiskInv, ~fatal, NEW e \in Leftovers
    PROVE  e \in Files \cup {NoFile} /\ Becomes(disk, e, epochs + 1)
<1>1. disk \in Files \cup {NoFile}
  BY DEF DiskInv, StoreTypes
<1>2. CASE e = disk
  BY <1>1, <1>2, ContinuesSame DEF Becomes
<1>3. CASE e = File
  BY <1>1, <1>3, CurrentFacts DEF Becomes
<1>4. CASE e = NoFile
  BY <1>4 DEF Becomes
<1>5. CASE tail # <<>> /\ Head(tail).op = "open" /\ e = Opened.disk
  <2>1. OpenLeaves(Opened)
    BY <1>5, OpenedFacts
  <2>2. e \in Files /\ e.epoch = Opened.mem.epoch
    BY <1>5, <2>1, CheckpointFacts DEF OpenLeaves
  <2> QED
    BY <1>5, <2>1, <2>2 DEF OpenLeaves, Becomes
<1>6. CASE /\ tail # <<>> /\ Head(tail).op = "drain" /\ Applicable
           /\ e = Drained(TRUE).disk
  <2>1. DrainLeaves(Drained(TRUE))
    BY <1>6, DrainedFacts DEF Applicable
  <2>2. disk # NoFile
    BY <1>6, CurrentFacts DEF Applicable
  <2> QED
    BY <1>6, <2>1, <2>2 DEF DrainLeaves, Becomes
<1>7. CASE /\ tail # <<>> /\ Head(tail).op = "drain" /\ Applicable
           /\ \E n \in 0 .. Len(Groups), t \in BOOLEAN :
                  e = Cut(n, t)
  <2>1. PICK n \in 0 .. Len(Groups), t \in BOOLEAN : e = Cut(n, t)
    BY <1>7
  <2>2. PICK g \in Seq(Envelopes) : g = Groups
    BY <1>7, GroupsType DEF DiskInv
  <2>3. SubSeq(g, 1, n) \in Seq(Envelopes)
    <3>1. Len(g) \in Nat /\ n \in 0 .. Len(g)
      BY <2>2, LenProperties
    <3>2. \A i \in 1 .. n : g[i] \in Envelopes
      BY <3>1, ElementOfSeq
    <3> QED
      BY <3>1, <3>2, SubSeqProperties
  <2>4. PICK h \in Seq(Envelopes) : h = SubSeq(Groups, 1, n)
    BY <2>2, <2>3
  <2>5. disk # NoFile /\ disk \in Files /\ File \in Files /\ Continues(disk, File)
    BY <1>7, CurrentFacts DEF Applicable
  <2>6. e = Appended(File, h, t)
    BY <2>1, <2>4 DEF Appended, Cut
  <2>7. e \in Files /\ Continues(disk, e)
    BY <2>5, <2>6, AppendedFacts, ContinuesAppended, ContinuesTrans
  <2> QED
    BY <2>5, <2>7 DEF Becomes
<1>8. \/ e = disk \/ e = File \/ e = NoFile
      \/ tail # <<>> /\ Head(tail).op = "open" /\ e = Opened.disk
      \/ /\ tail # <<>> /\ Head(tail).op = "drain" /\ Applicable
         /\ \/ e = Drained(TRUE).disk
            \/ \E n \in 0 .. Len(Groups), t \in BOOLEAN :
                   e = Cut(n, t)
  <2>1. CASE tail = <<>>
    BY <2>1 DEF Leftovers
  <2>2. CASE tail # <<>> /\ Head(tail).op = "open"
    BY <2>2 DEF Leftovers
  <2>3. CASE tail # <<>> /\ Head(tail).op = "drain" /\ Applicable
    <3>1. e \in {disk, File} \cup
                ({Drained(TRUE).disk}
                     \cup {Cut(n, FALSE) : n \in 0 .. Len(Groups)}
                     \cup {Cut(n, TRUE) : n \in 0 .. Len(Groups)})
      BY <2>3 DEF Leftovers
    <3> QED
      BY <2>3, <3>1
  <2>4. CASE /\ tail # <<>> /\ Head(tail).op # "open"
             /\ ~(Head(tail).op = "drain" /\ Applicable)
    BY <2>4 DEF Leftovers
  <2> QED
    BY <2>1, <2>2, <2>3, <2>4
<1> QED
  BY <1>2, <1>3, <1>4, <1>5, <1>6, <1>7, <1>8
-----------------------------------------------------------------------------
(* The queue.                                                              *)

LEMMA BumpType ==
    ASSUME counts \in Counts, NEW what, Bump(what),
           what \in {"events", "attaches", "rewinds", "deletes", "subscribes",
                     "crashes"}
    PROVE  counts' \in Counts
  BY DEF Bump, Counts

\* A drain is an operation of the queue.
LEMMA DrainType ==
    ASSUME NEW c \in Seq(Envelopes), NEW q \in Seq(Plain)
    PROVE  Drain(c, q) \in Operations
  BY DEF Drain, Drains, Operations

\* Queueing an operation keeps the types of queue and batch.
LEMMA CallType ==
    ASSUME QueueTypes, NEW o \in Plain, Call(o)
    PROVE  tail' \in Seq(Operations) /\ batch' \in Seq(Envelopes)
<1>1. CASE batch = <<>>
  <2>1. o \in Operations
    BY DEF Operations
  <2> QED
    BY <1>1, <2>1, AppendProperties DEF QueueTypes, Call
<1>2. CASE batch # <<>>
  <2>1. <<o>> \in Seq(Plain)
    OBVIOUS
  <2>2. Drain(batch, <<o>>) \in Operations
    BY <2>1, DrainType DEF QueueTypes
  <2>3. tail' = Append(tail, Drain(batch, <<o>>)) /\ batch' = <<>>
    BY <1>2 DEF Call
  <2> QED
    BY <2>2, <2>3, AppendProperties, NoEnvelopes DEF QueueTypes
<1> QED
  BY <1>1, <1>2

\* The operations that are queued as they are.
LEMMA PlainTypes ==
    /\ \A l \in Logs, b \in BOOLEAN : Open(l, b) \in Plain
    /\ \A f \in Followers : Follow(f) \in Plain
    /\ Release \in Plain /\ Delete \in Plain
  BY DEF Open, Follow, Release, Delete, Plain

\* Flushing the capture keeps the types of queue and batch.
LEMMA FlushType ==
    ASSUME QueueTypes, NEW goal, NEW p \in Seq(Envelopes), FlushCapture(goal, p)
    PROVE  tail' \in Seq(Operations) /\ batch' \in Seq(Envelopes)
<1>1. Drain(p, <<>>) \in Operations
  BY NoEnvelopes, DrainType
<1>2. \/ tail' = tail
      \/ tail' = Append(tail, Drain(p, <<>>))
  BY DEF FlushCapture
<1>3. Append(tail, Drain(p, <<>>)) \in Seq(Operations)
  BY <1>1, AppendProperties DEF QueueTypes
<1>4. batch' = <<>>
  BY DEF FlushCapture
<1> QED
  BY <1>2, <1>3, <1>4, NoEnvelopes DEF QueueTypes

\* So does the end of an attachment.
LEMMA AttachedType ==
    ASSUME QueueTypes, Attached
    PROVE  batch' \in Seq(Envelopes) /\ buffered' \in Seq(Envelopes)
  BY ConcatProperties, NoEnvelopes DEF Attached, QueueTypes

\* Every step keeps the types of what waits to be done.
LEMMA QueueStep ==
    ASSUME DiskInv, [Next]_vars
    PROVE  QueueTypes'
<1>0. /\ QueueTypes /\ batch \in Seq(Envelopes) /\ buffered \in Seq(Envelopes)
      /\ tail \in Seq(Operations) /\ runtime \in Logs /\ counts \in Counts
  BY DEF DiskInv, QueueTypes
<1>1. CASE UNCHANGED vars
  BY <1>0, <1>1 DEF vars, store, daemon, QueueTypes
<1>2. CASE Timer
  <2>1. Drain(batch, <<>>) \in Operations
    BY <1>0, NoEnvelopes, DrainType
  <2> QED
    BY <1>0, <1>2, <2>1, AppendProperties, NoEnvelopes DEF Timer, daemon, QueueTypes
<1>3. CASE RunDrain
  <2>1. tail # <<>> /\ Head(tail).op = "drain"
    BY <1>3 DEF RunDrain, Doing
  <2>2. Head(tail).then \in Seq(Plain) /\ Tail(tail) \in Seq(Operations)
    BY <1>0, <2>1, HeadFacts DEF Drains
  <2>3. Seq(Plain) \subseteq Seq(Operations)
    BY SeqMonotonic DEF Operations
  <2>4. Tail(tail) \o Head(tail).then \in Seq(Operations)
    BY <2>2, <2>3, ConcatProperties
  <2>5. /\ tail' = Tail(tail) \o Head(tail).then
        /\ UNCHANGED <<batch, buffered, runtime, counts>>
    BY <1>3 DEF RunDrain
  <2> QED
    BY <1>0, <2>4, <2>5 DEF QueueTypes
<1>4. CASE DrainFails \/ FlushPass
  BY <1>0, <1>4 DEF DrainFails, FlushPass, store, daemon, QueueTypes
<1>5. CASE RunOpen
  <2>1. Tail(tail) \in Seq(Operations)
    BY <1>0, <1>5, HeadFacts DEF RunOpen, Doing
  <2>2. Attached /\ tail' = Tail(tail) /\ UNCHANGED <<runtime, counts>>
    BY <1>5 DEF RunOpen
  <2> QED
    BY <1>0, <2>1, <2>2, AttachedType DEF QueueTypes
<1>6. CASE RunSubscribe \/ SubscribeFails \/ RunRelease \/ RunDelete
  <2>1. Tail(tail) \in Seq(Operations)
    BY <1>0, <1>6, HeadFacts
       DEF RunSubscribe, SubscribeFails, RunRelease, RunDelete, Doing
  <2>2. tail' = Tail(tail) /\ UNCHANGED <<batch, buffered, runtime, counts>>
    BY <1>6 DEF RunSubscribe, SubscribeFails, RunRelease, RunDelete, daemon
  <2> QED
    BY <1>0, <2>1, <2>2 DEF QueueTypes
<1>7. ASSUME NEW replace \in BOOLEAN, Attach(replace) PROVE QueueTypes'
  <2>1. runtime' \in Logs /\ counts' \in Counts
    <3>1. CASE replace
      <4>1. PICK i \in Nat : i = counts.events + 1
        BY <1>0 DEF Counts
      <4>2. <<i>> \in Logs
        BY DEF Logs
      <4>3. /\ runtime' = <<i>>
            /\ counts' = [counts EXCEPT !.attaches = @ + 1, !.events = @ + 1]
        BY <1>7, <3>1, <4>1 DEF Attach
      <4>4. counts' \in Counts
        <5>1. PICK j \in Nat : j = counts.attaches + 1
          BY <1>0 DEF Counts
        <5>2. counts' = [counts EXCEPT !.attaches = j, !.events = i]
          BY <4>1, <4>3, <5>1
        <5> QED
          BY <1>0, <5>2 DEF Counts
      <4> QED
        BY <4>2, <4>3, <4>4
    <3>2. CASE ~replace
      <4>1. runtime' = IF Current = NoState THEN <<>> ELSE Current.log
        BY <1>7, <3>2 DEF Attach
      <4>2. Bump("attaches")
        BY <1>7, <3>2 DEF Attach
      <4>3. Current # NoState => Current.log \in Logs
        <5>1. ~fatal
          BY <1>7 DEF Attach
        <5>2. disk = NoFile => Current = NoState
          BY <5>1, CurrentFacts
        <5>3. disk # NoFile => Current \in States
          BY <5>1, CurrentFacts
        <5> QED
          BY <5>2, <5>3 DEF States
      <4>4. <<>> \in Logs
        BY NoEnvelopes DEF Logs
      <4> QED
        BY <1>0, <4>1, <4>2, <4>3, <4>4, BumpType
    <3> QED
      BY <3>1, <3>2
  <2>2. PICK l \in Logs : l = runtime'
    BY <2>1
  <2>3. Call(Open(l, replace)) /\ UNCHANGED buffered
    BY <1>7, <2>2 DEF Attach
  <2>4. Open(l, replace) \in Plain
    BY PlainTypes
  <2>5. tail' \in Seq(Operations) /\ batch' \in Seq(Envelopes)
    BY <1>0, <2>3, <2>4, CallType
  <2> QED
    BY <1>0, <2>1, <2>3, <2>5 DEF QueueTypes
<1>8. ASSUME NEW kind \in Kinds, Publish(kind) PROVE QueueTypes'
  <2>1. PICK id \in Nat : id = counts.events + 1
    BY <1>0 DEF Counts
  <2>2. PICK l \in Logs : l = Append(runtime, id)
    BY <1>0, AppendProperties DEF Logs
  <2>3. PICK e \in Envelopes :
            e = IF kind = "delta" THEN Delta(Len(runtime), id)
                                  ELSE Whole(kind, Append(runtime, id))
    <3>1. Len(runtime) \in Nat
      BY <1>0, LenProperties DEF Logs
    <3>2. kind \in {"delta", "turn", "snapshot"}
      BY TimelineAssumption
    <3>3. CASE kind = "delta"
      <4>1. Delta(Len(runtime), id) \in Deltas
        BY <3>1 DEF Delta, Deltas
      <4> QED
        BY <3>3, <4>1 DEF Envelopes
    <3>4. CASE kind # "delta"
      <4>1. Whole(kind, l) \in Wholes
        BY <3>2, <3>4 DEF Whole, Wholes
      <4> QED
        BY <2>2, <3>4, <4>1 DEF Envelopes
    <3> QED
      BY <3>3, <3>4
  <2>4. /\ runtime' = l /\ Bump("events") /\ UNCHANGED tail
        /\ \/ buffered' = Append(buffered, e) /\ UNCHANGED batch
           \/ batch' = Append(batch, e) /\ UNCHANGED buffered
    BY <1>8, <2>1, <2>2, <2>3 DEF Publish
  <2>5. counts' \in Counts
    BY <1>0, <2>4, BumpType
  <2>6. batch' \in Seq(Envelopes) /\ buffered' \in Seq(Envelopes)
    <3>1. Append(buffered, e) \in Seq(Envelopes) /\ Append(batch, e) \in Seq(Envelopes)
      BY <1>0, AppendProperties
    <3> QED
      BY <1>0, <2>4, <3>1
  <2> QED
    BY <1>0, <2>4, <2>5, <2>6 DEF QueueTypes
<1>9. CASE Rewind
  <2>1. PICK n \in 0 .. Len(runtime) - 1 :
            /\ runtime' = SubSeq(runtime, 1, n)
            /\ FlushCapture("reopen", Append(batch, Whole("snapshot", runtime')))
    BY <1>9 DEF Rewind
  <2>2. SubSeq(runtime, 1, n) \in Logs
    <3>1. Len(runtime) \in Nat /\ n \in 0 .. Len(runtime)
      BY <1>0, LenProperties DEF Logs
    <3>2. \A i \in 1 .. n : runtime[i] \in Nat
      BY <1>0, <3>1, ElementOfSeq DEF Logs
    <3> QED
      BY <3>1, <3>2, SubSeqProperties DEF Logs
  <2>3. PICK l \in Logs : l = runtime'
    BY <2>1, <2>2
  <2>4. Whole("snapshot", l) \in Envelopes
    BY DEF Whole, Wholes, Envelopes
  <2>5. PICK q \in Seq(Envelopes) : q = Append(batch, Whole("snapshot", l))
    BY <1>0, <2>4, AppendProperties
  <2>6. FlushCapture("reopen", q)
    BY <2>1, <2>3, <2>5
  <2>7. Bump("rewinds") /\ UNCHANGED buffered
    BY <1>9 DEF Rewind
  <2>8. tail' \in Seq(Operations) /\ batch' \in Seq(Envelopes)
    BY <1>0, <2>6, FlushType
  <2>9. counts' \in Counts
    BY <1>0, <2>7, BumpType
  <2> QED
    BY <1>0, <2>3, <2>7, <2>8, <2>9 DEF QueueTypes
<1>10. CASE Reopen
  <2>1. /\ Call(Open(runtime, TRUE))
        /\ UNCHANGED <<buffered, runtime, counts>>
    BY <1>10 DEF Reopen
  <2>2. Open(runtime, TRUE) \in Plain
    BY <1>0, PlainTypes
  <2>3. tail' \in Seq(Operations) /\ batch' \in Seq(Envelopes)
    BY <1>0, <2>1, <2>2, CallType
  <2> QED
    BY <1>0, <2>1, <2>3 DEF QueueTypes
<1>11. ASSUME NEW goal \in RetireGoals, Retire(goal) PROVE QueueTypes'
  <2>1. FlushCapture(goal, batch) /\ UNCHANGED <<buffered, runtime>>
    BY <1>11 DEF Retire
  <2>2. tail' \in Seq(Operations) /\ batch' \in Seq(Envelopes)
    BY <1>0, <2>1, FlushType
  <2>3. Bump("deletes") \/ UNCHANGED counts
    BY <1>11 DEF Retire
  <2>4. counts' \in Counts
    BY <1>0, <2>3, BumpType
  <2> QED
    BY <1>0, <2>1, <2>2, <2>4 DEF QueueTypes
<1>12. ASSUME NEW goal \in RetireGoals, Retired(goal) PROVE QueueTypes'
  <2>1. /\ Call(Release) \/ Call(Delete) \/ UNCHANGED <<tail, batch>>
        /\ UNCHANGED <<buffered, runtime, counts>>
    BY <1>12 DEF Retired, RetireGoals
  <2>2. tail' \in Seq(Operations) /\ batch' \in Seq(Envelopes)
    BY <1>0, <2>1, PlainTypes, CallType
  <2> QED
    BY <1>0, <2>1, <2>2 DEF QueueTypes
<1>13. ASSUME NEW f \in Followers, Subscribe(f) PROVE QueueTypes'
  <2>1. Call(Follow(f)) /\ Bump("subscribes") /\ UNCHANGED <<buffered, runtime>>
    BY <1>13 DEF Subscribe, daemon
  <2>2. tail' \in Seq(Operations) /\ batch' \in Seq(Envelopes)
    BY <1>0, <2>1, PlainTypes, CallType
  <2>3. counts' \in Counts
    BY <1>0, <2>1, BumpType
  <2> QED
    BY <1>0, <2>1, <2>2, <2>3 DEF QueueTypes
<1>14. ASSUME NEW f \in Followers, Unsubscribe(f) PROVE QueueTypes'
  <2>1. /\ Call(Release) \/ UNCHANGED <<tail, batch>>
        /\ UNCHANGED <<buffered, runtime, counts>>
    BY <1>14 DEF Unsubscribe, daemon
  <2>2. tail' \in Seq(Operations) /\ batch' \in Seq(Envelopes)
    BY <1>0, <2>1, PlainTypes, CallType
  <2> QED
    BY <1>0, <2>1, <2>2 DEF QueueTypes
<1>15. CASE WriteFails
  <2>1. Bump("crashes") /\ batch' = <<>> /\ UNCHANGED <<tail, buffered, runtime>>
    BY <1>15 DEF WriteFails, daemon
  <2>2. counts' \in Counts
    BY <1>0, <2>1, BumpType
  <2> QED
    BY <1>0, <2>1, <2>2, NoEnvelopes DEF QueueTypes
<1>16. CASE Crash \/ Restart
  <2>1. StartsAnew /\ (Bump("crashes") \/ UNCHANGED counts)
    BY <1>16 DEF Crash, Restart
  <2>2. counts' \in Counts
    BY <1>0, <2>1, BumpType
  <2>3. batch' = <<>> /\ tail' = <<>> /\ buffered' = <<>> /\ runtime' = <<>>
    BY <2>1 DEF StartsAnew
  <2> QED
    BY <2>2, <2>3, NoEnvelopes DEF QueueTypes, Logs
<1> QED
  BY <1>1, <1>2, <1>3, <1>4, <1>5, <1>6, <1>7, <1>8, <1>9, <1>10, <1>11,
     <1>12, <1>13, <1>14, <1>15, <1>16 DEF Next, Operate
-----------------------------------------------------------------------------
(* What browsers are told.                                                 *)

\* A subscriber told of an operation has what the store has, or is left
\* behind under an epoch that is over, and knows it.
Follows(v, w, m) ==
    \/ w = Reset(m)
    \/ w = [v EXCEPT !.reconcile = TRUE] /\ v.epoch # m.epoch

\* What subscribers have before an operation.
LEMMA SubscriberFacts ==
    ASSUME DiskInv, ~fatal, NEW f \in subs
    PROVE  /\ f \in Followers /\ view[f] \in Views /\ view[f].epoch <= epochs
           /\ mem # NoState /\ mem \in States /\ Current = mem /\ mem.epoch <= epochs
           /\ \/ view[f] = Reset(mem)
              \/ view[f].reconcile /\ view[f].epoch # mem.epoch
<1>1. subs # {}
  OBVIOUS
<1>2. mem # NoState
  BY <1>1 DEF DiskInv, MemoryInv
<1>3. Current = mem
  BY <1>2, CurrentFacts
<1>4. f \in Followers /\ view[f] \in Views /\ mem \in States
  BY <1>2 DEF DiskInv, StoreTypes
<1>5. view[f].epoch <= epochs /\ mem.epoch <= epochs
  BY <1>2, <1>4 DEF DiskInv, EpochInv
<1> QED
  BY <1>2, <1>3, <1>4, <1>5 DEF DiskInv, SubscribersCurrent

\* A view that moves to the end of a state is that state.
LEMMA ResetMoves ==
    ASSUME NEW v \in Views, NEW x \in States, NEW s, NEW l,
           v.epoch = x.epoch, v.reconcile = FALSE, s = x.seq, l = x.log
    PROVE  [v EXCEPT !.seq = s, !.log = l] = Reset(x)
<1>1. PICK e, q : e = x.epoch /\ q = x.events
  OBVIOUS
<1>2. Reset(x) = [epoch |-> e, seq |-> s, log |-> l, reconcile |-> FALSE]
  BY <1>1 DEF Reset
<1>3. PICK w : w = [v EXCEPT !.seq = s, !.log = l]
  OBVIOUS
<1>4. /\ DOMAIN w = {"epoch", "seq", "log", "reconcile"}
      /\ w.epoch = e /\ w.seq = s /\ w.log = l /\ w.reconcile = FALSE
  BY <1>1, <1>3 DEF Views
<1>5. w = [k \in DOMAIN w |-> w[k]]
  BY <1>3
<1>6. w = [epoch |-> e, seq |-> s, log |-> l, reconcile |-> FALSE]
  BY <1>4, <1>5
<1> QED
  BY <1>2, <1>3, <1>6

\* A subscriber that follows the timeline follows it after a drain.
LEMMA DrainHeard ==
    ASSUME DiskInv, ~fatal, tail # <<>>, Head(tail).op = "drain", Applicable,
           NEW r, DrainLeaves(r), NEW f \in subs
    PROVE  Follows(view[f], Heard(view[f], r.told), r.mem)
<1>1. PICK g \in Seq(Envelopes) : g = Groups
  BY GroupsType DEF DiskInv
<1>2. PICK k \in Nat : k = Len(g)
  BY LenProperties
<1>3. PICK m \in States :
          /\ m = Current
          /\ \/ view[f] = Reset(m)
             \/ view[f].reconcile /\ view[f].epoch # m.epoch
  BY SubscriberFacts
<1>4. PICK v \in Views : v = view[f]
  BY SubscriberFacts
<1>5. PICK x \in States :
          /\ x = r.mem /\ x.epoch = m.epoch /\ x.seq = m.seq + k
          /\ x.log = Replay(m.log, g)
  BY <1>1, <1>2, <1>3 DEF DrainLeaves
<1>6. m.seq \in Nat /\ m.log \in Logs
  BY DEF States
<1>7. PICK told : /\ told = r.told
                  /\ told.epoch = m.epoch /\ told.first = m.seq + 1
                  /\ told.envelopes = g
  <2>1. r.told = Told(m.epoch, m.seq + 1, g)
    BY <1>1, <1>3 DEF DrainLeaves
  <2> QED
    BY <2>1 DEF Told
<1>8. CASE v = Reset(m)
  <2>1. v.epoch = m.epoch /\ v.seq = m.seq /\ v.log = m.log /\ v.reconcile = FALSE
    BY <1>8 DEF Reset
  <2>2. CASE g = <<>>
    <3>1. Heard(v, told) = v
      BY <1>7, <2>2 DEF Heard
    <3>2. k = 0
      BY <1>2, <2>2, NoEnvelopes
    <3>3. x.log = m.log /\ x.seq = m.seq
      BY <1>5, <1>6, <2>2, <3>2, ReplayNothing
    <3>4. Reset(x) = Reset(m)
      BY <1>5, <3>3 DEF Reset
    <3> QED
      BY <1>4, <1>5, <1>7, <1>8, <3>1, <3>4 DEF Follows
  <2>3. CASE g # <<>>
    <3>1. v.seq - told.first + 2 = 1
      BY <1>6, <1>7, <2>1
    <3>2. SubSeq(told.envelopes, v.seq - told.first + 2, Len(told.envelopes)) = g
      BY <1>7, <3>1, SubSeqFull
    <3>3. Applies(v.log, g)
      BY <1>1, <1>3, <2>1 DEF Applicable
    <3>4. told.first <= v.seq + 1
      BY <1>6, <1>7, <2>1
    <3>5. Heard(v, told) = [v EXCEPT !.seq = @ + Len(g), !.log = Replay(@, g)]
      BY <1>7, <2>1, <2>3, <3>2, <3>3, <3>4 DEF Heard
    <3>6. PICK s \in Nat : s = x.seq
      BY DEF States
    <3>7. PICK l : l = x.log
      OBVIOUS
    <3>8. Heard(v, told) = [v EXCEPT !.seq = s, !.log = l]
      BY <1>2, <1>5, <2>1, <3>5, <3>6, <3>7
    <3>9. [v EXCEPT !.seq = s, !.log = l] = Reset(x)
      BY <1>5, <2>1, <3>6, <3>7, ResetMoves, ZenonT(30)
    <3> QED
      BY <1>4, <1>5, <1>7, <3>8, <3>9 DEF Follows
  <2> QED
    BY <2>2, <2>3
<1>9. CASE v.reconcile /\ v.epoch # m.epoch
  <2>1. [v EXCEPT !.reconcile = TRUE] = v
    BY <1>9 DEF Views
  <2>2. Heard(v, told) = v
    BY <1>7, <1>9, <2>1 DEF Heard
  <2> QED
    BY <1>4, <1>5, <1>7, <1>9, <2>1, <2>2 DEF Follows
<1> QED
  BY <1>3, <1>4, <1>8, <1>9

\* And after the timeline was opened, unless it now asks for reconciliation.
LEMMA OpenHeard ==
    ASSUME DiskInv, ~fatal, NEW r, OpenLeaves(r), NEW f \in subs
    PROVE  Follows(view[f], Heard(view[f], r.told), r.mem)
<1>1. PICK m \in States :
          /\ m = Current /\ m # NoState /\ m.epoch <= epochs
          /\ \/ view[f] = Reset(m)
             \/ view[f].reconcile /\ view[f].epoch # m.epoch
  BY SubscriberFacts
<1>2. PICK v \in Views : v = view[f] /\ v.epoch <= epochs
  BY SubscriberFacts
<1>3. PICK x \in States :
          /\ x = r.mem
          /\ \/ x.epoch = epochs + 1
             \/ x.epoch = m.epoch /\ x.seq = m.seq + 1
  BY <1>1 DEF OpenLeaves
<1>4. epochs \in Nat /\ m.seq \in Nat /\ m.epoch \in Nat /\ v.epoch \in Nat
  BY DEF States, Views, DiskInv, StoreTypes
<1>5. PICK e \in Wholes : e = Whole("snapshot", x.log) /\ e.log = x.log
  <2>1. PICK l \in Logs : l = x.log
    BY DEF States
  <2>2. Whole("snapshot", l) \in Wholes /\ Whole("snapshot", l).log = l
    BY DEF Whole, Wholes
  <2> QED
    BY <2>1, <2>2
<1>6. PICK g \in Seq(Envelopes) : g = <<e>> /\ Len(g) = 1
  BY DeltaSeq
<1>7. PICK told : /\ told = r.told
                  /\ told.epoch = x.epoch /\ told.first = x.seq
                  /\ told.envelopes = g
  <2>1. r.told = Told(x.epoch, x.seq, g)
    BY <1>1, <1>3, <1>5, <1>6 DEF OpenLeaves
  <2> QED
    BY <2>1 DEF Told
<1>8. g # <<>>
  BY <1>6, NoEnvelopes
<1>9. CASE v.epoch # x.epoch
  <2>1. Heard(v, told) = [v EXCEPT !.reconcile = TRUE]
    BY <1>7, <1>8, <1>9 DEF Heard
  <2> QED
    BY <1>2, <1>3, <1>7, <1>9, <2>1 DEF Follows
<1>10. CASE v.epoch = x.epoch
  <2>1. x.epoch = m.epoch /\ x.seq = m.seq + 1
    BY <1>2, <1>3, <1>4, <1>10
  <2>2. v = Reset(m)
    BY <1>1, <1>2, <1>10, <2>1
  <2>3. v.seq = m.seq /\ v.log = m.log /\ v.reconcile = FALSE
    BY <2>2 DEF Reset
  <2>4. v.seq - told.first + 2 = 1 /\ told.first <= v.seq + 1
    BY <1>4, <1>7, <2>1, <2>3
  <2>5. SubSeq(told.envelopes, v.seq - told.first + 2, Len(told.envelopes)) = g
    BY <1>7, <2>4, SubSeqFull
  <2>6. Applies(v.log, g)
    <3>1. \A i \in DOMAIN g : g[i].kind # "delta"
      BY <1>5, <1>6 DEF Wholes
    <3> QED
      BY <3>1 DEF Applies
  <2>7. Heard(v, told) = [v EXCEPT !.seq = @ + Len(g), !.log = Replay(@, g)]
    BY <1>7, <1>8, <1>10, <2>4, <2>5, <2>6 DEF Heard
  <2>8. Replay(v.log, g) = x.log
    BY <1>5, <1>6, ReplaySnapshot
  <2>9. PICK s, l : s = x.seq /\ l = x.log
    OBVIOUS
  <2>10. Heard(v, told) = [v EXCEPT !.seq = s, !.log = l]
    BY <1>6, <2>1, <2>3, <2>7, <2>8, <2>9
  <2>11. [v EXCEPT !.seq = s, !.log = l] = Reset(x)
    BY <1>10, <2>3, <2>9, ResetMoves
  <2> QED
    BY <1>2, <1>3, <1>7, <2>10, <2>11 DEF Follows
<1> QED
  BY <1>9, <1>10

\* Whatever a subscription is answered with, it has what the store has: the
\* events retained after its cursor are those it lacks.
LEMMA SyncsReset ==
    ASSUME NEW d \in Files, ~d.torn, NEW v \in Views, Reads(v, d),
           NEW w \in Syncs(v, Reopened(d))
    PROVE  w = Reset(Reopened(d))
<1>1. PICK r \in Seq(Envelopes), b \in Logs, s \in Nat :
          r = d.records /\ b = d.base /\ s = d.seq
  BY DEF Files
<1>2. PICK n \in Nat : n = Len(r)
  BY LenProperties
<1>3. PICK m \in States :
          /\ m = Reopened(d) /\ m.epoch = d.epoch /\ m.seq = s + n
          /\ m.log = Replay(b, r) /\ m.events = r
  BY <1>1, <1>2, ReopenedType DEF Reopened
<1>4. v.seq \in Nat
  BY DEF Views
<1>5. CASE w = Reset(m)
  BY <1>3, <1>5
<1>6. CASE w # Reset(m)
  <2>1. /\ v.epoch = m.epoch /\ ~(v.seq > m.seq) /\ ~(v.seq < m.seq - Len(m.events))
        /\ w = CatchUp(v, m)
    BY <1>3, <1>6 DEF Syncs
  <2>2. v.seq <= s + n /\ v.seq >= s
    BY <1>2, <1>3, <1>4, <2>1
  <2>3. PICK i \in 0 .. n : i = v.seq - s
    BY <1>4, <2>2
  <2>4. v.log = Replay(b, SubSeq(r, 1, i))
    BY <1>1, <1>3, <2>1, <2>2, <2>3 DEF Reads
  <2>5. v.seq - (m.seq - Len(m.events)) + 1 = i + 1
    BY <1>2, <1>3, <1>4, <2>3
  <2>6. PICK p \in Seq(Envelopes) : p = SubSeq(r, 1, i)
    <3>1. \A j \in 1 .. i : r[j] \in Envelopes
      BY <1>2, ElementOfSeq
    <3>2. 1 \in Int /\ i \in Int
      OBVIOUS
    <3>3. SubSeq(r, 1, i) \in Seq(Envelopes)
      BY <3>1, <3>2, SubSeqProperties
    <3> QED
      BY <3>3
  <2>7. PICK q \in Seq(Envelopes) : q = SubSeq(r, i + 1, n)
    <3>1. \A j \in i + 1 .. n : r[j] \in Envelopes
      BY <1>2, ElementOfSeq
    <3>2. i + 1 \in Int /\ n \in Int
      OBVIOUS
    <3>3. SubSeq(r, i + 1, n) \in Seq(Envelopes)
      BY <3>1, <3>2, SubSeqProperties
    <3> QED
      BY <3>3
  <2>8. p \o q = r
    <3>1. /\ 1 \in 1 .. Len(r) + 1 /\ i \in 1 - 1 .. Len(r) /\ n \in i .. Len(r)
      BY <1>2
    <3>2. SubSeq(r, 1, i) \o SubSeq(r, i + 1, n) = SubSeq(r, 1, n)
      BY <3>1, ConcatAdjacentSubSeq
    <3> QED
      BY <1>2, <2>6, <2>7, <3>2, SubSeqFull
  <2>9. Replay(v.log, q) = m.log
    <3>1. Replay(b, p \o q) = Replay(Replay(b, p), q)
      BY ReplayAppend
    <3> QED
      BY <1>3, <2>4, <2>6, <2>8, <3>1
  <2>10. CatchUp(v, m) = [Reset(m) EXCEPT !.log = Replay(v.log, q)]
    BY <1>2, <1>3, <2>5, <2>7 DEF CatchUp
  <2>11. [Reset(m) EXCEPT !.log = m.log] = Reset(m)
    <3>1. PICK u \in Views : u = Reset(m) /\ u.log = m.log
      BY <1>3, ReadsReset DEF Reset
    <3>2. PICK x : x = [u EXCEPT !.log = u.log]
      OBVIOUS
    <3>3. /\ DOMAIN x = DOMAIN u /\ x = [k \in DOMAIN x |-> x[k]]
          /\ u = [k \in DOMAIN u |-> u[k]]
          /\ \A k \in DOMAIN u : x[k] = u[k]
      BY <3>2 DEF Views
    <3>4. x = u
      BY <3>3
    <3> QED
      BY <3>1, <3>2, <3>4
  <2> QED
    BY <1>3, <2>1, <2>9, <2>10, <2>11
<1> QED
  BY <1>5, <1>6
-----------------------------------------------------------------------------
(* The invariant is inductive.                                             *)

LEMMA DiskInit == Init => DiskInv
<1> SUFFICES ASSUME Init PROVE DiskInv
  OBVIOUS
<1>1. QueueTypes
  <2>1. counts \in Counts
    BY DEF Init, Counts
  <2> QED
    BY <2>1, NoEnvelopes DEF Init, QueueTypes, Logs
<1>2. StoreTypes
  <2>1. NoView \in Views
    BY NoEnvelopes DEF NoView, Views, Logs
  <2> QED
    BY <2>1 DEF Init, StoreTypes
<1>3. MemoryInv /\ ViewInv /\ SubscribersCurrent
  BY DEF Init, MemoryInv, ViewInv, SubscribersCurrent
<1>4. EpochInv
  BY DEF Init, EpochInv, NoView
<1> QED
  BY <1>1, <1>2, <1>3, <1>4 DEF DiskInv

\* A step that leaves the store's content alone.
LEMMA AsideStep ==
    ASSUME DiskInv, QueueTypes', UNCHANGED <<disk, mem, view, epochs>>,
           subs' \subseteq subs, fatal' \in BOOLEAN, ~fatal' => ~fatal
    PROVE  DiskInv'
<1>1. StoreTypes'
  BY DEF DiskInv, StoreTypes
<1>2. MemoryInv'
  BY DEF DiskInv, MemoryInv
<1>3. EpochInv'
  BY DEF DiskInv, EpochInv
<1>4. ViewInv'
  BY DEF DiskInv, ViewInv
<1>5. SubscribersCurrent'
  BY DEF DiskInv, SubscribersCurrent
<1> QED
  BY <1>1, <1>2, <1>3, <1>4, <1>5 DEF DiskInv

\* What a step may do to the file and to the views.
FileStep ==
    /\ disk' \in Files \cup {NoFile} /\ Becomes(disk, disk', epochs')
    /\ epochs' \in {epochs, epochs + 1}

ViewStep ==
    /\ view' \in [Followers -> Views]
    /\ \A f \in Followers :
           \/ /\ view'[f].epoch = view[f].epoch /\ view'[f].seq = view[f].seq
              /\ view'[f].log = view[f].log
           \/ disk' # NoFile /\ view'[f] = Reset(Reopened(disk'))

\* Then a view still has read the file it follows.
LEMMA FileViews ==
    ASSUME DiskInv, FileStep, ViewStep
    PROVE  /\ ViewInv'
           /\ disk' # NoFile => disk'.epoch <= epochs'
           /\ \A f \in Followers : view'[f].epoch <= epochs'
<1>0. epochs \in Nat /\ epochs' \in Nat /\ epochs <= epochs'
  BY DEF DiskInv, StoreTypes, FileStep
<1>1. disk # NoFile => disk \in Files /\ disk.epoch <= epochs
  BY DEF DiskInv, StoreTypes, EpochInv
<1>2. ASSUME disk' # NoFile PROVE disk'.epoch <= epochs' /\ disk' \in Files
  <2>1. disk' \in Files
    BY <1>2 DEF FileStep
  <2>2. \/ disk # NoFile /\ disk'.epoch = disk.epoch
        \/ disk'.epoch = epochs + 1 /\ epochs' = epochs + 1
    BY <1>2 DEF FileStep, Becomes, Continues
  <2>3. disk'.epoch \in Nat /\ (disk # NoFile => disk.epoch \in Nat)
    BY <1>1, <2>1 DEF Files
  <2> QED
    BY <1>0, <1>1, <2>1, <2>2, <2>3
<1>3. ASSUME NEW f \in Followers
      PROVE  /\ view'[f].epoch <= epochs'
             /\ disk' # NoFile => Reads(view'[f], disk')
  <2>1. PICK v \in Views, w \in Views : v = view[f] /\ w = view'[f]
    BY DEF DiskInv, StoreTypes, ViewStep
  <2>2. v.epoch \in Nat /\ v.epoch <= epochs
    BY <2>1 DEF DiskInv, EpochInv, Views
  <2>3. CASE w.epoch = v.epoch /\ w.seq = v.seq /\ w.log = v.log
    <3>1. w.epoch <= epochs'
      BY <1>0, <2>2, <2>3
    <3>2. ASSUME disk' # NoFile PROVE Reads(w, disk')
      <4>1. CASE disk # NoFile /\ Continues(disk, disk')
        <5>1. Reads(v, disk)
          BY <2>1, <4>1 DEF DiskInv, ViewInv
        <5>2. Reads(v, disk')
          BY <4>1, <5>1 DEF Continues
        <5> QED
          BY <2>3, <5>2 DEF Reads
      <4>2. CASE disk'.epoch = epochs + 1
        <5>1. w.epoch # disk'.epoch
          BY <1>0, <2>2, <2>3, <4>2
        <5> QED
          BY <5>1 DEF Reads
      <4> QED
        BY <3>2, <4>1, <4>2 DEF FileStep, Becomes
    <3> QED
      BY <2>1, <3>1, <3>2
  <2>4. CASE disk' # NoFile /\ w = Reset(Reopened(disk'))
    <3>1. w.epoch = disk'.epoch
      BY <2>4 DEF Reset, Reopened
    <3>2. Reads(w, disk')
      BY <1>2, <2>4, ReadsReset
    <3> QED
      BY <1>2, <2>1, <2>4, <3>1, <3>2
  <2> QED
    BY <2>1, <2>3, <2>4 DEF ViewStep
<1> QED
  BY <1>2, <1>3 DEF ViewInv

\* A step after which memory is the file read again, and whoever follows it
\* has its content.
LEMMA StoreStep ==
    ASSUME DiskInv, QueueTypes', FileStep, ViewStep,
           fatal' = fatal, ~fatal,
           mem' \in States, ~disk'.torn, disk' # NoFile, Reopened(disk') = mem',
           subs' \subseteq Followers,
           \A f \in subs' : \/ view'[f] = Reset(mem')
                            \/ view'[f].reconcile /\ view'[f].epoch # mem'.epoch
    PROVE  DiskInv'
<1>1. /\ ViewInv' /\ disk'.epoch <= epochs'
      /\ \A f \in Followers : view'[f].epoch <= epochs'
  BY FileViews
<1>2. mem' # NoState
  BY NotNothing
<1>3. mem'.epoch = disk'.epoch
  BY DEF Reopened
<1>4. StoreTypes'
  BY DEF DiskInv, StoreTypes, FileStep, ViewStep
<1>5. MemoryInv'
  BY <1>2 DEF MemoryInv
<1>6. EpochInv'
  BY <1>1, <1>3 DEF EpochInv
<1>7. SubscribersCurrent'
  BY DEF SubscribersCurrent
<1> QED
  BY <1>1, <1>4, <1>5, <1>6, <1>7 DEF DiskInv

\* Subscribers that are told follow, others keep what they have.
LEMMA NotifyFacts ==
    ASSUME DiskInv, NEW told, Notify(told), NEW m, m = mem', disk' # NoFile,
           Reopened(disk') = m, disk' \in Files,
           \A f \in subs : Follows(view[f], Heard(view[f], told), m)
    PROVE  /\ ViewStep
           /\ \A f \in subs : \/ view'[f] = Reset(m)
                              \/ view'[f].reconcile /\ view'[f].epoch # m.epoch
<1>1. /\ view' = [f \in Followers |-> IF f \in subs THEN Heard(view[f], told)
                                                  ELSE view[f]]
      /\ view \in [Followers -> Views] /\ subs \subseteq Followers
  BY DEF Notify, DiskInv, StoreTypes
<1>2. Reset(m) \in Views
  BY ReadsReset
<1>3. ASSUME NEW f \in subs
      PROVE  /\ view'[f] \in Views
             /\ \/ view'[f] = Reset(m)
                \/ /\ view'[f].reconcile /\ view'[f].epoch # m.epoch
                   /\ view'[f].epoch = view[f].epoch /\ view'[f].seq = view[f].seq
                   /\ view'[f].log = view[f].log
  <2>1. PICK v \in Views : v = view[f] /\ view'[f] = Heard(v, told)
    BY <1>1
  <2>2. CASE Heard(v, told) = Reset(m)
    BY <1>2, <2>1, <2>2
  <2>3. CASE Heard(v, told) = [v EXCEPT !.reconcile = TRUE] /\ v.epoch # m.epoch
    <3>1. PICK w : w = [v EXCEPT !.reconcile = TRUE]
      OBVIOUS
    <3>2. /\ w \in Views /\ w.reconcile
          /\ w.epoch = v.epoch /\ w.seq = v.seq /\ w.log = v.log
      BY <3>1 DEF Views
    <3> QED
      BY <2>1, <2>3, <3>1, <3>2
  <2> QED
    BY <2>1, <2>2, <2>3 DEF Follows
<1>4. view' \in [Followers -> Views]
  <2>1. \A f \in Followers : view'[f] \in Views
    BY <1>1, <1>3
  <2> QED
    BY <1>1, <2>1
<1>5. \A f \in Followers \ subs : view'[f] = view[f]
  BY <1>1
<1> QED
  BY <1>3, <1>4, <1>5 DEF ViewStep
\* A step that forgets the state, or ends in failure with whatever is left
\* of the file.
LEMMA LossStep ==
    ASSUME DiskInv, QueueTypes', FileStep, UNCHANGED view, fatal' \in BOOLEAN,
           \/ mem' = NoState /\ subs' = {}
           \/ fatal' /\ UNCHANGED <<mem, subs>>
    PROVE  DiskInv'
<1>1. ViewStep
  BY DEF ViewStep, DiskInv, StoreTypes
<1>2. /\ ViewInv' /\ (disk' # NoFile => disk'.epoch <= epochs')
      /\ \A f \in Followers : view'[f].epoch <= epochs'
  BY <1>1, FileViews
<1>3. StoreTypes'
  BY DEF DiskInv, StoreTypes, FileStep
<1>4. MemoryInv'
  BY DEF DiskInv, MemoryInv
<1>5. EpochInv'
  <2>1. epochs \in Nat /\ epochs' \in Nat /\ epochs <= epochs'
    BY DEF DiskInv, StoreTypes, FileStep
  <2>2. mem' # NoState => mem.epoch <= epochs /\ mem.epoch \in Nat /\ mem' = mem
    BY DEF DiskInv, EpochInv, StoreTypes, States
  <2>3. mem' # NoState => mem'.epoch <= epochs'
    BY <2>1, <2>2
  <2> QED
    BY <1>2, <2>3 DEF EpochInv
<1>6. SubscribersCurrent'
  BY DEF DiskInv, SubscribersCurrent
<1> QED
  BY <1>2, <1>3, <1>4, <1>5, <1>6 DEF DiskInv

\* Every step of the store leaves a file that continues the one before, that
\* has an epoch never drawn before, or none.
LEMMA FileSteps ==
    ASSUME DiskInv, [Next]_vars
    PROVE  FileStep
<1>0. epochs \in Nat /\ disk \in Files \cup {NoFile}
  BY DEF DiskInv, StoreTypes
<1>1. ASSUME UNCHANGED <<disk, epochs>> PROVE FileStep
  BY <1>0, <1>1, ContinuesSame DEF FileStep, Becomes
<1>2. CASE RunDrain
  <2>1. /\ tail # <<>> /\ Head(tail).op = "drain" /\ ~fatal /\ Current # NoState
        /\ UNCHANGED epochs
    BY <1>2 DEF RunDrain, Doing, Idling, Applicable
  <2>2. PICK checkpoint \in BOOLEAN : disk' = Drained(checkpoint).disk
    BY <1>2 DEF RunDrain
  <2>3. DrainLeaves(Drained(checkpoint))
    BY <2>1, DrainedFacts
  <2>4. disk # NoFile
    BY <2>1, CurrentFacts
  <2> QED
    BY <1>0, <2>1, <2>2, <2>3, <2>4 DEF DrainLeaves, FileStep, Becomes
<1>3. CASE RunOpen
  <2>1. /\ tail # <<>> /\ Head(tail).op = "open" /\ ~fatal
        /\ disk' = Opened.disk
        /\ epochs' = IF Opened.mem.epoch > epochs THEN epochs + 1 ELSE epochs
    BY <1>3 DEF RunOpen, Doing, Idling
  <2>2. OpenLeaves(Opened)
    BY <2>1, OpenedFacts
  <2>3. disk' \in Files /\ disk'.epoch = Opened.mem.epoch
    BY <2>1, <2>2, CheckpointFacts DEF OpenLeaves
  <2>4. epochs' \in {epochs, epochs + 1}
    BY <2>1
  <2>5. \/ disk # NoFile /\ Continues(disk, disk')
        \/ disk'.epoch = epochs + 1 /\ epochs' = epochs + 1
    <3>1. CASE Opened.mem.epoch = epochs + 1
      <4>1. Opened.mem.epoch > epochs
        BY <1>0, <3>1
      <4> QED
        BY <2>1, <2>3, <3>1, <4>1
    <3>2. CASE disk # NoFile /\ Continues(disk, Opened.disk)
      BY <2>1, <3>2
    <3> QED
      BY <2>2, <3>1, <3>2 DEF OpenLeaves
  <2> QED
    BY <2>3, <2>4, <2>5 DEF FileStep, Becomes
<1>4. CASE RunSubscribe
  <2>1. ~fatal /\ Current # NoState /\ disk' = File /\ UNCHANGED epochs
    BY <1>4 DEF RunSubscribe, Doing, Idling
  <2>2. disk # NoFile
    BY <2>1, CurrentFacts
  <2>3. File \in Files /\ Continues(disk, File)
    BY <2>1, <2>2, CurrentFacts
  <2> QED
    BY <1>0, <2>1, <2>2, <2>3 DEF FileStep, Becomes
<1>5. CASE RunDelete
  BY <1>0, <1>5 DEF RunDelete, FileStep, Becomes
<1>6. CASE WriteFails \/ Crash
  <2>1. ~fatal /\ disk' \in Leftovers /\ epochs' = epochs + 1
    BY <1>6 DEF WriteFails, Crash
  <2>2. disk' \in Files \cup {NoFile} /\ Becomes(disk, disk', epochs + 1)
    BY <2>1, LeftoverFacts
  <2> QED
    BY <2>1, <2>2 DEF FileStep
<1>7. CASE \/ UNCHANGED vars \/ Timer \/ DrainFails \/ SubscribeFails \/ RunRelease
           \/ FlushPass \/ Rewind \/ Reopen \/ Restart
  BY <1>1, <1>7 DEF vars, Timer, DrainFails, SubscribeFails, RunRelease, FlushPass,
                    Rewind, Reopen, Restart
<1>8. ASSUME NEW x, \/ Attach(x) \/ Publish(x) \/ Retire(x) \/ Retired(x)
                    \/ Subscribe(x) \/ Unsubscribe(x)
      PROVE  FileStep
  BY <1>1, <1>8 DEF Attach, Publish, Retire, Retired, Subscribe, Unsubscribe
<1> QED
  BY <1>2, <1>3, <1>4, <1>5, <1>6, <1>7, <1>8 DEF Next, Operate

\* Every step keeps the invariant.
LEMMA DiskNext == DiskInv /\ [Next]_vars => DiskInv'
<1> SUFFICES ASSUME DiskInv, [Next]_vars PROVE DiskInv'
  OBVIOUS
<1>1. QueueTypes' /\ FileStep
  BY QueueStep, FileSteps
<1>2. fatal \in BOOLEAN /\ subs \subseteq Followers /\ view \in [Followers -> Views]
  BY DEF DiskInv, StoreTypes
<1>3. ASSUME UNCHANGED <<disk, mem, subs, fatal, view, epochs>> PROVE DiskInv'
  BY <1>1, <1>2, <1>3, AsideStep
<1>4. CASE RunDrain
  <2>1. /\ tail # <<>> /\ Head(tail).op = "drain" /\ ~fatal /\ Applicable
        /\ Current # NoState /\ UNCHANGED <<subs, fatal>>
    BY <1>4 DEF RunDrain, Doing, Idling, Applicable
  <2>2. PICK checkpoint \in BOOLEAN :
            LET r == Drained(checkpoint)
            IN  mem' = r.mem /\ disk' = r.disk /\ Notify(r.told)
    BY <1>4 DEF RunDrain
  <2>3. PICK r : r = Drained(checkpoint)
    OBVIOUS
  <2>4. DrainLeaves(r)
    BY <2>1, <2>3, DrainedFacts
  <2>5. /\ mem' = r.mem /\ disk' = r.disk /\ Notify(r.told)
        /\ mem' \in States /\ disk' \in Files /\ ~disk'.torn /\ Reopened(disk') = mem'
    BY <2>2, <2>3, <2>4 DEF DrainLeaves
  <2>6. disk' # NoFile
    BY <2>5, NotNothing
  <2>7. \A f \in subs : Follows(view[f], Heard(view[f], r.told), r.mem)
    BY <2>1, <2>4, DrainHeard
  <2>8. /\ ViewStep
        /\ \A f \in subs : \/ view'[f] = Reset(r.mem)
                           \/ view'[f].reconcile /\ view'[f].epoch # r.mem.epoch
    BY <2>5, <2>6, <2>7, NotifyFacts
  <2> QED
    BY <1>1, <1>2, <2>1, <2>5, <2>6, <2>8, StoreStep
<1>5. CASE RunOpen
  <2>1. /\ tail # <<>> /\ Head(tail).op = "open" /\ ~fatal /\ UNCHANGED <<subs, fatal>>
    BY <1>5 DEF RunOpen, Doing, Idling
  <2>2. PICK r : r = Opened
    OBVIOUS
  <2>3. mem' = r.mem /\ disk' = r.disk /\ Notify(r.told)
    BY <1>5, <2>2 DEF RunOpen
  <2>4. OpenLeaves(r)
    BY <2>1, <2>2, OpenedFacts
  <2>5. mem' \in States /\ disk' \in Files /\ ~disk'.torn /\ Reopened(disk') = mem'
    <3>1. PICK x \in States : x = r.mem /\ x.events = <<>> /\ r.disk = Checkpoint(x)
      BY <2>4 DEF OpenLeaves
    <3>2. [x EXCEPT !.events = <<>>] = x
      BY <3>1 DEF States
    <3> QED
      BY <2>3, <3>1, <3>2, CheckpointFacts
  <2>6. disk' # NoFile
    BY <2>5, NotNothing
  <2>7. \A f \in subs : Follows(view[f], Heard(view[f], r.told), r.mem)
    BY <2>1, <2>4, OpenHeard
  <2>8. /\ ViewStep
        /\ \A f \in subs : \/ view'[f] = Reset(r.mem)
                           \/ view'[f].reconcile /\ view'[f].epoch # r.mem.epoch
    BY <2>3, <2>5, <2>6, <2>7, NotifyFacts
  <2> QED
    BY <1>1, <1>2, <2>1, <2>3, <2>5, <2>6, <2>8, StoreStep
<1>6. CASE RunSubscribe
  <2>1. /\ tail # <<>> /\ Head(tail).op = "subscribe" /\ ~fatal /\ UNCHANGED fatal
        /\ Current # NoState /\ mem' = Current /\ disk' = File
        /\ subs' = subs \cup {Head(tail).who}
    BY <1>6 DEF RunSubscribe, Doing, Idling
  <2>2. PICK f \in Followers : f = Head(tail).who
    BY <2>1, HeadFacts DEF DiskInv
  <2>3. PICK v \in Syncs(view[f], Current) : view' = [view EXCEPT ![f] = v]
    BY <1>6, <2>2 DEF RunSubscribe
  <2>4. /\ disk # NoFile /\ disk \in Files /\ File \in Files /\ ~File.torn
        /\ Continues(disk, File) /\ Reopened(File) = Current /\ Current \in States
    BY <2>1, CurrentFacts
  <2>5. v = Reset(Current) /\ v \in Views
    <3>1. view[f] \in Views /\ Reads(view[f], disk)
      BY <1>2, <2>4 DEF DiskInv, ViewInv
    <3>2. Reads(view[f], File)
      BY <2>4, <3>1 DEF Continues
    <3>3. v = Reset(Reopened(File))
      BY <2>3, <2>4, <3>1, <3>2, SyncsReset
    <3> QED
      BY <2>4, <3>3, ReadsReset
  <2>6. ViewStep
    <3>1. disk' # NoFile /\ v = Reset(Reopened(disk'))
      BY <2>1, <2>4, <2>5, NotNothing
    <3> QED
      BY <1>2, <2>3, <2>5, <3>1 DEF ViewStep
  <2>7. \A g \in subs : mem = Current
    BY <2>1, SubscriberFacts
  <2>8. ASSUME NEW g \in subs'
        PROVE  \/ view'[g] = Reset(mem')
               \/ view'[g].reconcile /\ view'[g].epoch # mem'.epoch
    <3>1. CASE g = f
      BY <1>2, <2>1, <2>3, <2>5, <3>1
    <3>2. CASE g # f
      <4>1. g \in subs /\ view'[g] = view[g]
        BY <1>2, <2>1, <2>2, <2>3, <3>2
      <4> QED
        BY <2>1, <2>7, <4>1 DEF DiskInv, SubscribersCurrent
    <3> QED
      BY <3>1, <3>2
  <2>9. disk' # NoFile /\ ~disk'.torn /\ Reopened(disk') = mem' /\ mem' \in States
    BY <2>1, <2>4, NotNothing
  <2>10. subs' \subseteq Followers
    BY <1>2, <2>1, <2>2
  <2> QED
    BY <1>1, <2>1, <2>6, <2>8, <2>9, <2>10, StoreStep
<1>7. CASE RunRelease
  <2>1. CASE subs = {}
    <3>1. mem' = NoState /\ subs' = {} /\ UNCHANGED <<view, fatal>>
      BY <1>7, <2>1 DEF RunRelease
    <3> QED
      BY <1>1, <1>2, <3>1, LossStep
  <2>2. CASE subs # {}
    BY <1>3, <1>7, <2>2 DEF RunRelease
  <2> QED
    BY <2>1, <2>2
<1>8. CASE RunDelete
  BY <1>1, <1>2, <1>8, LossStep DEF RunDelete
<1>9. CASE WriteFails
  <2>1. fatal' = TRUE /\ UNCHANGED <<mem, subs, view>>
    BY <1>9 DEF WriteFails
  <2> QED
    BY <1>1, <2>1, LossStep
<1>10. CASE Crash \/ Restart
  <2>1. mem' = NoState /\ subs' = {} /\ fatal' = FALSE /\ UNCHANGED view
    BY <1>10 DEF Crash, Restart, StartsAnew
  <2> QED
    BY <1>1, <2>1, LossStep
<1>11. CASE DrainFails
  <2>1. fatal' = TRUE /\ UNCHANGED <<disk, mem, subs, view, epochs>>
    BY <1>11 DEF DrainFails
  <2> QED
    BY <1>1, <2>1, AsideStep
<1>12. CASE \/ UNCHANGED vars \/ Timer \/ SubscribeFails \/ FlushPass
            \/ Rewind \/ Reopen
  BY <1>3, <1>12 DEF vars, store, Timer, SubscribeFails, FlushPass, Rewind, Reopen
<1>13. ASSUME NEW x, \/ Attach(x) \/ Publish(x) \/ Retire(x) \/ Retired(x)
                     \/ Subscribe(x)
       PROVE  DiskInv'
  BY <1>3, <1>13 DEF Attach, Publish, Retire, Retired, Subscribe
<1>14. ASSUME NEW f \in Followers, Unsubscribe(f) PROVE DiskInv'
  <2>1. subs' \subseteq subs /\ UNCHANGED <<disk, mem, fatal, view, epochs>>
    BY <1>14 DEF Unsubscribe
  <2> QED
    BY <1>1, <1>2, <2>1, AsideStep
<1> QED
  BY <1>4, <1>5, <1>6, <1>7, <1>8, <1>9, <1>10, <1>11, <1>12, <1>13, <1>14
     DEF Next, Operate
\* The invariant holds throughout every behaviour.
LEMMA Disks == Spec => []DiskInv
<1>1. Init => DiskInv
  BY DiskInit
<1>2. DiskInv /\ [Next]_vars => DiskInv'
  BY DiskNext
<1> QED
  BY <1>1, <1>2, PTL DEF Spec

-----------------------------------------------------------------------------
(* What follows from it.                                                   *)

\* timeline.ts replays, after a restart, exactly the state it had in memory.
THEOREM StaysReloadable == Spec => []Reloadable
<1>1. DiskInv => Reloadable
  BY DEF DiskInv, MemoryInv, Reloadable
<1> QED
  BY <1>1, Disks, PTL

\* Nothing a subscriber has been sent is taken back or changed, whatever
\* crashes, failed writes and torn files come.
THEOREM NothingTakenBack == Spec => []NeverTakenBack
<1>1. ASSUME DiskInv, disk # NoFile, NEW f \in Followers, view[f].epoch = disk.epoch
      PROVE  LET kept == Reopened(disk)
             IN  /\ view[f].seq <= kept.seq
                 /\ view[f].seq = kept.seq => view[f].log = kept.log
  <2>1. disk \in Files /\ view[f] \in Views /\ Reads(view[f], disk)
    BY <1>1 DEF DiskInv, StoreTypes, ViewInv
  <2>2. Ends(view[f], Reopened(disk))
    BY <2>1, ReadsEnd
  <2>3. Reopened(disk).epoch = disk.epoch
    BY DEF Reopened
  <2> QED
    BY <1>1, <2>2, <2>3 DEF Ends
<1>2. DiskInv => NeverTakenBack
  BY <1>1 DEF NeverTakenBack
<1> QED
  BY <1>2, Disks, PTL

\* A subscriber has no gap and no event twice, from whatever cursor it came
\* and whatever was committed meanwhile.
THEOREM SubscribersFollow == Spec => []SubscribersCurrent
<1>1. DiskInv => SubscribersCurrent
  BY DEF DiskInv
<1> QED
  BY <1>1, Disks, PTL

-----------------------------------------------------------------------------
(* The refinement: the file is a transcript as promised.                   *)

Kept(d) == IF d = NoFile THEN NoFile
           ELSE [epoch |-> d.epoch, seq |-> Reopened(d).seq, log |-> Reopened(d).log]

\* What the abstract transcript sees of a file.
LEMMA KeptFacts ==
    ASSUME NEW d \in Files
    PROVE  /\ Kept(d) # NoFile /\ Kept(d).epoch = d.epoch
           /\ Kept(d).seq = Reopened(d).seq
<1>1. PICK e, s, l : e = d.epoch /\ s = Reopened(d).seq /\ l = Reopened(d).log
  OBVIOUS
<1>2. PICK k : k = [epoch |-> e, seq |-> s, log |-> l]
  OBVIOUS
<1>3. k # NoFile
  <2>1. "file" \notin DOMAIN k /\ "file" \in DOMAIN NoFile
    BY <1>2 DEF NoFile
  <2> QED
    BY <2>1
<1>4. Kept(d) = k
  BY <1>1, <1>2, NotNothing DEF Kept
<1> QED
  BY <1>1, <1>2, <1>3, <1>4

\* What a step does to the file is a step of the abstract transcript, or nothing.
LEMMA PromiseStep ==
    ASSUME DiskInv, FileStep
    PROVE  \/ Kept(disk') = Kept(disk) /\ epochs' = epochs
           \/ /\ Kept(disk') = Kept(disk) /\ epochs' > epochs
           \/ /\ Kept(disk) # NoFile /\ Kept(disk') = NoFile /\ epochs' >= epochs
           \/ /\ Kept(disk) # NoFile /\ Kept(disk') # NoFile
              /\ Kept(disk').epoch = Kept(disk).epoch
              /\ Kept(disk').seq > Kept(disk).seq /\ epochs' >= epochs
           \/ /\ Kept(disk') # NoFile
              /\ Kept(disk').epoch > epochs /\ Kept(disk').epoch <= epochs'
<1>0. epochs \in Nat /\ epochs' \in {epochs, epochs + 1}
  BY DEF DiskInv, StoreTypes, FileStep
<1>1. CASE disk' = NoFile
  <2>1. Kept(disk') = NoFile
    BY <1>1 DEF Kept
  <2> QED
    BY <1>0, <2>1
<1>2. CASE disk' # NoFile /\ disk # NoFile /\ Continues(disk, disk')
  <2>1. disk \in Files /\ disk' \in Files
    BY <1>2 DEF DiskInv, StoreTypes, FileStep
  <2>2. CASE Reopened(disk').seq > Reopened(disk).seq
    <3>1. /\ Kept(disk) # NoFile /\ Kept(disk') # NoFile
          /\ Kept(disk').epoch = Kept(disk).epoch
          /\ Kept(disk').seq > Kept(disk).seq
      BY <1>2, <2>1, <2>2, KeptFacts DEF Continues
    <3> QED
      BY <1>0, <3>1
  <2>3. CASE Reopened(disk').seq = Reopened(disk).seq /\ Reopened(disk').log = Reopened(disk).log
    <3>1. Kept(disk') = Kept(disk)
      BY <1>2, <2>3 DEF Continues, Kept
    <3> QED
      BY <1>0, <3>1
  <2> QED
    BY <1>2, <2>2, <2>3 DEF Continues
<1>3. CASE disk' # NoFile /\ disk'.epoch = epochs + 1 /\ epochs' = epochs + 1
  <2>1. disk' \in Files
    BY <1>3 DEF FileStep
  <2>2. Kept(disk') # NoFile /\ Kept(disk').epoch = epochs + 1
    BY <1>3, <2>1, KeptFacts
  <2> QED
    BY <1>0, <1>3, <2>2
<1> QED
  BY <1>1, <1>2, <1>3 DEF FileStep, Becomes

\* The timeline store implements the transcript it promises: crashes, torn
\* files and batches are steps of Transcript or no steps at all.
THEOREM KeepsPromise == Spec => ImplementsTranscript
<1>1. Init => Promise!Init
  BY DEF Init, Promise!Init
<1>2. DiskInv /\ [Next]_vars =>
          [Promise!Next]_<<IF disk = NoFile THEN NoFile ELSE
                              [epoch |-> disk.epoch, seq |-> Reopened(disk).seq,
                               log |-> Reopened(disk).log], epochs>>
  <2> SUFFICES ASSUME DiskInv, [Next]_vars
               PROVE  Promise!Next \/ UNCHANGED <<Kept(disk), epochs>>
    BY DEF Kept
  <2>1. FileStep
    BY FileSteps
  <2>2. ASSUME Kept(disk') = Kept(disk), epochs' > epochs PROVE Promise!Waste
    BY <2>2 DEF Kept, Promise!Waste
  <2>3. ASSUME Kept(disk) # NoFile, Kept(disk') = NoFile, epochs' >= epochs
        PROVE  Promise!Erase
    BY <2>3 DEF Kept, Promise!Erase
  <2>4. ASSUME Kept(disk) # NoFile, Kept(disk') # NoFile,
               Kept(disk').epoch = Kept(disk).epoch,
               Kept(disk').seq > Kept(disk).seq, epochs' >= epochs
        PROVE  Promise!Extend
    BY <2>4 DEF Kept, Promise!Extend
  <2>5. ASSUME Kept(disk') # NoFile, Kept(disk').epoch > epochs,
               Kept(disk').epoch <= epochs'
        PROVE  Promise!Create \/ Promise!Replace
    BY <2>5 DEF Kept, Promise!Create, Promise!Replace, Promise!Fresh
  <2> QED
    BY <2>1, <2>2, <2>3, <2>4, <2>5, PromiseStep DEF Promise!Next, Kept
<1> QED
  BY <1>1, <1>2, Disks, PTL DEF Spec, ImplementsTranscript, Promise!Spec
=============================================================================
