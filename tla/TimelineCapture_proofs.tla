------------------------ MODULE TimelineCapture_proofs ----------------------
(***************************************************************************)
(* Proofs about what the daemon's capture and the store's queue do with    *)
(* what a runtime publishes, on top of Timeline_proofs.                    *)
(*                                                                         *)
(* The argument: what a runtime has published is what the timeline will    *)
(* have when everything queued is done (Capturing), or, while the timeline *)
(* is being opened, what the opening is given and the envelopes observed   *)
(* since (Opening).  Each step moves commits from one place to the next    *)
(* and keeps what replaying them all comes to.                             *)
(***************************************************************************)
EXTENDS Timeline_proofs

-----------------------------------------------------------------------------
(* The inductive invariants.                                               *)

Goals   == RetireGoals \cup {"reopen"}
Flushes == [goal : Goals, pass : 1 .. 3, left : Nat]

\* A flush waits for commits that are queued or pending.
Waits(f, operations, pending) ==
    f # NoFlush => f.left <= CommitsIn(operations) + Len(pending)

FlushInv ==
    /\ capture \in {"none", "opening", "capturing", "retiring"}
    /\ capture # "opening" => buffered = <<>>
    /\ flush \in Flushes \cup {NoFlush}
    /\ capture = "retiring" <=> flush # NoFlush /\ flush.goal # "reopen"
    /\ ~fatal => Waits(flush, tail, batch)

\* Operations queued behind an opening, and behind a capture.
Subscriptions(q) == \A i \in 1 .. Len(q) : q[i].op = "subscribe"

Calm(q) == \A i \in 1 .. Len(q) : \/ q[i].op = "subscribe"
                                  \/ q[i].op = "drain" /\ Subscriptions(q[i].then)

\* A content, the operations queued and the commits pending come to another.
Comes(log, q, pending, content) == Replay(Outcome(log, q), pending) = content

\* The opening is the first operation, and the runtime has gone on from what
\* it is given by what is buffered.
Opening ==
    /\ tail # <<>> /\ Head(tail).op = "open"
    /\ Subscriptions(Tail(tail))
    /\ Replay(Head(tail).log, buffered) = runtime

\* The timeline is open, nothing queued replaces it, and it comes to what the
\* runtime has.
Capturing ==
    /\ mem # NoState
    /\ Calm(tail)
    /\ Comes(mem.log, tail, batch, runtime)

FaithInv ==
    counts.rewinds = 0 /\ ~fatal =>
        /\ capture # "capturing" => batch = <<>>
        /\ flush # NoFlush => flush.goal # "reopen"
        /\ capture = "opening" => Opening
        /\ capture = "capturing" => Capturing

-----------------------------------------------------------------------------
(* How many commits are queued.                                            *)

Weight(o) == IF o.op = "drain" THEN Len(o.commits) ELSE 0

\* The steps by which CommitsIn() adds them up.
Adding(operations) ==
    [n \in 1 .. Len(operations) |-> [x \in Int |-> x + Weight(operations[n])]]

\* What an operation of the queue weighs.
LEMMA WeightFacts ==
    ASSUME NEW o \in Operations
    PROVE  Weight(o) \in Nat
<1>1. CASE o \in Plain
  BY <1>1 DEF Plain, Weight
<1>2. CASE o \in Drains
  <2>1. o.commits \in Seq(Envelopes)
    BY <1>2 DEF Drains
  <2> QED
    BY <2>1, LenProperties DEF Weight
<1> QED
  BY <1>1, <1>2 DEF Operations

\* The steps add natural numbers to integers.
LEMMA AddingFacts ==
    ASSUME NEW q \in Seq(Operations)
    PROVE  /\ Len(q) \in Nat /\ Steps(Adding(q), Len(q), Int)
           /\ \A n \in 1 .. Len(q) : /\ q[n] \in Operations /\ Weight(q[n]) \in Nat
                                     /\ \A x \in Int : Adding(q)[n][x] = x + Weight(q[n])
<1>1. Len(q) \in Nat /\ \A n \in 1 .. Len(q) : q[n] \in Operations
  BY LenProperties, ElementOfSeq
<1>2. \A n \in 1 .. Len(q) : Weight(q[n]) \in Nat
  BY <1>1, WeightFacts
<1>3. Adding(q) \in [1 .. Len(q) -> [Int -> Int]]
  BY <1>2 DEF Adding
<1> QED
  BY <1>1, <1>2, <1>3 DEF Adding, Steps

\* CommitsIn() is where these steps end.
Tallies(f, q) == /\ f \in [0 .. Len(q) -> Int]
                 /\ Runs(f, Len(q), 0, Adding(q))

\* CommitsIn() counts by taking these steps from zero.
LEMMA Tally ==
    ASSUME NEW q \in Seq(Operations)
    PROVE  \E f : Tallies(f, q) /\ CommitsIn(q) = f[Len(q)]
<1> DEFINE Sums(g) == g = [n \in 0 .. Len(q) |->
                              IF n = 0 THEN 0
                              ELSE IF q[n].op = "drain"
                                THEN g[n - 1] + Len(q[n].commits) ELSE g[n - 1]]
           K == CHOOSE g : Sums(g)
<1>1. CommitsIn(q) = K[Len(q)]
  BY DEF CommitsIn
<1>2a. PICK N \in Nat : N = Len(q) /\ Steps(Adding(q), N, Int)
  BY AddingFacts
<1>2. PICK s : N = Len(q) /\ s = Adding(q) /\ Steps(s, N, Int)
  BY <1>2a
<1>3. PICK f \in [0 .. N -> Int] : Runs(f, N, 0, s)
  <2>1. PICK S : S = Int
    OBVIOUS
  <2>2. PICK base \in S : base = 0
    BY <2>1
  <2>3. PICK f \in [0 .. N -> S] : Runs(f, N, base, s)
    BY <1>2, <2>1, Recursion
  <2> QED
    BY <2>1, <2>2, <2>3
<1>4. Tallies(f, q)
  BY <1>2, <1>3 DEF Tallies
<1>5. \A n \in 1 .. N : f[n - 1] \in Int /\ f[n] = f[n - 1] + Weight(q[n])
  <2> SUFFICES ASSUME NEW n \in 1 .. N
               PROVE  f[n - 1] \in Int /\ f[n] = f[n - 1] + Weight(q[n])
    OBVIOUS
  <2>1. f[n] = s[n][f[n - 1]] /\ n - 1 \in 0 .. N
    BY <1>3 DEF Runs
  <2>2. f[n - 1] \in Int
    BY <2>1
  <2> QED
    BY <1>2, <2>1, <2>2, AddingFacts
<1>6. Sums(f)
  <2> DEFINE g == [n \in 0 .. Len(q) |->
                      IF n = 0 THEN 0
                      ELSE IF q[n].op = "drain"
                        THEN f[n - 1] + Len(q[n].commits) ELSE f[n - 1]]
  <2>1. ASSUME NEW n \in 0 .. N PROVE f[n] = g[n]
    <3>1. CASE n = 0
      BY <1>2, <1>3, <3>1 DEF Runs
    <3>2. CASE n # 0
      <4>1. n \in 1 .. N
        BY <3>2
      <4>2. f[n - 1] \in Int /\ f[n] = f[n - 1] + Weight(q[n])
        BY <1>5, <4>1
      <4>3. CASE q[n].op = "drain"
        BY <1>2, <3>2, <4>2, <4>3 DEF Weight
      <4>4. CASE q[n].op # "drain"
        BY <1>2, <3>2, <4>2, <4>4 DEF Weight
      <4> QED
        BY <4>3, <4>4
    <3> QED
      BY <3>1, <3>2
  <2>2. DOMAIN f = 0 .. N /\ DOMAIN g = 0 .. N
    BY <1>2
  <2>3. f = [n \in DOMAIN f |-> f[n]] /\ g = [n \in DOMAIN g |-> g[n]]
    OBVIOUS
  <2>4. f = g
    <3> HIDE DEF g
    <3> QED
      BY <2>1, <2>2, <2>3
  <2> QED
    BY <2>4
<1>7. Sums(K)
  <2> HIDE DEF Sums
  <2> QED
    BY <1>6
<1>8. PICK k : k = K
  OBVIOUS
<1>9. Sums(k)
  <2> HIDE DEF Sums, K
  <2> QED
    BY <1>7, <1>8
<1>10. CommitsIn(q) = k[Len(q)]
  <2> HIDE DEF K
  <2> QED
    BY <1>1, <1>8
<1>11. /\ k[0] = 0
       /\ \A n \in 1 .. N : k[n] = IF q[n].op = "drain"
                                     THEN k[n - 1] + Len(q[n].commits) ELSE k[n - 1]
  <2>1. \A n \in 0 .. N :
            k[n] = IF n = 0 THEN 0
                   ELSE IF q[n].op = "drain"
                     THEN k[n - 1] + Len(q[n].commits) ELSE k[n - 1]
    BY <1>2, <1>9
  <2>2. \A n \in 1 .. N : n \in 0 .. N /\ n # 0
    OBVIOUS
  <2> QED
    BY <2>1, <2>2
<1> DEFINE G == {n \in 0 .. N : k[n] = f[n]}
<1>12. 0 \in G
  BY <1>3, <1>11 DEF Runs
<1>13. ASSUME NEW n \in 0 .. N - 1, n \in G PROVE n + 1 \in G
  <2>1. n + 1 \in 1 .. N /\ n + 1 \in 0 .. N /\ n + 1 - 1 = n /\ k[n] = f[n]
    BY <1>13
  <2>2. /\ k[n + 1] = IF q[n + 1].op = "drain"
                        THEN k[n] + Len(q[n + 1].commits) ELSE k[n]
        /\ f[n] \in Int /\ f[n + 1] = f[n] + Weight(q[n + 1])
    BY <1>5, <1>11, <2>1
  <2> QED
    BY <2>1, <2>2 DEF Weight
<1>14. 0 .. N \subseteq G
  <2> HIDE DEF G
  <2> QED
    BY <1>12, <1>13, Induct
<1>15. N \in G
  BY <1>14
<1> QED
  BY <1>2, <1>4, <1>10, <1>15

\* A tally goes up.
LEMMA TallyRises ==
    ASSUME NEW q \in Seq(Operations), NEW f, Tallies(f, q), NEW m \in 0 .. Len(q)
    PROVE  f[m] \in Int /\ f[Len(q)] \in Int /\ f[m] <= f[Len(q)]
<1>1. PICK N \in Nat : N = Len(q)
  BY AddingFacts
<1>2. f \in [0 .. N -> Int] /\ m \in 0 .. N
  BY <1>1 DEF Tallies
<1>3. \A n \in 1 .. N : f[n - 1] \in Int /\ f[n] \in Int /\ f[n] >= f[n - 1]
  <2> SUFFICES ASSUME NEW n \in 1 .. N
               PROVE  f[n - 1] \in Int /\ f[n] \in Int /\ f[n] >= f[n - 1]
    OBVIOUS
  <2>1. n - 1 \in 0 .. N /\ n \in 0 .. N
    OBVIOUS
  <2>2. f[n - 1] \in Int /\ f[n] \in Int
    BY <1>2, <2>1
  <2>3. f[n] = Adding(q)[n][f[n - 1]]
    BY <1>1 DEF Tallies, Runs
  <2>4. f[n] = f[n - 1] + Weight(q[n]) /\ Weight(q[n]) \in Nat
    BY <1>1, <2>2, <2>3, AddingFacts
  <2> QED
    BY <2>2, <2>4
<1> DEFINE G == {k \in 0 .. N - m : f[m] <= f[m + k]}
<1>4. 0 \in G
  BY <1>2
<1>5. ASSUME NEW k \in 0 .. N - m - 1, k \in G PROVE k + 1 \in G
  <2>1. k + 1 \in 0 .. N - m /\ m + (k + 1) \in 1 .. N /\ m + (k + 1) - 1 = m + k
    BY <1>2
  <2>2. f[m + k] \in Int /\ f[m + (k + 1)] \in Int /\ f[m + (k + 1)] >= f[m + k]
    BY <1>3, <2>1
  <2>3. f[m] \in Int /\ f[m] <= f[m + k]
    BY <1>2, <1>5
  <2> QED
    BY <2>1, <2>2, <2>3
<1>6. 0 .. N - m \subseteq G
  <2>1. PICK K \in Nat : K = N - m
    BY <1>2
  <2> HIDE DEF G
  <2>2. \A k \in 0 .. K - 1 : k \in G => k + 1 \in G
    BY <1>5, <2>1
  <2> QED
    BY <1>4, <2>1, <2>2, Induct
<1>7. N - m \in G /\ m + (N - m) = N
  BY <1>2, <1>6
<1> QED
  BY <1>1, <1>2, <1>7

\* The number of commits queued is a number.
LEMMA CommitsType ==
    ASSUME NEW q \in Seq(Operations)
    PROVE  CommitsIn(q) \in Nat
<1>1. PICK f : Tallies(f, q) /\ CommitsIn(q) = f[Len(q)]
  BY Tally
<1>2. 0 \in 0 .. Len(q) /\ f[0] = 0
  BY <1>1, AddingFacts DEF Tallies, Runs
<1>3. f[Len(q)] \in Int /\ f[0] <= f[Len(q)]
  BY <1>1, <1>2, TallyRises
<1> QED
  BY <1>1, <1>2, <1>3

\* An operation that is queued adds its commits.
LEMMA CommitsMore ==
    ASSUME NEW q \in Seq(Operations), NEW o \in Operations
    PROVE  CommitsIn(Append(q, o)) = CommitsIn(q) + Weight(o)
<1>1. PICK a \in Seq(Operations) : a = Append(q, o)
  BY AppendProperties
<1>2. PICK N \in Nat : N = Len(q)
  BY AddingFacts
<1>3. Len(a) = N + 1 /\ a[N + 1] = o /\ \A k \in 1 .. N : a[k] = q[k]
  BY <1>1, <1>2, AppendProperties
<1>4. PICK f : Tallies(f, q) /\ CommitsIn(q) = f[N]
  BY <1>2, Tally
<1>5. PICK g : Tallies(g, a) /\ CommitsIn(a) = g[N + 1]
  BY <1>3, Tally
<1>6. \A k \in 1 .. N : Adding(q)[k] = Adding(a)[k]
  BY <1>2, <1>3 DEF Adding
<1>7. f[N] = g[N]
  <2>1. Runs(f, N, 0, Adding(q)) /\ Runs(g, N + 1, 0, Adding(a))
    BY <1>2, <1>3, <1>4, <1>5 DEF Tallies
  <2>2. N + 1 \in Nat /\ N <= N /\ N <= N + 1
    OBVIOUS
  <2> QED
    BY <1>6, <2>1, <2>2, RunsAgree
<1>8. g[N + 1] = g[N] + Weight(o)
  <2>1. N + 1 \in 1 .. Len(a) /\ N + 1 - 1 = N /\ N \in 0 .. Len(a)
    BY <1>3
  <2>2. g[N + 1] = Adding(a)[N + 1][g[N]] /\ g[N] \in Int
    BY <1>5, <2>1 DEF Tallies, Runs
  <2> QED
    BY <1>3, <2>1, <2>2, AddingFacts
<1> QED
  BY <1>1, <1>4, <1>5, <1>7, <1>8

\* What remains of the queue behind its first operation, with more behind it.
LEMMA RestFacts ==
    ASSUME NEW t \in Seq(Operations), t # <<>>, NEW q \in Seq(Operations)
    PROVE  \E r \in Seq(Operations), n \in Nat, m \in Nat :
               /\ r = Tail(t) \o q /\ Len(t) = n + 1 /\ Len(q) = m /\ Len(r) = n + m
               /\ Head(t) = t[1] /\ t[1] \in Operations
               /\ \A k \in 1 .. n : r[k] = t[k + 1]
               /\ \A k \in 1 .. m : r[n + k] = q[k]
<1>1. PICK u \in Seq(Operations), n \in Nat :
          /\ u = Tail(t) /\ Len(t) = n + 1 /\ Len(u) = n
          /\ \A k \in 1 .. n : u[k] = t[k + 1]
  <2>1. Tail(t) \in Seq(Operations) /\ Len(Tail(t)) = Len(t) - 1 /\ Len(t) \in Nat
    BY HeadTailProperties, LenProperties
  <2>2. Len(t) # 0
    BY EmptySeq
  <2>3. \A k \in 1 .. Len(t) - 1 : Tail(t)[k] = t[k + 1]
    BY HeadTailProperties
  <2>4. PICK n \in Nat : Len(t) = n + 1
    <3>1. Len(t) - 1 \in Nat /\ Len(t) = (Len(t) - 1) + 1
      BY <2>1, <2>2
    <3> QED
      BY <3>1
  <2>5. Len(t) - 1 = n
    BY <2>4
  <2> QED
    BY <2>1, <2>3, <2>4, <2>5
<1>2. PICK m \in Nat : Len(q) = m
  BY LenProperties
<1>3. PICK r \in Seq(Operations) : r = u \o q
  BY ConcatProperties
<1>4. /\ Len(r) = n + m
      /\ \A k \in 1 .. n + m : r[k] = IF k <= n THEN u[k] ELSE q[k - n]
  BY <1>1, <1>2, <1>3, ConcatProperties
<1>5. ASSUME NEW k \in 1 .. n PROVE r[k] = t[k + 1]
  <2>1. k \in 1 .. n + m /\ k <= n
    OBVIOUS
  <2> QED
    BY <1>1, <1>4, <2>1
<1>6. ASSUME NEW k \in 1 .. m PROVE r[n + k] = q[k]
  <2>1. n + k \in 1 .. n + m /\ ~(n + k <= n) /\ n + k - n = k
    OBVIOUS
  <2> QED
    BY <1>4, <2>1
<1>7. Head(t) = t[1] /\ t[1] \in Operations
  <2>1. Head(t) = t[1] /\ Head(t) \in Operations
    BY HeadTailProperties
  <2> QED
    BY <2>1
<1> QED
  BY <1>1, <1>2, <1>3, <1>4, <1>5, <1>6, <1>7

\* An operation that is carried out takes its commits with it, and no others.
LEMMA CommitsRest ==
    ASSUME NEW t \in Seq(Operations), t # <<>>, NEW q \in Seq(Operations)
    PROVE  CommitsIn(Tail(t) \o q) >= CommitsIn(t) - Weight(Head(t))
<1>1. PICK r \in Seq(Operations), n \in Nat, m \in Nat :
          /\ r = Tail(t) \o q /\ Len(t) = n + 1 /\ Len(q) = m /\ Len(r) = n + m
          /\ Head(t) = t[1] /\ t[1] \in Operations
          /\ \A k \in 1 .. n : r[k] = t[k + 1]
          /\ \A k \in 1 .. m : r[n + k] = q[k]
  BY RestFacts
<1>2. PICK w \in Nat : w = Weight(t[1])
  BY <1>1, WeightFacts
<1>3. PICK f : Tallies(f, t) /\ CommitsIn(t) = f[n + 1]
  BY <1>1, Tally
<1>4. PICK g : Tallies(g, r) /\ CommitsIn(r) = g[n + m]
  BY <1>1, Tally
<1>5. /\ \A k \in 0 .. n + 1 : f[k] \in Int
      /\ \A k \in 1 .. n + 1 : f[k] = f[k - 1] + Weight(t[k])
      /\ f[1] = w
  <2>1. ASSUME NEW k \in 0 .. n + 1 PROVE f[k] \in Int
    BY <1>1, <1>3 DEF Tallies
  <2>2. ASSUME NEW k \in 1 .. n + 1 PROVE f[k] = f[k - 1] + Weight(t[k])
    <3>1. k - 1 \in 0 .. n + 1 /\ k \in 1 .. Len(t)
      BY <1>1
    <3>2. f[k] = Adding(t)[k][f[k - 1]] /\ f[k - 1] \in Int
      BY <1>3, <2>1, <3>1 DEF Tallies, Runs
    <3> QED
      BY <3>1, <3>2, AddingFacts
  <2>3. f[0] = 0 /\ 1 \in 1 .. n + 1 /\ 1 - 1 = 0
    BY <1>3 DEF Tallies, Runs
  <2> QED
    BY <1>2, <2>1, <2>2, <2>3
<1>6. PICK h : h = [k \in 0 .. n |-> f[k + 1] - w]
  OBVIOUS
<1>7. Runs(h, n, 0, Adding(r))
  <2>1. h[0] = 0
    <3>1. 0 \in 0 .. n /\ 0 + 1 = 1
      OBVIOUS
    <3> QED
      BY <1>5, <1>6, <3>1
  <2>2. ASSUME NEW k \in 1 .. n PROVE h[k] = Adding(r)[k][h[k - 1]]
    <3>1. /\ k \in 0 .. n /\ k - 1 \in 0 .. n /\ k - 1 + 1 = k /\ k \in 1 .. Len(r)
          /\ k + 1 \in 1 .. n + 1 /\ k + 1 - 1 = k /\ k \in 0 .. n + 1
      BY <1>1
    <3>2. h[k] = f[k + 1] - w /\ h[k - 1] = f[k] - w
      BY <1>6, <3>1
    <3>3. f[k + 1] = f[k] + Weight(r[k]) /\ f[k] \in Int
      BY <1>1, <1>5, <3>1
    <3>4. Weight(r[k]) \in Nat
      BY <3>1, AddingFacts
    <3>5. h[k - 1] \in Int /\ h[k] = h[k - 1] + Weight(r[k])
      BY <3>2, <3>3, <3>4
    <3> QED
      BY <3>1, <3>5, AddingFacts
  <2> QED
    BY <2>1, <2>2 DEF Runs
<1>8. h[n] = g[n]
  <2>1. Runs(g, n + m, 0, Adding(r)) /\ n + m \in Nat /\ n <= n /\ n <= n + m
    BY <1>1, <1>4 DEF Tallies
  <2>2. \A k \in 1 .. n : Adding(r)[k] = Adding(r)[k]
    OBVIOUS
  <2> QED
    BY <1>7, <2>1, <2>2, RunsAgree
<1>9. g[n] <= g[n + m] /\ g[n] \in Int /\ g[n + m] \in Int
  <2>1. n \in 0 .. Len(r)
    BY <1>1
  <2> QED
    BY <1>1, <1>4, <2>1, TallyRises
<1>10. h[n] = f[n + 1] - w /\ f[n + 1] \in Int
  <2>1. n \in 0 .. n /\ n + 1 \in 0 .. n + 1
    OBVIOUS
  <2> QED
    BY <1>5, <1>6, <2>1
<1> QED
  BY <1>1, <1>2, <1>3, <1>4, <1>8, <1>9, <1>10

-----------------------------------------------------------------------------
(* A flush waits for what there is.                                        *)

\* The commits that a flush may wait for.
Pending(operations, pending) == CommitsIn(operations) + Len(pending)

\* The commits that a flush may wait for are counted by a natural number.
LEMMA PendingType ==
    ASSUME NEW q \in Seq(Operations), NEW b \in Seq(Envelopes)
    PROVE  Pending(q, b) \in Nat /\ CommitsIn(q) \in Nat /\ Len(b) \in Nat
  BY CommitsType, LenProperties DEF Pending

\* A batch that is queued is still pending.
LEMMA QueuedPending ==
    ASSUME NEW q \in Seq(Operations), NEW b \in Seq(Envelopes), NEW p \in Seq(Plain)
    PROVE  Pending(Append(q, Drain(b, p)), <<>>) = Pending(q, b)
<1>1. Drain(b, p) \in Operations /\ Weight(Drain(b, p)) = Len(b)
  BY DrainType DEF Drain, Weight
<1>2. CommitsIn(Append(q, Drain(b, p))) = CommitsIn(q) + Len(b)
  BY <1>1, CommitsMore
<1>3. Len(<<>>) = 0
  OBVIOUS
<1> QED
  BY <1>2, <1>3, PendingType DEF Pending

\* Queueing an operation leaves as many commits pending.
LEMMA CallPending ==
    ASSUME QueueTypes, NEW o \in Plain, Call(o)
    PROVE  Pending(tail', batch') = Pending(tail, batch)
<1>1. batch \in Seq(Envelopes) /\ tail \in Seq(Operations) /\ o \in Operations
  BY DEF QueueTypes, Operations
<1>2. CASE batch = <<>>
  <2>1. tail' = Append(tail, o) /\ batch' = batch
    BY <1>2 DEF Call
  <2>2. Weight(o) = 0
    BY DEF Plain, Weight
  <2>3. CommitsIn(Append(tail, o)) = CommitsIn(tail) + 0
    BY <1>1, <2>2, CommitsMore
  <2> QED
    BY <1>1, <2>1, <2>3, PendingType DEF Pending
<1>3. CASE batch # <<>>
  <2>1. tail' = Append(tail, Drain(batch, <<o>>)) /\ batch' = <<>>
    BY <1>3 DEF Call
  <2>2. <<o>> \in Seq(Plain)
    OBVIOUS
  <2> QED
    BY <1>1, <2>1, <2>2, QueuedPending
<1> QED
  BY <1>2, <1>3

\* A step that neither starts nor ends a stage nor takes commits away.
LEMMA FlushAside ==
    ASSUME FlushInv, QueueTypes, QueueTypes', UNCHANGED <<capture, flush>>,
           capture # "opening" => buffered' = buffered,
           ~fatal' => ~fatal /\ Pending(tail', batch') >= Pending(tail, batch)
    PROVE  FlushInv'
<1>1. ASSUME ~fatal', flush # NoFlush PROVE flush.left <= Pending(tail', batch')
  <2>1. PICK n \in Nat, i \in Nat, j \in Nat :
            n = flush.left /\ i = Pending(tail, batch) /\ j = Pending(tail', batch')
    BY <1>1, PendingType DEF FlushInv, Flushes, QueueTypes
  <2>2. n <= i /\ j >= i
    BY <1>1, <2>1 DEF FlushInv, Waits, Pending
  <2> QED
    BY <2>1, <2>2
<1> QED
  BY <1>1 DEF FlushInv, Waits, Pending

\* What flushCapture() begins.
LEMMA FlushBegins ==
    ASSUME QueueTypes', NEW goal \in Goals, NEW p, FlushCapture(goal, p)
    PROVE  flush' \in Flushes /\ flush'.goal = goal /\ Waits(flush', tail', batch')
<1>1. PICK q \in Seq(Operations), b \in Seq(Envelopes) : q = tail' /\ b = batch'
  BY DEF QueueTypes
<1>2. flush' = [goal |-> goal, pass |-> 1, left |-> CommitsIn(q)]
  BY <1>1 DEF FlushCapture
<1>3. CommitsIn(q) \in Nat /\ Len(b) \in Nat
  BY PendingType
<1> QED
  BY <1>1, <1>2, <1>3 DEF Flushes, Waits

\* NoFlush is none of the flushes.
LEMMA NotFlush == NoFlush \notin Flushes
<1>1. ASSUME NoFlush \in Flushes PROVE FALSE
  <2>1. "left" \in DOMAIN NoFlush
    BY <1>1 DEF Flushes
  <2>2. DOMAIN NoFlush = {"goal"}
    BY DEF NoFlush
  <2> QED
    BY <2>1, <2>2
<1> QED
  BY <1>1

\* Every step keeps it.
LEMMA FlushNext ==
    ASSUME DiskInv, QueueTypes', FlushInv, [Next]_vars
    PROVE  FlushInv'
<1>0. /\ QueueTypes /\ batch \in Seq(Envelopes) /\ tail \in Seq(Operations)
      /\ batch' \in Seq(Envelopes) /\ tail' \in Seq(Operations)
  BY DEF DiskInv, QueueTypes
<1>1. Pending(tail, batch) \in Nat /\ Pending(tail', batch') \in Nat
  BY <1>0, PendingType
<1>2. ASSUME UNCHANGED <<tail, batch, capture, buffered, flush>>, ~fatal' => ~fatal
      PROVE  FlushInv'
  <2>1. Pending(tail', batch') >= Pending(tail, batch)
    BY <1>1, <1>2
  <2> QED
    BY <1>0, <1>2, <2>1, FlushAside
<1>3. ASSUME NEW o \in Plain, Call(o), UNCHANGED <<capture, buffered, flush, fatal>>
      PROVE  FlushInv'
  <2>1. Pending(tail', batch') >= Pending(tail, batch)
    BY <1>0, <1>1, <1>3, CallPending
  <2> QED
    BY <1>0, <1>3, <2>1, FlushAside
<1>4. CASE Timer
  <2>1. /\ tail' = Append(tail, Drain(batch, <<>>)) /\ batch' = <<>>
        /\ UNCHANGED <<capture, buffered, flush, fatal>>
    BY <1>4 DEF Timer, daemon
  <2>2. Pending(tail', batch') = Pending(tail, batch)
    BY <1>0, <2>1, NoEnvelopes, QueuedPending
  <2> QED
    BY <1>0, <1>1, <2>1, <2>2, FlushAside
<1>5. ASSUME tail # <<>>, Weight(Head(tail)) = 0, NEW q, q = Tail(tail), tail' = q,
             UNCHANGED <<capture, flush, fatal>>,
             capture # "opening" => UNCHANGED buffered, Len(batch') >= Len(batch)
      PROVE  FlushInv'
  <2>1. Tail(tail) \o <<>> = Tail(tail)
    BY <1>0, <1>5, HeadTailProperties, ConcatEmptySeq
  <2>2. CommitsIn(Tail(tail) \o <<>>) >= CommitsIn(tail) - Weight(Head(tail))
    BY <1>0, <1>5, NoEnvelopes, CommitsRest
  <2>3. CommitsIn(tail') \in Nat /\ CommitsIn(tail) \in Nat
    BY <1>0, CommitsType
  <2>4. Len(batch) \in Nat /\ Len(batch') \in Nat
    BY <1>0, LenProperties
  <2>5. Pending(tail', batch') >= Pending(tail, batch)
    BY <1>5, <2>1, <2>2, <2>3, <2>4 DEF Pending
  <2> QED
    BY <1>0, <1>5, <2>5, FlushAside
<1>6. CASE RunDrain
  <2>1. /\ tail # <<>> /\ Head(tail).op = "drain" /\ ~fatal /\ fatal' = fatal
        /\ tail' = Tail(tail) \o Head(tail).then
        /\ Awaits(Len(Head(tail).commits)) /\ UNCHANGED <<batch, capture, buffered>>
    BY <1>6 DEF RunDrain, Doing, Idling
  <2>2. Head(tail).then \in Seq(Operations) /\ Head(tail).commits \in Seq(Envelopes)
    <3>1. Seq(Plain) \subseteq Seq(Operations)
      BY SeqMonotonic DEF Operations
    <3> QED
      BY <1>0, <2>1, <3>1, HeadFacts DEF Drains
  <2>3. PICK n \in Nat : n = Len(Head(tail).commits) /\ n = Weight(Head(tail))
    BY <2>1, <2>2, LenProperties DEF Weight
  <2>4. CommitsIn(tail') >= CommitsIn(tail) - n
    BY <1>0, <2>1, <2>2, <2>3, CommitsRest
  <2>5. PICK i \in Nat, j \in Nat, b \in Nat :
            i = CommitsIn(tail) /\ j = CommitsIn(tail') /\ b = Len(batch)
    BY <1>0, CommitsType, LenProperties
  <2>6. CASE flush = NoFlush
    BY <2>1, <2>6 DEF FlushInv, Waits, Awaits
  <2>7. CASE flush # NoFlush
    <3>1. flush \in Flushes /\ flush.left <= i + b
      BY <2>1, <2>5, <2>7 DEF FlushInv, Waits
    <3>2. flush' = [flush EXCEPT !.left = IF flush.left > n THEN flush.left - n ELSE 0]
      BY <2>1, <2>3, <2>7 DEF Awaits
    <3>3. /\ flush' \in Flushes /\ flush'.goal = flush.goal
          /\ flush'.left = IF flush.left > n THEN flush.left - n ELSE 0
      BY <3>1, <3>2 DEF Flushes
    <3>4. flush'.left <= j + b
      BY <2>3, <2>4, <2>5, <3>1, <3>3 DEF Flushes
    <3>5. Waits(flush', tail', batch')
      BY <2>1, <2>5, <3>4 DEF Waits
    <3>6. flush' # NoFlush
      BY <3>3, NotFlush
    <3> QED
      BY <2>1, <2>7, <3>3, <3>5, <3>6 DEF FlushInv
  <2> QED
    BY <2>6, <2>7
<1>7. CASE RunOpen
  <2>1. /\ tail # <<>> /\ Head(tail).op = "open" /\ Attached /\ tail' = Tail(tail)
        /\ ~fatal /\ UNCHANGED <<fatal, flush>>
    BY <1>7 DEF RunOpen, Doing, Idling
  <2>2. Weight(Head(tail)) = 0
    BY <2>1 DEF Weight
  <2>3. CASE capture = "opening"
    <3>1. PICK b \in Seq(Envelopes) : b = buffered
      BY DEF DiskInv, QueueTypes
    <3>2. capture' = "capturing" /\ batch' = batch \o b /\ buffered' = <<>>
      BY <2>1, <2>3, <3>1 DEF Attached
    <3>3. flush \in Flushes => flush.goal = "reopen"
      BY <2>3, NotFlush DEF FlushInv
    <3>4. Waits(flush, tail', batch')
      <4>1. CASE flush = NoFlush
        BY <4>1 DEF Waits
      <4>2. CASE flush # NoFlush
        <5>1. Tail(tail) \o <<>> = Tail(tail)
          BY <1>0, <2>1, HeadTailProperties, ConcatEmptySeq
        <5>2. CommitsIn(Tail(tail) \o <<>>) >= CommitsIn(tail) - Weight(Head(tail))
          BY <1>0, <2>1, NoEnvelopes, CommitsRest
        <5>3. Len(batch') = Len(batch) + Len(b) /\ Len(batch) \in Nat /\ Len(b) \in Nat
          BY <1>0, <3>1, <3>2, ConcatProperties, LenProperties
        <5>4. CommitsIn(tail') \in Nat /\ CommitsIn(tail) \in Nat
          BY <1>0, CommitsType
        <5>5. flush.left <= CommitsIn(tail) + Len(batch) /\ flush.left \in Nat
          BY <2>1, <4>2 DEF FlushInv, Waits, Flushes
        <5>6. flush.left <= CommitsIn(tail') + Len(batch')
          BY <2>1, <2>2, <5>1, <5>2, <5>3, <5>4, <5>5
        <5> QED
          BY <5>6 DEF Waits
      <4> QED
        BY <4>1, <4>2
    <3> QED
      BY <2>1, <2>3, <3>2, <3>3, <3>4 DEF FlushInv
  <2>4. CASE capture # "opening"
    <3>1. UNCHANGED <<capture, batch, buffered>>
      BY <2>1, <2>4 DEF Attached
    <3>2. Len(batch') >= Len(batch)
      BY <1>0, <3>1, LenProperties
    <3> QED
      BY <1>5, <2>1, <2>2, <3>1, <3>2
  <2> QED
    BY <2>3, <2>4
<1>8. CASE RunSubscribe \/ SubscribeFails \/ RunRelease \/ RunDelete
  <2>1. /\ tail # <<>> /\ Head(tail).op # "drain" /\ tail' = Tail(tail)
        /\ UNCHANGED <<batch, fatal, capture, buffered, flush>>
    BY <1>8 DEF RunSubscribe, SubscribeFails, RunRelease, RunDelete, Doing, daemon
  <2>2. Weight(Head(tail)) = 0
    BY <2>1 DEF Weight
  <2>3. Len(batch') >= Len(batch)
    BY <1>0, <2>1, LenProperties
  <2> QED
    BY <1>5, <2>1, <2>2, <2>3
<1>9. CASE UNCHANGED vars \/ DrainFails
  BY <1>2, <1>9 DEF vars, store, daemon, DrainFails
<1>10. CASE WriteFails
  <2>1. fatal' = TRUE /\ UNCHANGED <<capture, buffered, flush>>
    BY <1>10 DEF WriteFails, daemon
  <2> QED
    BY <2>1 DEF FlushInv
<1>11. CASE Crash \/ Restart
  <2>1. capture' = "none" /\ buffered' = <<>> /\ flush' = NoFlush
    BY <1>11 DEF Crash, Restart, StartsAnew
  <2> QED
    BY <2>1 DEF FlushInv, Waits
<1>12. CASE FlushPass
  <2>1. /\ flush # NoFlush /\ flush.pass < 3 /\ UNCHANGED <<tail, batch, capture, buffered, fatal>>
        /\ flush' = [flush EXCEPT
                        !.pass = @ + 1,
                        !.left = CommitsIn(tail) +
                                 (IF flush.pass = 2 THEN Len(batch) ELSE 0)]
    BY <1>12 DEF FlushPass, store
  <2>2. PICK i \in Nat, b \in Nat : i = CommitsIn(tail) /\ b = Len(batch)
    BY <1>0, CommitsType, LenProperties
  <2>3. flush \in Flushes
    BY <2>1 DEF FlushInv
  <2>4. PICK j \in Nat : j = i + (IF flush.pass = 2 THEN b ELSE 0) /\ j <= i + b
    BY <2>2
  <2>5. PICK p \in 1 .. 3 : p = flush.pass + 1
    BY <2>1, <2>3 DEF Flushes
  <2>6. flush' \in Flushes /\ flush'.goal = flush.goal /\ flush'.left = j
    <3>1. flush' = [flush EXCEPT !.pass = p, !.left = j]
      BY <2>1, <2>2, <2>4, <2>5
    <3> QED
      BY <2>3, <3>1 DEF Flushes
  <2>7. Waits(flush', tail', batch') /\ flush' # NoFlush
    BY <2>1, <2>2, <2>4, <2>6, NotFlush DEF Waits
  <2> QED
    BY <2>1, <2>6, <2>7 DEF FlushInv
<1>13. ASSUME NEW replace \in BOOLEAN, Attach(replace) PROVE FlushInv'
  <2>1. capture' = "opening" /\ flush' = NoFlush
    BY <1>13 DEF Attach
  <2> QED
    BY <2>1 DEF FlushInv, Waits
<1>14. ASSUME NEW kind \in Kinds, Publish(kind) PROVE FlushInv'
  <2>1. UNCHANGED <<tail, capture, flush, fatal>>
    BY <1>14 DEF Publish
  <2>2. /\ Len(batch) \in Nat /\ Len(batch') \in Nat /\ CommitsIn(tail) \in Nat
    BY <1>0, CommitsType, LenProperties
  <2>3. PICK e : /\ capture = "opening" => UNCHANGED batch
                 /\ capture # "opening" => batch' = Append(batch, e) /\ UNCHANGED buffered
    BY <1>14 DEF Publish
  <2>4. Len(batch') >= Len(batch)
    <3>1. Len(Append(batch, e)) = Len(batch) + 1
      OBVIOUS
    <3> QED
      BY <2>2, <2>3, <3>1
  <2>5. Pending(tail', batch') >= Pending(tail, batch)
    BY <2>1, <2>2, <2>4 DEF Pending
  <2> QED
    BY <1>0, <2>1, <2>3, <2>5, FlushAside
<1>15. CASE Rewind
  <2>1. PICK p : /\ capture = "capturing" /\ FlushCapture("reopen", p)
                 /\ UNCHANGED <<capture, buffered>>
    BY <1>15 DEF Rewind
  <2>2. "reopen" \in Goals
    BY DEF Goals
  <2>3. flush' \in Flushes /\ flush'.goal = "reopen" /\ Waits(flush', tail', batch')
    BY <2>1, <2>2, FlushBegins
  <2> QED
    BY <2>1, <2>3 DEF FlushInv
<1>16. CASE Reopen
  <2>1. /\ flush \in Flushes /\ flush # NoFlush /\ flush.goal = "reopen"
        /\ flush' = NoFlush /\ UNCHANGED <<capture, buffered>>
    BY <1>16 DEF Reopen, Flushed, FlushInv
  <2> QED
    BY <2>1 DEF FlushInv, Waits
<1>17. ASSUME NEW goal \in RetireGoals, Retire(goal) PROVE FlushInv'
  <2>1. /\ capture = "capturing" /\ capture' = "retiring" /\ FlushCapture(goal, batch)
        /\ UNCHANGED buffered
    BY <1>17 DEF Retire
  <2>2. goal \in Goals /\ goal # "reopen"
    BY DEF Goals, RetireGoals
  <2>3. flush' \in Flushes /\ flush'.goal = goal /\ Waits(flush', tail', batch')
    BY <2>1, <2>2, FlushBegins
  <2> QED
    BY <2>1, <2>2, <2>3, NotFlush DEF FlushInv
<1>18. ASSUME NEW goal \in RetireGoals, Retired(goal) PROVE FlushInv'
  <2>1. /\ flush # NoFlush /\ flush.goal = goal /\ capture' = "none"
        /\ flush' = NoFlush /\ UNCHANGED buffered
    BY <1>18 DEF Retired, Flushed
  <2>2. capture = "retiring"
    BY <2>1 DEF FlushInv, RetireGoals
  <2> QED
    BY <2>1, <2>2 DEF FlushInv, Waits
<1>19. ASSUME NEW f \in Followers, Subscribe(f) PROVE FlushInv'
  <2>1. Follow(f) \in Plain
    BY PlainTypes
  <2>2. Call(Follow(f)) /\ UNCHANGED <<capture, buffered, flush, fatal>>
    BY <1>19 DEF Subscribe, daemon
  <2> QED
    BY <1>3, <2>1, <2>2
<1>20. ASSUME NEW f \in Followers, Unsubscribe(f) PROVE FlushInv'
  <2>1. /\ Call(Release) \/ UNCHANGED <<tail, batch>>
        /\ UNCHANGED <<capture, buffered, flush, fatal>>
    BY <1>20 DEF Unsubscribe, daemon
  <2> QED
    BY <1>2, <1>3, <2>1, PlainTypes
<1> QED
  BY <1>4, <1>6, <1>7, <1>8, <1>9, <1>10, <1>11, <1>12, <1>13, <1>14, <1>15,
     <1>16, <1>17, <1>18, <1>19, <1>20 DEF Next, Operate

\* It holds throughout every behaviour.
LEMMA FlushesWait == Spec => [](DiskInv /\ FlushInv)
<1>1. Init => DiskInv /\ FlushInv
  BY DiskInit DEF Init, FlushInv, Waits
<1>2. DiskInv /\ FlushInv /\ [Next]_vars => (DiskInv /\ FlushInv)'
  <2> SUFFICES ASSUME DiskInv, FlushInv, [Next]_vars PROVE DiskInv' /\ FlushInv'
    OBVIOUS
  <2>1. DiskInv'
    BY DiskNext
  <2>2. QueueTypes'
    BY <2>1 DEF DiskInv
  <2> QED
    BY <2>1, <2>2, FlushNext
<1> QED
  BY <1>1, <1>2, PTL DEF Spec

\* timeline.ts and daemon.ts keep their stages apart: envelopes are buffered
\* only while the timeline is opened, a capture that is flushed for its
\* runtime to go is retiring, nobody follows a state that is forgotten, and a
\* flush never waits for more commits than there are to wait for.
THEOREM StagesHold == Spec => []TypeOK
<1>1. ASSUME DiskInv, FlushInv PROVE TypeOK
  <2>1. subs \subseteq Followers /\ (subs # {} => mem # NoState)
    BY <1>1 DEF DiskInv, StoreTypes, MemoryInv
  <2>2. ASSUME flush # NoFlush, ~fatal
        PROVE  /\ flush.goal \in RetireGoals \cup {"reopen"}
               /\ flush.left \in 0 .. CommitsIn(tail) + Len(batch)
    <3>1. flush \in Flushes /\ flush.left <= CommitsIn(tail) + Len(batch)
      BY <1>1, <2>2 DEF FlushInv, Waits
    <3>2. CommitsIn(tail) \in Nat /\ Len(batch) \in Nat
      BY <1>1, PendingType DEF DiskInv, QueueTypes
    <3> QED
      BY <3>1, <3>2 DEF Flushes, Goals
  <2>3. /\ capture \in {"none", "opening", "capturing", "retiring"}
        /\ buffered # <<>> => capture = "opening"
        /\ capture = "retiring" <=> flush # NoFlush /\ flush.goal # "reopen"
    BY <1>1 DEF FlushInv
  <2> QED
    BY <2>1, <2>2, <2>3 DEF TypeOK
<1> QED
  BY <1>1, FlushesWait, PTL

-----------------------------------------------------------------------------
(* What coalesced and published envelopes come to.                         *)

\* Replaying one envelope more.
LEMMA ReplayOne ==
    ASSUME NEW log \in Logs, NEW a \in Seq(Envelopes), NEW e \in Envelopes
    PROVE  /\ Append(a, e) \in Seq(Envelopes)
           /\ Replay(log, Append(a, e)) = Replay(Replay(log, a), <<e>>)
<1>1. Append(a, e) \in Seq(Envelopes) /\ Append(a, e) = a \o <<e>>
  BY AppendProperties, AppendIsConcat
<1>2. PICK w \in Seq(Envelopes) : w = <<e>>
  <2>1. <<e>> \in Seq(Envelopes)
    OBVIOUS
  <2> QED
    BY <2>1
<1>3. Replay(log, a \o w) = Replay(Replay(log, a), w)
  BY ReplayAppend
<1> QED
  BY <1>1, <1>2, <1>3

\* What a runtime publishes continues its content by one event.
LEMMA ReplayPublished ==
    ASSUME NEW log \in Logs, NEW id \in Nat, NEW n \in Nat, NEW kind,
           kind \in {"delta", "turn", "snapshot"}, NEW e,
           e = IF kind = "delta" THEN Delta(n, id) ELSE Whole(kind, Append(log, id))
    PROVE  e \in Envelopes /\ Replay(log, <<e>>) = Append(log, id)
<1>1. Append(log, id) \in Logs /\ Append(log, id) = log \o <<id>>
  BY AppendProperties, AppendIsConcat DEF Logs
<1>2. CASE kind = "delta"
  <2>1. e \in Deltas /\ e.id = id
    BY <1>2 DEF Delta, Deltas
  <2>2. <<e>> \in Seq(Deltas) /\ Len(<<e>>) = 1 /\ <<e>>[1] = e
    BY <2>1
  <2>3. PICK x \in Logs : x = Ids(<<e>>) /\ Len(x) = 1 /\ x[1] = id
    <3>1. /\ Ids(<<e>>) \in Logs /\ Len(Ids(<<e>>)) = Len(<<e>>)
          /\ \A i \in 1 .. Len(<<e>>) : Ids(<<e>>)[i] = <<e>>[i].id
      BY <2>2, IdsFacts
    <3>2. 1 \in 1 .. Len(<<e>>)
      BY <2>2
    <3> QED
      BY <2>1, <2>2, <3>1, <3>2
  <2>4. PICK y \in Logs : y = <<id>> /\ Len(y) = 1 /\ y[1] = id
    <3>1. <<id>> \in Seq(Nat) /\ Len(<<id>>) = 1 /\ <<id>>[1] = id
      OBVIOUS
    <3> QED
      BY <3>1 DEF Logs
  <2>5. x = y
    <3>1. \A i \in 1 .. Len(x) : x[i] = y[i]
      BY <2>3, <2>4
    <3> QED
      BY <2>3, <2>4, <3>1, SeqEqual DEF Logs
  <2>6. Replay(log, <<e>>) = log \o Ids(<<e>>)
    BY <2>2, ReplayDeltas
  <2> QED
    BY <1>1, <2>1, <2>3, <2>4, <2>5, <2>6 DEF Envelopes
<1>3. CASE kind # "delta"
  <2>1. PICK l \in Logs : l = Append(log, id)
    BY <1>1
  <2>2. PICK k \in {"turn", "snapshot"}, w \in Wholes :
            k = kind /\ w = Whole(k, l) /\ w.log = l
    <3>1. Whole(kind, l) \in Wholes
      BY <1>3 DEF Whole, Wholes
    <3>2. Whole(kind, l).log = l
      BY DEF Whole
    <3> QED
      BY <1>3, <3>1, <3>2
  <2>3. e \in Wholes /\ e.log = l
    BY <1>3, <2>1, <2>2
  <2> QED
    BY <2>1, <2>3, ReplaySnapshot DEF Envelopes
<1> QED
  BY <1>2, <1>3

\* Coalescing loses only envelopes that the next one supersedes.
LEMMA ReplayCoalesced ==
    ASSUME NEW log \in Logs, NEW c \in Seq(Envelopes)
    PROVE  Replay(log, Coalesced(c)) = Replay(log, c)
<1>1. PICK k : Coalesces(k, c)
  BY Coalescing
<1>2. PICK N \in Nat : N = Len(c) /\ \A i \in 1 .. N : c[i] \in Envelopes
  BY LenProperties, ElementOfSeq
<1>3. /\ k[0] = <<>> /\ Coalesced(c) = k[N]
      /\ \A n \in 1 .. N :
             k[n] = IF Lasts(c, n) THEN Append(k[n - 1], c[n]) ELSE k[n - 1]
  BY <1>1, <1>2 DEF Coalesces
<1>4. PICK p : p = [n \in 0 .. N |-> SubSeq(c, 1, n)]
  OBVIOUS
<1>5. /\ p[0] = <<>> /\ p[N] = c
      /\ \A n \in 0 .. N : p[n] \in Seq(Envelopes)
      /\ \A n \in 0 .. N - 1 : p[n + 1] = Append(p[n], c[n + 1])
  <2>1. p[0] = <<>>
    <3>1. 0 \in 0 .. N /\ 0 < 1
      OBVIOUS
    <3> QED
      BY <1>4, <3>1, SubSeqEmpty
  <2>2. p[N] = c
    BY <1>2, <1>4, SubSeqFull
  <2>3. ASSUME NEW n \in 0 .. N PROVE p[n] \in Seq(Envelopes)
    <3>1. \A i \in 1 .. n : c[i] \in Envelopes
      BY <1>2
    <3> QED
      BY <1>4, <3>1, SubSeqProperties
  <2>4. ASSUME NEW n \in 0 .. N - 1 PROVE p[n + 1] = Append(p[n], c[n + 1])
    <3>1. /\ n + 1 \in 1 .. N /\ n + 1 \in 0 .. N /\ n \in 0 .. N /\ 1 \in 1 .. N
          /\ n + 1 - 1 = n
      OBVIOUS
    <3>2. SubSeq(c, 1, n + 1) = SubSeq(c, 1, n + 1 - 1) \o <<c[n + 1]>>
      BY <1>2, <3>1, SubSeqRecursiveSecond
    <3>3. Append(p[n], c[n + 1]) = p[n] \o <<c[n + 1]>>
      BY <1>2, <2>3, <3>1, AppendIsConcat
    <3> QED
      BY <1>4, <3>1, <3>2, <3>3
  <2> QED
    BY <2>1, <2>2, <2>3, <2>4
<1> DEFINE Alike(n) == n = 0 \/ Lasts(c, n) => Replay(log, k[n]) = Replay(log, p[n])
           G == {n \in 0 .. N : k[n] \in Seq(Envelopes) /\ Alike(n)}
<1>6. 0 \in G
  <2>1. 0 \in 0 .. N /\ k[0] = p[0]
    BY <1>3, <1>5
  <2> QED
    BY <1>3, <2>1, NoEnvelopes
<1>7. ASSUME NEW n \in 0 .. N - 1, n \in G PROVE n + 1 \in G
  <2>1. /\ n \in 0 .. N /\ n + 1 \in 1 .. N /\ n + 1 \in 0 .. N /\ n + 1 - 1 = n
        /\ k[n] \in Seq(Envelopes) /\ Alike(n)
    BY <1>7
  <2> HIDE DEF Alike
  <2>2. PICK e \in Envelopes, a \in Seq(Envelopes), b \in Seq(Envelopes) :
            e = c[n + 1] /\ a = k[n] /\ b = p[n]
    BY <1>2, <1>5, <2>1
  <2>3. CASE ~Lasts(c, n + 1)
    <3>1. k[n + 1] = a
      BY <1>3, <2>1, <2>2, <2>3
    <3>2. Alike(n + 1)
      BY <2>1, <2>3 DEF Alike
    <3> QED
      BY <2>1, <3>1, <3>2
  <2>4. CASE Lasts(c, n + 1)
    <3>1. k[n + 1] = Append(a, e) /\ p[n + 1] = Append(b, e)
      <4>1. k[n + 1] = Append(k[n + 1 - 1], c[n + 1])
        <5>1. k[n + 1] = IF Lasts(c, n + 1) THEN Append(k[n + 1 - 1], c[n + 1])
                                            ELSE k[n + 1 - 1]
          BY <1>3, <2>1
        <5> QED
          BY <2>4, <5>1
      <4>2. p[n + 1] = Append(p[n], c[n + 1])
        BY <1>5
      <4>3. k[n + 1 - 1] = k[n]
        BY <2>1
      <4> QED
        BY <2>2, <4>1, <4>2, <4>3
    <3>2. /\ Append(a, e) \in Seq(Envelopes)
          /\ Replay(log, Append(a, e)) = Replay(Replay(log, a), <<e>>)
          /\ Replay(log, Append(b, e)) = Replay(Replay(log, b), <<e>>)
      BY ReplayOne
    <3>3. CASE e \in Wholes
      <4>1. Replay(log, Append(a, e)) = Replay(log, Append(b, e))
        BY <3>2, <3>3, ReplaySnapshot
      <4>2. Alike(n + 1)
        BY <3>1, <4>1 DEF Alike
      <4> QED
        BY <2>1, <3>1, <3>2, <4>2
    <3>4. CASE e \in Deltas
      <4>1. n = 0 \/ Lasts(c, n)
        <5>1. c[n + 1].kind = "delta"
          BY <2>2, <3>4 DEF Deltas
        <5> QED
          BY <5>1 DEF Lasts
      <4>2. Replay(log, a) = Replay(log, b)
        BY <2>1, <2>2, <4>1 DEF Alike
      <4>3. Replay(log, Append(a, e)) = Replay(log, Append(b, e))
        BY <3>2, <4>2
      <4>4. Alike(n + 1)
        BY <3>1, <4>3 DEF Alike
      <4> QED
        BY <2>1, <3>1, <3>2, <4>4
    <3> QED
      BY <3>3, <3>4 DEF Envelopes
  <2> QED
    BY <2>3, <2>4
<1>8. 0 .. N \subseteq G
  <2> HIDE DEF G
  <2> QED
    BY <1>6, <1>7, Induct
<1>9. N \in 0 .. N /\ (N = 0 \/ Lasts(c, N))
  BY <1>2 DEF Lasts
<1>10. Alike(N)
  BY <1>8, <1>9
<1> QED
  BY <1>3, <1>5, <1>9, <1>10

-----------------------------------------------------------------------------
(* What the operations queued lead to.                                     *)

\* The content that one of them leads to.
After(o, log) == IF o.op = "open" THEN o.log
                 ELSE IF o.op = "drain" THEN Replay(log, o.commits) ELSE log

\* The steps by which Outcome() follows them.
Leading(operations) ==
    [n \in 1 .. Len(operations) |-> [x \in Logs |-> After(operations[n], x)]]

\* An operation of the store leaves a content: an opening its own, a drain
\* what its commits come to, and any other the content that was there.
LEMMA AfterFacts ==
    ASSUME NEW o \in Operations, NEW x \in Logs
    PROVE  /\ After(o, x) \in Logs
           /\ o.op = "open" => After(o, x) = o.log
           /\ o.op \notin {"open", "drain"} => After(o, x) = x
<1>1. CASE o \in Plain
  <2>1. o.op = "open" => o.log \in Logs
    BY <1>1 DEF Plain
  <2>2. o.op # "drain"
    BY <1>1 DEF Plain
  <2> QED
    BY <2>1, <2>2 DEF After
<1>2. CASE o \in Drains
  <2>1. o.op = "drain" /\ o.commits \in Seq(Envelopes)
    BY <1>2 DEF Drains
  <2> QED
    BY <2>1, ReplayLog DEF After
<1> QED
  BY <1>1, <1>2 DEF Operations

\* The steps lead from content to content.
LEMMA LeadingFacts ==
    ASSUME NEW q \in Seq(Operations)
    PROVE  /\ Len(q) \in Nat /\ Steps(Leading(q), Len(q), Logs)
           /\ \A n \in 1 .. Len(q) : /\ q[n] \in Operations
                                     /\ \A x \in Logs : Leading(q)[n][x] = After(q[n], x)
<1>1. Len(q) \in Nat /\ \A n \in 1 .. Len(q) : q[n] \in Operations
  BY LenProperties, ElementOfSeq
<1>2. \A n \in 1 .. Len(q) : \A x \in Logs : After(q[n], x) \in Logs
  BY <1>1, AfterFacts
<1>3. Leading(q) \in [1 .. Len(q) -> [Logs -> Logs]]
  BY <1>2 DEF Leading
<1> QED
  BY <1>1, <1>3 DEF Leading, Steps

\* Outcome() is where these steps end.
Leads(f, log, q) == /\ f \in [0 .. Len(q) -> Logs]
                    /\ Runs(f, Len(q), log, Leading(q))

\* Outcome() is what these steps come to.
LEMMA OutcomeFacts ==
    ASSUME NEW log \in Logs, NEW q \in Seq(Operations)
    PROVE  \E f : Leads(f, log, q) /\ Outcome(log, q) = f[Len(q)]
<1> DEFINE Does(g) == g = [n \in 0 .. Len(q) |->
                              IF n = 0 THEN log
                              ELSE IF q[n].op = "open" THEN q[n].log
                              ELSE IF q[n].op = "drain"
                                THEN Replay(g[n - 1], q[n].commits) ELSE g[n - 1]]
           K == CHOOSE g : Does(g)
<1>1. Outcome(log, q) = K[Len(q)]
  BY DEF Outcome
<1>2a. PICK N \in Nat : N = Len(q) /\ Steps(Leading(q), N, Logs)
  BY LeadingFacts
<1>2. PICK s : N = Len(q) /\ s = Leading(q) /\ Steps(s, N, Logs)
  BY <1>2a
<1>3. PICK f \in [0 .. N -> Logs] : Runs(f, N, log, s)
  BY <1>2, Recursion
<1>4. Leads(f, log, q)
  BY <1>2, <1>3 DEF Leads
<1>5. \A n \in 1 .. N : f[n - 1] \in Logs /\ f[n] = After(q[n], f[n - 1])
  <2> SUFFICES ASSUME NEW n \in 1 .. N
               PROVE  f[n - 1] \in Logs /\ f[n] = After(q[n], f[n - 1])
    OBVIOUS
  <2>1. f[n] = s[n][f[n - 1]] /\ n - 1 \in 0 .. N
    BY <1>3 DEF Runs
  <2>2. f[n - 1] \in Logs
    BY <2>1
  <2> QED
    BY <1>2, <2>1, <2>2, LeadingFacts
<1>6. Does(f)
  <2> DEFINE g == [n \in 0 .. Len(q) |->
                      IF n = 0 THEN log
                      ELSE IF q[n].op = "open" THEN q[n].log
                      ELSE IF q[n].op = "drain"
                        THEN Replay(f[n - 1], q[n].commits) ELSE f[n - 1]]
  <2>1. ASSUME NEW n \in 0 .. N PROVE f[n] = g[n]
    <3>1. CASE n = 0
      BY <1>2, <1>3, <3>1 DEF Runs
    <3>2. CASE n # 0
      <4>1. n \in 1 .. N
        BY <3>2
      <4>2. f[n] = After(q[n], f[n - 1])
        BY <1>5, <4>1
      <4> QED
        BY <1>2, <3>2, <4>2 DEF After
    <3> QED
      BY <3>1, <3>2
  <2>2. DOMAIN f = 0 .. N /\ DOMAIN g = 0 .. N
    BY <1>2
  <2>3. f = [n \in DOMAIN f |-> f[n]] /\ g = [n \in DOMAIN g |-> g[n]]
    OBVIOUS
  <2>4. f = g
    <3> HIDE DEF g
    <3> QED
      BY <2>1, <2>2, <2>3
  <2> QED
    BY <2>4
<1>7. Does(K)
  <2> HIDE DEF Does
  <2> QED
    BY <1>6
<1>8. PICK k : k = K
  OBVIOUS
<1>9. Does(k)
  <2> HIDE DEF Does, K
  <2> QED
    BY <1>7, <1>8
<1>10. Outcome(log, q) = k[Len(q)]
  <2> HIDE DEF K
  <2> QED
    BY <1>1, <1>8
<1>11. /\ k[0] = log
       /\ \A n \in 1 .. N : k[n] = After(q[n], k[n - 1])
  <2>1. \A n \in 0 .. N :
            k[n] = IF n = 0 THEN log
                   ELSE IF q[n].op = "open" THEN q[n].log
                   ELSE IF q[n].op = "drain"
                     THEN Replay(k[n - 1], q[n].commits) ELSE k[n - 1]
    BY <1>2, <1>9
  <2>2. \A n \in 1 .. N : n \in 0 .. N /\ n # 0
    OBVIOUS
  <2>3. 0 \in 0 .. N
    OBVIOUS
  <2>4. k[0] = log
    BY <2>1, <2>3
  <2>5. ASSUME NEW n \in 1 .. N PROVE k[n] = After(q[n], k[n - 1])
    <3>1. k[n] = IF q[n].op = "open" THEN q[n].log
                 ELSE IF q[n].op = "drain"
                   THEN Replay(k[n - 1], q[n].commits) ELSE k[n - 1]
      BY <2>1, <2>2
    <3> QED
      BY <3>1 DEF After
  <2> QED
    BY <2>4, <2>5
<1> DEFINE G == {n \in 0 .. N : k[n] = f[n]}
<1>12. 0 \in G
  BY <1>3, <1>11 DEF Runs
<1>13. ASSUME NEW n \in 0 .. N - 1, n \in G PROVE n + 1 \in G
  <2>1. n + 1 \in 1 .. N /\ n + 1 \in 0 .. N /\ n + 1 - 1 = n /\ k[n] = f[n]
    BY <1>13
  <2>2. k[n + 1] = After(q[n + 1], k[n]) /\ f[n + 1] = After(q[n + 1], f[n])
    BY <1>5, <1>11, <2>1
  <2> QED
    BY <2>1, <2>2
<1>14. 0 .. N \subseteq G
  <2> HIDE DEF G
  <2> QED
    BY <1>12, <1>13, Induct
<1>15. N \in G
  BY <1>14
<1> QED
  BY <1>2, <1>4, <1>10, <1>15

\* The content to come is a content, and without operations it is the one
\* there is.
LEMMA OutcomeType ==
    ASSUME NEW log \in Logs, NEW q \in Seq(Operations)
    PROVE  /\ Outcome(log, q) \in Logs
           /\ q = <<>> => Outcome(log, q) = log
<1>1. PICK f : Leads(f, log, q) /\ Outcome(log, q) = f[Len(q)]
  BY OutcomeFacts
<1>2. PICK N \in Nat : N = Len(q)
  BY LeadingFacts
<1>3. f[N] \in Logs /\ f[0] = log
  BY <1>1, <1>2 DEF Leads, Runs
<1>4. q = <<>> => N = 0
  BY <1>2
<1> QED
  BY <1>1, <1>2, <1>3, <1>4

\* An operation that is queued comes last.
LEMMA OutcomeAppend ==
    ASSUME NEW log \in Logs, NEW q \in Seq(Operations), NEW o \in Operations
    PROVE  Outcome(log, Append(q, o)) = After(o, Outcome(log, q))
<1>1. PICK a \in Seq(Operations) : a = Append(q, o)
  BY AppendProperties
<1>2. PICK N \in Nat : N = Len(q)
  BY LeadingFacts
<1>3. Len(a) = N + 1 /\ a[N + 1] = o /\ \A k \in 1 .. N : a[k] = q[k]
  BY <1>1, <1>2, AppendProperties
<1>4. PICK f : Leads(f, log, q) /\ Outcome(log, q) = f[N]
  BY <1>2, OutcomeFacts
<1>5. PICK g : Leads(g, log, a) /\ Outcome(log, a) = g[N + 1]
  BY <1>3, OutcomeFacts
<1>6. \A k \in 1 .. N : Leading(q)[k] = Leading(a)[k]
  BY <1>2, <1>3 DEF Leading
<1>7. f[N] = g[N]
  <2>1. Runs(f, N, log, Leading(q)) /\ Runs(g, N + 1, log, Leading(a))
    BY <1>2, <1>3, <1>4, <1>5 DEF Leads
  <2>2. N + 1 \in Nat /\ N <= N /\ N <= N + 1
    OBVIOUS
  <2> QED
    BY <1>6, <2>1, <2>2, RunsAgree
<1>8. g[N + 1] = After(o, g[N])
  <2>1. N + 1 \in 1 .. Len(a) /\ N + 1 - 1 = N /\ N \in 0 .. Len(a)
    BY <1>3
  <2>2. g[N + 1] = Leading(a)[N + 1][g[N]] /\ g[N] \in Logs
    BY <1>5, <2>1 DEF Leads, Runs
  <2> QED
    BY <1>3, <2>1, <2>2, LeadingFacts
<1> QED
  BY <1>1, <1>4, <1>5, <1>7, <1>8

\* Once the first operation is carried out, what remains leads to the same,
\* whatever subscriptions come behind.
LEMMA OutcomeRest ==
    ASSUME NEW log \in Logs, NEW t \in Seq(Operations), t # <<>>,
           NEW q \in Seq(Operations), Subscriptions(q)
    PROVE  Outcome(After(Head(t), log), Tail(t) \o q) = Outcome(log, t)
<1>1. PICK r \in Seq(Operations), n \in Nat, m \in Nat :
          /\ r = Tail(t) \o q /\ Len(t) = n + 1 /\ Len(q) = m /\ Len(r) = n + m
          /\ Head(t) = t[1] /\ t[1] \in Operations
          /\ \A k \in 1 .. n : r[k] = t[k + 1]
          /\ \A k \in 1 .. m : r[n + k] = q[k]
  BY RestFacts
<1>2. PICK x \in Logs : x = After(t[1], log)
  BY <1>1, AfterFacts
<1>3. PICK f : Leads(f, log, t) /\ Outcome(log, t) = f[n + 1]
  <2>1. \E f : Leads(f, log, t) /\ Outcome(log, t) = f[Len(t)]
    BY OutcomeFacts
  <2>2. Len(t) = n + 1
    BY <1>1
  <2> QED
    BY <2>1, <2>2
<1>4. PICK g : Leads(g, x, r) /\ Outcome(x, r) = g[n + m]
  <2>1. \E g : Leads(g, x, r) /\ Outcome(x, r) = g[Len(r)]
    BY OutcomeFacts
  <2>2. Len(r) = n + m
    BY <1>1
  <2> QED
    BY <2>1, <2>2
<1>5. Leading(t)[1][log] = x
  <2>1. 1 \in 1 .. Len(t)
    BY <1>1
  <2> QED
    BY <1>2, <2>1, LeadingFacts
<1>6. \A k \in 1 .. n : Leading(r)[k] = Leading(t)[k + 1]
  <2> SUFFICES ASSUME NEW k \in 1 .. n PROVE Leading(r)[k] = Leading(t)[k + 1]
    OBVIOUS
  <2>1. k \in 1 .. Len(r) /\ k + 1 \in 1 .. Len(t) /\ r[k] = t[k + 1]
    BY <1>1
  <2> QED
    BY <2>1 DEF Leading
<1>7. g[n] = f[n + 1]
  <2>1. Runs(f, n + 1, log, Leading(t)) /\ Runs(g, n + m, Leading(t)[1][log], Leading(r))
    BY <1>1, <1>3, <1>4, <1>5 DEF Leads
  <2>2. PICK N \in Nat, M \in Nat : N = n + 1 /\ M = n + m /\ n < N /\ n <= M
    <3>1. n + 1 \in Nat /\ n + m \in Nat /\ n < n + 1 /\ n <= n + m
      OBVIOUS
    <3> QED
      BY <3>1
  <2>3. PICK s, u : s = Leading(t) /\ u = Leading(r)
    OBVIOUS
  <2>4. Runs(f, N, log, s) /\ Runs(g, M, s[1][log], u) /\ \A k \in 1 .. n : u[k] = s[k + 1]
    BY <1>6, <2>1, <2>2, <2>3
  <2>5. Shifts(f, N, g, M, n, log, s, u)
    BY <2>2, <2>4 DEF Shifts
  <2> QED
    BY <2>5, RunsShift
<1>8. \A k \in 1 .. m : g[n + k] = g[n + k - 1] /\ n + k - 1 \in 0 .. n + m
  <2> SUFFICES ASSUME NEW k \in 1 .. m
               PROVE  g[n + k] = g[n + k - 1] /\ n + k - 1 \in 0 .. n + m
    OBVIOUS
  <2>1. n + k \in 1 .. Len(r) /\ n + k - 1 \in 0 .. Len(r)
    BY <1>1
  <2>2. r[n + k] \in Operations /\ r[n + k].op = "subscribe"
    BY <1>1, <2>1, LeadingFacts DEF Subscriptions
  <2>3. g[n + k] = Leading(r)[n + k][g[n + k - 1]] /\ g[n + k - 1] \in Logs
    <3>1. PICK i, j : i = n + k /\ j = n + k - 1
      OBVIOUS
    <3>2. i \in 1 .. Len(r) /\ j \in 0 .. Len(r) /\ i - 1 = j
      BY <2>1, <3>1
    <3>3. g \in [0 .. Len(r) -> Logs] /\ \A l \in 1 .. Len(r) : g[l] = Leading(r)[l][g[l - 1]]
      BY <1>4 DEF Leads, Runs
    <3>4. g[i] = Leading(r)[i][g[j]] /\ g[j] \in Logs
      BY <3>2, <3>3
    <3> QED
      BY <3>1, <3>4
  <2>4. g[n + k] = After(r[n + k], g[n + k - 1])
    BY <2>1, <2>3, LeadingFacts
  <2> QED
    BY <1>1, <2>1, <2>2, <2>3, <2>4, AfterFacts
<1> DEFINE G == {k \in 0 .. m : g[n + k] = g[n]}
<1>9. 0 \in G
  OBVIOUS
<1>10. ASSUME NEW k \in 0 .. m - 1, k \in G PROVE k + 1 \in G
  <2>1. k + 1 \in 1 .. m /\ k + 1 \in 0 .. m /\ n + (k + 1) - 1 = n + k
    OBVIOUS
  <2>2. g[n + (k + 1)] = g[n + k] /\ g[n + k] = g[n]
    BY <1>8, <1>10, <2>1
  <2> QED
    BY <2>1, <2>2
<1>11. 0 .. m \subseteq G
  <2> HIDE DEF G
  <2> QED
    BY <1>9, <1>10, Induct
<1>12. m \in G
  BY <1>11
<1> QED
  BY <1>1, <1>2, <1>3, <1>4, <1>7, <1>12

\* The same for the first operation alone.
LEMMA OutcomeTail ==
    ASSUME NEW log \in Logs, NEW t \in Seq(Operations), t # <<>>
    PROVE  Outcome(After(Head(t), log), Tail(t)) = Outcome(log, t)
<1>1. Tail(t) \o <<>> = Tail(t)
  BY HeadTailProperties, ConcatEmptySeq
<1>2. <<>> \in Seq(Operations) /\ Subscriptions(<<>>)
  BY NoEnvelopes DEF Subscriptions
<1>3. Outcome(After(Head(t), log), Tail(t) \o <<>>) = Outcome(log, t)
  BY <1>2, OutcomeRest
<1> QED
  BY <1>1, <1>3

\* Subscriptions change no content.
LEMMA OutcomeSubscriptions ==
    ASSUME NEW log \in Logs, NEW q \in Seq(Operations), Subscriptions(q)
    PROVE  Outcome(log, q) = log
<1>1. PICK f : Leads(f, log, q) /\ Outcome(log, q) = f[Len(q)]
  BY OutcomeFacts
<1>2. PICK N \in Nat : N = Len(q)
  BY LeadingFacts
<1>3. f \in [0 .. N -> Logs] /\ f[0] = log
  BY <1>1, <1>2 DEF Leads, Runs
<1>4. \A n \in 1 .. N : f[n] = f[n - 1]
  <2> SUFFICES ASSUME NEW n \in 1 .. N PROVE f[n] = f[n - 1]
    OBVIOUS
  <2>1. n - 1 \in 0 .. N /\ n \in 1 .. Len(q)
    BY <1>2
  <2>2. f[n - 1] \in Logs
    BY <1>3, <2>1
  <2>3. f[n] = Leading(q)[n][f[n - 1]]
    BY <1>1, <2>1 DEF Leads, Runs
  <2>4. f[n] = After(q[n], f[n - 1]) /\ q[n] \in Operations /\ q[n].op = "subscribe"
    BY <2>1, <2>2, <2>3, LeadingFacts DEF Subscriptions
  <2> QED
    BY <2>2, <2>4, AfterFacts
<1> DEFINE G == {n \in 0 .. N : f[n] = log}
<1>5. 0 \in G
  BY <1>3
<1>6. ASSUME NEW n \in 0 .. N - 1, n \in G PROVE n + 1 \in G
  <2>1. n + 1 \in 1 .. N /\ n + 1 \in 0 .. N /\ n + 1 - 1 = n
    OBVIOUS
  <2>2. f[n + 1] = f[n] /\ f[n] = log
    BY <1>4, <1>6, <2>1
  <2> QED
    BY <2>1, <2>2
<1>7. 0 .. N \subseteq G
  <2> HIDE DEF G
  <2> QED
    BY <1>5, <1>6, Induct
<1>8. N \in G
  BY <1>7
<1> QED
  BY <1>1, <1>2, <1>8

-----------------------------------------------------------------------------
(* What is published is kept.                                              *)

LEMMA TailFacts ==
    ASSUME NEW q \in Seq(Operations), q # <<>>
    PROVE  /\ Tail(q) \in Seq(Operations) /\ Head(q) \in Operations
           /\ Calm(q) => /\ Calm(Tail(q))
                         /\ \/ Head(q).op = "subscribe"
                            \/ Head(q).op = "drain" /\ Subscriptions(Head(q).then)
<1>1. PICK r \in Seq(Operations) :
          /\ r = Tail(q) /\ Len(r) = Len(q) - 1 /\ Head(q) \in Operations
          /\ \A i \in 1 .. Len(r) : r[i] = q[i + 1]
  <2>1. /\ Head(q) \in Operations /\ Tail(q) \in Seq(Operations)
        /\ Len(Tail(q)) = Len(q) - 1
        /\ \A i \in 1 .. Len(Tail(q)) : Tail(q)[i] = q[i + 1]
    BY HeadTailProperties
  <2> QED
    BY <2>1
<1>2. Len(q) \in Nat /\ Len(q) # 0 /\ Head(q) = q[1]
  BY LenProperties, EmptySeq
<1>3. ASSUME Calm(q) PROVE Calm(r)
  <2>1. \A i \in 1 .. Len(r) : i + 1 \in 1 .. Len(q)
    BY <1>1, <1>2
  <2> QED
    BY <1>1, <1>3, <2>1 DEF Calm
<1>4. 1 \in 1 .. Len(q)
  BY <1>2
<1> QED
  BY <1>1, <1>2, <1>3, <1>4 DEF Calm

\* One calm operation more.
LEMMA CalmAppend ==
    ASSUME NEW q \in Seq(Operations), Calm(q), NEW o \in Operations,
           \/ o.op = "subscribe"
           \/ o.op = "drain" /\ Subscriptions(o.then)
    PROVE  Calm(Append(q, o))
<1>1. PICK a \in Seq(Operations) :
          /\ a = Append(q, o) /\ Len(a) = Len(q) + 1 /\ a[Len(q) + 1] = o
          /\ \A i \in 1 .. Len(q) : a[i] = q[i]
  <2>1. /\ Append(q, o) \in Seq(Operations) /\ Len(Append(q, o)) = Len(q) + 1
        /\ Append(q, o)[Len(q) + 1] = o
        /\ \A i \in 1 .. Len(q) : Append(q, o)[i] = q[i]
    BY AppendProperties
  <2> QED
    BY <2>1
<1>2. PICK N \in Nat : N = Len(q)
  BY LenProperties
<1>3. ASSUME NEW i \in 1 .. N + 1
      PROVE  \/ a[i].op = "subscribe"
             \/ a[i].op = "drain" /\ Subscriptions(a[i].then)
  <2>1. CASE i = N + 1
    BY <1>1, <1>2, <2>1
  <2>2. CASE i # N + 1
    <3>1. i \in 1 .. Len(q)
      BY <1>2, <2>2
    <3> QED
      BY <1>1, <3>1 DEF Calm
  <2> QED
    BY <2>1, <2>2
<1> QED
  BY <1>1, <1>2, <1>3 DEF Calm

\* One subscription more.
LEMMA SubscriptionsAppend ==
    ASSUME NEW q \in Seq(Operations), Subscriptions(q), NEW o \in Operations,
           o.op = "subscribe"
    PROVE  Subscriptions(Append(q, o))
<1>1. PICK a \in Seq(Operations), N \in Nat :
          /\ a = Append(q, o) /\ N = Len(q) /\ Len(a) = N + 1 /\ a[N + 1] = o
          /\ \A i \in 1 .. N : a[i] = q[i]
  <2>1. /\ Append(q, o) \in Seq(Operations) /\ Len(Append(q, o)) = Len(q) + 1
        /\ Append(q, o)[Len(q) + 1] = o
        /\ \A i \in 1 .. Len(q) : Append(q, o)[i] = q[i]
        /\ Len(q) \in Nat
    BY AppendProperties, LenProperties
  <2> QED
    BY <2>1
<1>2. \A i \in 1 .. N + 1 : i = N + 1 \/ i \in 1 .. N
  OBVIOUS
<1> QED
  BY <1>1, <1>2 DEF Subscriptions

\* Subscriptions are calm, and so is what follows a calm queue.
LEMMA CalmConcat ==
    ASSUME NEW q \in Seq(Operations), Calm(q), NEW p \in Seq(Operations), Subscriptions(p)
    PROVE  Calm(q \o p)
<1>1. PICK a \in Seq(Operations), N \in Nat, M \in Nat :
          /\ a = q \o p /\ N = Len(q) /\ M = Len(p) /\ Len(a) = N + M
          /\ \A i \in 1 .. N + M : a[i] = IF i <= N THEN q[i] ELSE p[i - N]
  <2>1. /\ q \o p \in Seq(Operations) /\ Len(q \o p) = Len(q) + Len(p)
        /\ \A i \in 1 .. Len(q) + Len(p) :
               (q \o p)[i] = IF i <= Len(q) THEN q[i] ELSE p[i - Len(q)]
        /\ Len(q) \in Nat /\ Len(p) \in Nat
    BY ConcatProperties, LenProperties
  <2> QED
    BY <2>1
<1>2. ASSUME NEW i \in 1 .. N + M
      PROVE  \/ a[i].op = "subscribe"
             \/ a[i].op = "drain" /\ Subscriptions(a[i].then)
  <2>1. CASE i <= N
    <3>1. i \in 1 .. Len(q) /\ a[i] = q[i]
      BY <1>1, <2>1
    <3> QED
      BY <3>1 DEF Calm
  <2>2. CASE ~(i <= N)
    <3>1. i - N \in 1 .. Len(p) /\ a[i] = p[i - N]
      BY <1>1, <2>2
    <3> QED
      BY <3>1 DEF Subscriptions
  <2> QED
    BY <2>1, <2>2
<1> QED
  BY <1>1, <1>2 DEF Calm

\* Draining is what draining comes to.
LEMMA ComesQueued ==
    ASSUME NEW log \in Logs, NEW q \in Seq(Operations), NEW b \in Seq(Envelopes),
           NEW p \in Seq(Plain), NEW content, Comes(log, q, b, content)
    PROVE  Comes(log, Append(q, Drain(b, p)), <<>>, content)
<1>1. Drain(b, p) \in Operations
  BY DrainType
<1>2. Drain(b, p).op = "drain" /\ Drain(b, p).commits = b
  BY DEF Drain
<1>3. PICK x \in Logs : x = Outcome(log, q)
  BY OutcomeType
<1>4. Outcome(log, Append(q, Drain(b, p))) = Replay(x, b)
  BY <1>1, <1>2, <1>3, OutcomeAppend DEF After
<1>5. Replay(Replay(x, b), <<>>) = Replay(x, b)
  BY ReplayLog, ReplayNothing
<1> QED
  BY <1>3, <1>4, <1>5 DEF Comes

\* Subscribing leads to no other content.
LEMMA ComesFollowed ==
    ASSUME QueueTypes, NEW log \in Logs, NEW content, NEW f \in Followers,
           Calm(tail), Comes(log, tail, batch, content), Call(Follow(f))
    PROVE  Calm(tail') /\ Comes(log, tail', batch', content)
<1>1. tail \in Seq(Operations) /\ batch \in Seq(Envelopes) /\ Follow(f) \in Plain
  BY PlainTypes DEF QueueTypes
<1>2. PICK o \in Operations : o = Follow(f) /\ o.op = "subscribe"
  BY <1>1 DEF Operations, Follow
<1>3. CASE batch = <<>>
  <2>1. tail' = Append(tail, o) /\ batch' = batch
    BY <1>2, <1>3 DEF Call
  <2>2. Calm(Append(tail, o))
    BY <1>1, <1>2, CalmAppend
  <2>3. Outcome(log, Append(tail, o)) = Outcome(log, tail)
    BY <1>1, <1>2, OutcomeAppend, OutcomeType, AfterFacts
  <2> QED
    BY <2>1, <2>2, <2>3 DEF Comes
<1>4. CASE batch # <<>>
  <2>1. PICK p \in Seq(Plain) : p = <<Follow(f)>> /\ Subscriptions(p)
    <3>1. <<Follow(f)>> \in Seq(Plain) /\ Len(<<Follow(f)>>) = 1 /\ <<Follow(f)>>[1] = Follow(f)
      BY <1>1
    <3>2. Subscriptions(<<Follow(f)>>)
      BY <1>2, <3>1 DEF Subscriptions
    <3> QED
      BY <3>1, <3>2
  <2>2. tail' = Append(tail, Drain(batch, p)) /\ batch' = <<>>
    BY <1>4, <2>1 DEF Call
  <2>3. PICK d \in Operations : d = Drain(batch, p) /\ d.op = "drain" /\ d.then = p
    BY <1>1, DrainType DEF Drain
  <2>4. Calm(Append(tail, d))
    BY <1>1, <2>1, <2>3, CalmAppend
  <2> QED
    BY <1>1, <2>2, <2>3, <2>4, ComesQueued
<1> QED
  BY <1>3, <1>4

\* Publishing continues what everything comes to.
LEMMA ComesPublished ==
    ASSUME NEW log \in Logs, NEW q \in Seq(Operations), NEW b \in Seq(Envelopes),
           NEW content \in Logs, NEW e \in Envelopes, NEW id,
           Replay(content, <<e>>) = Append(content, id), Comes(log, q, b, content)
    PROVE  Comes(log, q, Append(b, e), Append(content, id))
<1>1. PICK x \in Logs : x = Outcome(log, q)
  BY OutcomeType
<1>2. Replay(x, Append(b, e)) = Replay(Replay(x, b), <<e>>)
  BY ReplayOne
<1> QED
  BY <1>1, <1>2 DEF Comes

\* A step that leaves alone what the invariant is about, or may only end it.
LEMMA FaithAside ==
    ASSUME FaithInv, counts'.rewinds = 0 => counts.rewinds = 0, ~fatal' => ~fatal,
           UNCHANGED <<mem, tail, batch, capture, buffered, runtime>>,
           flush' # NoFlush => flush # NoFlush /\ flush'.goal = flush.goal
    PROVE  FaithInv'
<1>1. Opening' <=> Opening
  BY DEF Opening
<1>2. Capturing' <=> Capturing
  BY DEF Capturing
<1> QED
  BY <1>1, <1>2 DEF FaithInv

\* A step in a stage in which nothing is captured.
LEMMA FaithIdle ==
    ASSUME FaithInv, counts'.rewinds = 0 => counts.rewinds = 0, ~fatal' => ~fatal,
           capture' \notin {"opening", "capturing"},
           capture # "capturing" => batch' = batch \/ batch' = <<>>,
           capture = "capturing" => batch' = <<>>,
           flush' # NoFlush => \/ flush # NoFlush /\ flush'.goal = flush.goal
                               \/ flush'.goal # "reopen"
    PROVE  FaithInv'
  BY DEF FaithInv

\* The history of a runtime that was rewound is not in question.
LEMMA RewindsStay ==
    ASSUME DiskInv, [Next]_vars
    PROVE  /\ counts'.rewinds = 0 => counts.rewinds = 0
           /\ Rewind => counts'.rewinds # 0
<1>1. counts \in Counts
  BY DEF DiskInv, QueueTypes
<1>2. ASSUME NEW what \in {"events", "attaches", "deletes", "subscribes", "crashes"},
             Bump(what)
      PROVE  counts'.rewinds = counts.rewinds
  BY <1>1, <1>2 DEF Bump, Counts
<1>3. ASSUME Rewind PROVE counts'.rewinds # 0
  <2>1. Bump("rewinds")
    BY <1>3 DEF Rewind
  <2>2. counts'.rewinds = counts.rewinds + 1 /\ counts.rewinds \in Nat
    BY <1>1, <2>1 DEF Bump, Counts
  <2> QED
    BY <2>2
<1>4. ASSUME NEW replace \in BOOLEAN, Attach(replace) PROVE counts'.rewinds = counts.rewinds
  <2>1. CASE replace
    <3>1. counts' = [counts EXCEPT !.attaches = @ + 1, !.events = @ + 1]
      BY <1>4, <2>1 DEF Attach
    <3> QED
      BY <1>1, <3>1 DEF Counts
  <2>2. CASE ~replace
    BY <1>2, <1>4, <2>2 DEF Attach
  <2> QED
    BY <2>1, <2>2
<1>5. ASSUME Operate \/ UNCHANGED vars \/ Timer \/ FlushPass \/ Reopen \/ Restart
      PROVE  counts'.rewinds = counts.rewinds
  BY <1>5 DEF Operate, RunDrain, DrainFails, RunOpen, RunSubscribe, SubscribeFails,
              RunRelease, RunDelete, vars, Timer, FlushPass, Reopen, Restart
<1>6. ASSUME WriteFails \/ Crash PROVE counts'.rewinds = counts.rewinds
  BY <1>2, <1>6 DEF WriteFails, Crash
<1>7. ASSUME NEW kind, Publish(kind) PROVE counts'.rewinds = counts.rewinds
  BY <1>2, <1>7 DEF Publish
<1>8. ASSUME NEW goal, Retire(goal) \/ Retired(goal) PROVE counts'.rewinds = counts.rewinds
  BY <1>2, <1>8 DEF Retire, Retired
<1>9. ASSUME NEW f, Subscribe(f) \/ Unsubscribe(f) PROVE counts'.rewinds = counts.rewinds
  BY <1>2, <1>9 DEF Subscribe, Unsubscribe
<1> QED
  BY <1>3, <1>4, <1>5, <1>6, <1>7, <1>8, <1>9 DEF Next

\* The first operation is carried out on the content there is.
LEMMA ComesRest ==
    ASSUME NEW log \in Logs, NEW t \in Seq(Operations), t # <<>>, Calm(t), NEW b, NEW content,
           Comes(log, t, b, content), NEW p \in Seq(Operations), Subscriptions(p)
    PROVE  /\ Calm(Tail(t) \o p)
           /\ Comes(After(Head(t), log), Tail(t) \o p, b, content)
<1>1. Tail(t) \in Seq(Operations) /\ Calm(Tail(t))
  BY TailFacts
<1>2. Calm(Tail(t) \o p)
  BY <1>1, CalmConcat
<1>3. Outcome(After(Head(t), log), Tail(t) \o p) = Outcome(log, t)
  BY OutcomeRest
<1> QED
  BY <1>2, <1>3 DEF Comes

\* A connector that gave up does nothing but end.
LEMMA FatalSteps ==
    ASSUME [Next]_vars, fatal
    PROVE  Restart \/ UNCHANGED vars
<1>1. ~Timer /\ ~FlushPass /\ ~Rewind /\ ~Reopen /\ ~WriteFails /\ ~Crash
  BY DEF Timer, FlushPass, Rewind, Reopen, Flushed, WriteFails, Crash, Idling
<1>2. ~Operate
  BY DEF Operate, RunDrain, DrainFails, RunOpen, RunSubscribe, SubscribeFails,
         RunRelease, RunDelete, Doing, Idling
<1>3. \A replace \in BOOLEAN : ~Attach(replace)
  BY DEF Attach
<1>4. \A kind \in Kinds : ~Publish(kind)
  BY DEF Publish, Idling
<1>5. \A goal \in RetireGoals : ~Retire(goal) /\ ~Retired(goal)
  BY DEF Retire, Retired, Flushed
<1>6. \A f \in Followers : ~Subscribe(f) /\ ~Unsubscribe(f)
  BY DEF Subscribe, Unsubscribe, Idling
<1> QED
  BY <1>1, <1>2, <1>3, <1>4, <1>5, <1>6 DEF Next

\* Every step keeps it.
LEMMA FaithNext ==
    ASSUME DiskInv, QueueTypes', FlushInv, FaithInv, [Next]_vars
    PROVE  FaithInv'
<1>0. /\ QueueTypes /\ batch \in Seq(Envelopes) /\ tail \in Seq(Operations)
      /\ buffered \in Seq(Envelopes) /\ runtime \in Logs /\ counts \in Counts
  BY DEF DiskInv, QueueTypes
<1>1. counts'.rewinds = 0 => counts.rewinds = 0
  BY RewindsStay
<1>2. mem # NoState => mem \in States /\ mem.log \in Logs
  BY DEF DiskInv, StoreTypes, States
<1>3. mem # NoState => Current = mem
  BY DEF Current
<1>4. CASE Restart \/ Crash
  <2>1. capture' = "none" /\ batch' = <<>> /\ flush' = NoFlush
    BY <1>4 DEF Restart, Crash, StartsAnew
  <2> QED
    BY <2>1 DEF FaithInv
<1>5. CASE WriteFails \/ DrainFails
  BY <1>5 DEF WriteFails, DrainFails, FaithInv
<1>6. CASE Rewind
  BY <1>6, RewindsStay DEF FaithInv
<1> SUFFICES ASSUME counts.rewinds = 0, ~fatal, ~fatal',
                    ~Restart, ~Crash, ~WriteFails, ~DrainFails, ~Rewind
             PROVE  FaithInv'
  <2>1. ASSUME fatal, UNCHANGED vars PROVE fatal'
    BY <2>1 DEF vars, store
  <2>2. ASSUME counts'.rewinds = 0, ~fatal' PROVE counts.rewinds = 0 /\ (fatal => Restart)
    BY <1>1, <2>1, <2>2, FatalSteps
  <2> QED
    BY <1>4, <1>5, <1>6, <2>2 DEF FaithInv
<1>7. /\ capture # "capturing" => batch = <<>>
      /\ flush # NoFlush => flush.goal # "reopen"
      /\ capture = "opening" => Opening
      /\ capture = "capturing" => Capturing
  BY DEF FaithInv
<1>8. capture \in {"none", "opening", "capturing", "retiring"}
  BY DEF FlushInv
<1>9. CASE UNCHANGED vars
  BY <1>1, <1>9, FaithAside DEF vars, store, daemon
<1>10. ASSUME Capturing, capture = "capturing", UNCHANGED <<capture, buffered>>,
              flush' # NoFlush => flush # NoFlush /\ flush'.goal = flush.goal,
              Capturing'
       PROVE  FaithInv'
  BY <1>7, <1>10 DEF FaithInv
<1>11. CASE Timer
  <2>1. /\ batch # <<>> /\ tail' = Append(tail, Drain(batch, <<>>)) /\ batch' = <<>>
        /\ UNCHANGED <<mem, capture, buffered, runtime, flush>>
    BY <1>11 DEF Timer, daemon
  <2>2. capture = "capturing" /\ Capturing
    BY <1>7, <2>1
  <2>3. PICK p \in Seq(Plain) : p = <<>> /\ Subscriptions(p)
    <3>1. <<>> \in Seq(Plain)
      BY NoEnvelopes
    <3>2. Subscriptions(<<>>)
      BY DEF Subscriptions
    <3> QED
      BY <3>1, <3>2
  <2>4. PICK d \in Operations : d = Drain(batch, p) /\ d.op = "drain" /\ d.then = p
    BY <1>0, DrainType DEF Drain
  <2>5. Calm(Append(tail, d))
    BY <1>0, <2>2, <2>3, <2>4, CalmAppend DEF Capturing
  <2>6. Comes(mem.log, Append(tail, Drain(batch, p)), <<>>, runtime)
    BY <1>0, <1>2, <2>2, ComesQueued DEF Capturing
  <2>7. Capturing'
    BY <2>1, <2>2, <2>3, <2>4, <2>5, <2>6 DEF Capturing
  <2> QED
    BY <1>10, <2>1, <2>2, <2>7
<1>12. CASE RunDrain
  <2>1. /\ tail # <<>> /\ Head(tail).op = "drain" /\ Current # NoState
        /\ tail' = Tail(tail) \o Head(tail).then
        /\ Awaits(Len(Head(tail).commits))
        /\ UNCHANGED <<batch, capture, buffered, runtime>>
    BY <1>12 DEF RunDrain, Doing, Applicable
  <2>2. flush' # NoFlush => flush # NoFlush /\ flush'.goal = flush.goal
    <3>1. CASE flush = NoFlush
      BY <2>1, <3>1 DEF Awaits
    <3>2. CASE flush # NoFlush
      <4>1. PICK n : n = Len(Head(tail).commits)
        OBVIOUS
      <4>2. flush' = [flush EXCEPT !.left = IF @ > n THEN @ - n ELSE 0]
        BY <2>1, <3>2, <4>1 DEF Awaits
      <4>3. flush \in Flushes
        BY <3>2 DEF FlushInv
      <4>4. flush'.goal = flush.goal
        BY <4>2, <4>3 DEF Flushes
      <4> QED
        BY <3>2, <4>4
    <3> QED
      BY <3>1, <3>2
  <2>3. capture # "opening"
    BY <1>7, <2>1 DEF Opening
  <2>4. CASE capture = "capturing"
    <3>1. Capturing /\ Current = mem /\ mem.log \in Logs
      BY <1>2, <1>3, <1>7, <2>4 DEF Capturing
    <3>2. PICK checkpoint \in BOOLEAN : mem' = Drained(checkpoint).mem
      BY <1>12 DEF RunDrain
    <3>3. DrainLeaves(Drained(checkpoint))
      BY <2>1, DrainedFacts
    <3>4. mem' \in States /\ mem'.log = Replay(mem.log, Groups)
      BY <3>1, <3>2, <3>3 DEF DrainLeaves
    <3>5. Head(tail).commits \in Seq(Envelopes) /\ Head(tail).then \in Seq(Plain)
      BY <1>0, <2>1, HeadFacts DEF Drains
    <3>6. mem'.log = After(Head(tail), mem.log)
      BY <2>1, <3>1, <3>4, <3>5, ReplayCoalesced DEF Groups, After
    <3>7. PICK p \in Seq(Operations) : p = Head(tail).then /\ Subscriptions(p)
      <4>1. Seq(Plain) \subseteq Seq(Operations)
        BY SeqMonotonic DEF Operations
      <4>2. Subscriptions(Head(tail).then)
        BY <1>0, <2>1, <3>1, TailFacts DEF Capturing
      <4> QED
        BY <3>5, <4>1, <4>2
    <3>8. /\ Calm(Tail(tail) \o p)
          /\ Comes(After(Head(tail), mem.log), Tail(tail) \o p, batch, runtime)
      BY <1>0, <2>1, <3>1, <3>7, ComesRest DEF Capturing
    <3>9. mem' # NoState
      BY <3>4, NotNothing
    <3>10. Capturing'
      BY <2>1, <3>6, <3>7, <3>8, <3>9 DEF Capturing
    <3> QED
      BY <1>10, <2>1, <2>2, <2>4, <3>1, <3>10
  <2>5. CASE capture \in {"none", "retiring"}
    BY <1>1, <2>1, <2>2, <2>5, FaithIdle
  <2> QED
    BY <1>8, <2>3, <2>4, <2>5
<1>13. CASE RunOpen
  <2>1. /\ tail # <<>> /\ Head(tail).op = "open" /\ mem' = Opened.mem
        /\ Attached /\ tail' = Tail(tail) /\ UNCHANGED <<runtime, flush>>
    BY <1>13 DEF RunOpen, Doing
  <2>2. capture # "capturing"
    <3> SUFFICES ASSUME capture = "capturing" PROVE FALSE
      OBVIOUS
    <3>1. Calm(tail)
      BY <1>7 DEF Capturing
    <3>2. Head(tail).op = "subscribe" \/ Head(tail).op = "drain"
      BY <1>0, <2>1, <3>1, TailFacts
    <3> QED
      BY <2>1, <3>2
  <2>3. CASE capture = "opening"
    <3>1. /\ capture' = "capturing" /\ batch' = batch \o buffered /\ buffered' = <<>>
      BY <2>1, <2>3 DEF Attached
    <3>2. batch' = buffered
      BY <1>0, <1>7, <2>2, <3>1, ConcatEmptySeq
    <3>3. OpenLeaves(Opened)
      BY <2>1, OpenedFacts
    <3>4. mem' \in States /\ mem'.log = Head(tail).log /\ mem' # NoState
      BY <2>1, <3>3, NotNothing DEF OpenLeaves
    <3>5. Opening /\ mem'.log \in Logs
      BY <1>7, <2>3, <3>4 DEF States
    <3>6. Tail(tail) \in Seq(Operations) /\ Subscriptions(Tail(tail))
      BY <1>0, <2>1, <3>5, TailFacts DEF Opening
    <3>7. PICK l \in Logs, q \in Seq(Operations) : l = mem'.log /\ q = Tail(tail)
      BY <3>5, <3>6
    <3>8. Outcome(l, q) = l /\ Calm(q)
      BY <3>6, <3>7, OutcomeSubscriptions DEF Subscriptions, Calm
    <3>9. Comes(l, q, buffered, runtime)
      BY <3>4, <3>5, <3>7, <3>8 DEF Comes, Opening
    <3>10. Capturing'
      BY <2>1, <3>2, <3>4, <3>7, <3>8, <3>9 DEF Capturing
    <3> QED
      BY <1>7, <2>1, <3>1, <3>10 DEF FaithInv
  <2>4. CASE capture \in {"none", "retiring"}
    <3>1. UNCHANGED <<capture, batch, buffered>>
      BY <2>1, <2>4 DEF Attached
    <3> QED
      BY <1>1, <2>1, <2>4, <3>1, FaithIdle
  <2> QED
    BY <1>8, <2>2, <2>3, <2>4
<1>14. CASE RunSubscribe \/ SubscribeFails
  <2>1. /\ tail # <<>> /\ Head(tail).op = "subscribe" /\ tail' = Tail(tail)
        /\ UNCHANGED <<batch, capture, buffered, runtime, flush>>
        /\ Current # NoState => mem' = Current
    BY <1>14 DEF RunSubscribe, SubscribeFails, Doing, daemon
  <2>2. capture # "opening"
    BY <1>7, <2>1 DEF Opening
  <2>3. CASE capture = "capturing"
    <3>1. Capturing /\ mem' = mem /\ mem.log \in Logs
      BY <1>2, <1>3, <1>7, <2>1, <2>3 DEF Capturing
    <3>2. Head(tail) \in Operations /\ After(Head(tail), mem.log) = mem.log
      BY <1>0, <2>1, <3>1, TailFacts, AfterFacts
    <3>3. Outcome(After(Head(tail), mem.log), Tail(tail)) = Outcome(mem.log, tail)
      BY <1>0, <2>1, <3>1, OutcomeTail
    <3>4. Calm(Tail(tail))
      BY <1>0, <2>1, <3>1, TailFacts DEF Capturing
    <3>5. Capturing'
      BY <2>1, <3>1, <3>2, <3>3, <3>4 DEF Capturing, Comes
    <3> QED
      BY <1>10, <2>1, <2>3, <3>1, <3>5
  <2>4. CASE capture \in {"none", "retiring"}
    BY <1>1, <2>1, <2>4, FaithIdle
  <2> QED
    BY <1>8, <2>2, <2>3, <2>4
<1>15. CASE RunRelease \/ RunDelete
  <2>1. /\ tail # <<>> /\ Head(tail).op \in {"release", "delete"}
        /\ UNCHANGED <<batch, capture, buffered, runtime, flush>>
    BY <1>15 DEF RunRelease, RunDelete, Doing, daemon
  <2>2. capture # "opening"
    BY <1>7, <2>1 DEF Opening
  <2>3. capture # "capturing"
    <3> SUFFICES ASSUME capture = "capturing" PROVE FALSE
      OBVIOUS
    <3>1. Calm(tail)
      BY <1>7 DEF Capturing
    <3>2. Head(tail).op = "subscribe" \/ Head(tail).op = "drain"
      BY <1>0, <2>1, <3>1, TailFacts
    <3> QED
      BY <2>1, <3>2
  <2> QED
    BY <1>1, <2>1, <2>2, <2>3, FaithIdle
<1>16. CASE FlushPass
  <2>1. /\ flush # NoFlush
        /\ UNCHANGED <<mem, tail, batch, capture, buffered, runtime>>
    BY <1>16 DEF FlushPass, store
  <2>2. PICK n : flush' = [flush EXCEPT !.pass = @ + 1, !.left = n]
    BY <1>16 DEF FlushPass
  <2>3. flush \in Flushes
    BY <2>1 DEF FlushInv
  <2>4. flush'.goal = flush.goal
    BY <2>2, <2>3 DEF Flushes
  <2> QED
    BY <1>1, <2>1, <2>4, FaithAside
<1>17. ASSUME NEW replace \in BOOLEAN, Attach(replace) PROVE FaithInv'
  <2>1. /\ capture = "none" /\ tail = <<>> /\ flush = NoFlush /\ flush' = flush
        /\ capture' = "opening" /\ Call(Open(runtime', replace)) /\ UNCHANGED buffered
    BY <1>17 DEF Attach
  <2>2. batch = <<>> /\ buffered = <<>>
    BY <1>7, <2>1 DEF FlushInv
  <2>3. PICK l \in Logs : l = runtime'
    BY DEF QueueTypes
  <2>4. PICK o \in Operations : o = Open(l, replace) /\ o.op = "open" /\ o.log = l
    <3>1. Open(l, replace) \in Operations
      BY PlainTypes DEF Operations
    <3>2. Open(l, replace).op = "open" /\ Open(l, replace).log = l
      BY DEF Open
    <3> QED
      BY <3>1, <3>2
  <2>5. tail' = Append(<<>>, o) /\ batch' = <<>>
    BY <2>1, <2>2, <2>3, <2>4 DEF Call
  <2>6. tail' # <<>> /\ Head(tail') = o /\ Tail(tail') = <<>>
    <3>1. Append(<<>>, o) # <<>> /\ Head(Append(<<>>, o)) = o /\ Tail(Append(<<>>, o)) = <<>>
      BY NoEnvelopes, AppendProperties, HeadTailAppend
    <3> QED
      BY <2>5, <3>1
  <2>7. Replay(l, <<>>) = l /\ Subscriptions(<<>>)
    BY ReplayNothing DEF Subscriptions
  <2>8. Opening'
    BY <2>1, <2>2, <2>3, <2>4, <2>6, <2>7 DEF Opening
  <2> QED
    BY <2>1, <2>5, <2>8 DEF FaithInv
<1>18. ASSUME NEW kind \in Kinds, Publish(kind) PROVE FaithInv'
  <2>1. PICK id \in Nat, n \in Nat : id = counts.events + 1 /\ n = Len(runtime)
    BY <1>0, LenProperties DEF Counts, Logs
  <2>2. PICK e : e = IF kind = "delta" THEN Delta(n, id)
                                       ELSE Whole(kind, Append(runtime, id))
    OBVIOUS
  <2>3. e \in Envelopes /\ Replay(runtime, <<e>>) = Append(runtime, id)
    <3>1. kind \in {"delta", "turn", "snapshot"}
      BY TimelineAssumption
    <3> QED
      BY <1>0, <2>2, <3>1, ReplayPublished
  <2>4. /\ capture \in {"opening", "capturing"} /\ runtime' = Append(runtime, id)
        /\ IF capture = "opening"
             THEN buffered' = Append(buffered, e) /\ UNCHANGED batch
             ELSE batch' = Append(batch, e) /\ UNCHANGED buffered
        /\ UNCHANGED <<mem, tail, capture, flush>>
    BY <1>18, <2>1, <2>2 DEF Publish
  <2>5. CASE capture = "opening"
    <3>1. Opening /\ Head(tail).log \in Logs
      BY <1>0, <1>7, <2>5, HeadFacts DEF Opening
    <3>2. Replay(Head(tail).log, Append(buffered, e)) = Append(runtime, id)
      <4>1. PICK l \in Logs : l = Head(tail).log
        BY <3>1
      <4>2. Replay(l, Append(buffered, e)) = Replay(Replay(l, buffered), <<e>>)
        BY <1>0, <2>3, ReplayOne
      <4> QED
        BY <2>3, <3>1, <4>1, <4>2 DEF Opening
    <3>3. Opening'
      BY <2>4, <2>5, <3>1, <3>2 DEF Opening
    <3> QED
      BY <1>7, <2>4, <2>5, <3>3 DEF FaithInv
  <2>6. CASE capture = "capturing"
    <3>1. Capturing /\ mem.log \in Logs
      BY <1>2, <1>7, <2>6 DEF Capturing
    <3>2. Comes(mem.log, tail, Append(batch, e), Append(runtime, id))
      BY <1>0, <2>3, <3>1, ComesPublished DEF Capturing
    <3>3. Capturing'
      BY <2>4, <2>6, <3>1, <3>2 DEF Capturing
    <3> QED
      BY <1>10, <2>4, <2>6, <3>1, <3>3
  <2> QED
    BY <2>4, <2>5, <2>6
<1>19. CASE Reopen
  BY <1>7, <1>19 DEF Reopen, Flushed
<1>20. ASSUME NEW goal \in RetireGoals, Retire(goal) PROVE FaithInv'
  <2>1. capture' = "retiring" /\ FlushCapture(goal, batch)
    BY <1>20 DEF Retire
  <2>2. batch' = <<>> /\ flush'.goal = goal
    <3>1. flush' = [goal |-> goal, pass |-> 1, left |-> CommitsIn(tail')]
      BY <2>1 DEF FlushCapture
    <3> QED
      BY <2>1, <3>1 DEF FlushCapture
  <2>3. goal # "reopen"
    BY DEF RetireGoals
  <2> QED
    BY <1>1, <2>1, <2>2, <2>3, FaithIdle
<1>21. ASSUME NEW goal \in RetireGoals, Retired(goal) PROVE FaithInv'
  <2>1. /\ flush # NoFlush /\ flush.goal = goal /\ capture' = "none" /\ flush' = NoFlush
        /\ Call(Release) \/ Call(Delete) \/ UNCHANGED <<tail, batch>>
    BY <1>21 DEF Retired, Flushed, RetireGoals
  <2>2. capture = "retiring"
    BY <2>1 DEF FlushInv, RetireGoals
  <2>3. batch' = <<>>
    BY <1>7, <2>1, <2>2 DEF Call
  <2> QED
    BY <1>1, <2>1, <2>2, <2>3, FaithIdle
<1>22. ASSUME NEW f \in Followers, Subscribe(f) PROVE FaithInv'
  <2>1. Call(Follow(f)) /\ UNCHANGED <<mem, capture, buffered, runtime, flush>>
    BY <1>22 DEF Subscribe, daemon
  <2>2. CASE capture = "opening"
    <3>1. batch = <<>> /\ Opening
      BY <1>7, <2>2
    <3>2. PICK o \in Operations : o = Follow(f) /\ o.op = "subscribe"
      <4>1. Follow(f) \in Operations
        BY PlainTypes DEF Operations
      <4>2. Follow(f).op = "subscribe"
        BY DEF Follow
      <4> QED
        BY <4>1, <4>2
    <3>3. tail' = Append(tail, o) /\ batch' = <<>>
      BY <2>1, <3>1, <3>2 DEF Call
    <3>4. PICK q \in Seq(Operations) : q = Tail(tail) /\ Subscriptions(q)
      BY <1>0, <3>1, TailFacts DEF Opening
    <3>5. tail' # <<>> /\ Head(tail') = Head(tail) /\ Tail(tail') = Append(q, o)
      <4>1. Append(tail, o) # <<>>
        BY <1>0, AppendProperties
      <4>2. /\ Head(Append(tail, o)) = Head(tail)
            /\ Tail(Append(tail, o)) = Append(Tail(tail), o)
        BY <1>0, <3>1, HeadTailAppend DEF Opening
      <4> QED
        BY <3>3, <3>4, <4>1, <4>2
    <3>6. Subscriptions(Append(q, o))
      BY <3>2, <3>4, SubscriptionsAppend
    <3>7. Opening'
      BY <2>1, <3>1, <3>5, <3>6 DEF Opening
    <3> QED
      BY <1>7, <2>1, <2>2, <3>3, <3>7 DEF FaithInv
  <2>3. CASE capture = "capturing"
    <3>1. Capturing /\ mem.log \in Logs
      BY <1>2, <1>7, <2>3 DEF Capturing
    <3>2. PICK l, content : l = mem.log /\ content = runtime
      OBVIOUS
    <3>3. Calm(tail') /\ Comes(l, tail', batch', content)
      BY <1>0, <2>1, <3>1, <3>2, ComesFollowed DEF Capturing
    <3>4. Capturing'
      BY <2>1, <3>1, <3>2, <3>3 DEF Capturing
    <3> QED
      BY <1>10, <2>1, <2>3, <3>1, <3>4
  <2>4. CASE capture \in {"none", "retiring"}
    <3>1. batch' = <<>>
      BY <1>7, <2>1, <2>4 DEF Call
    <3> QED
      BY <1>1, <2>1, <2>4, <3>1, FaithIdle
  <2> QED
    BY <1>8, <2>2, <2>3, <2>4
<1>23. ASSUME NEW f \in Followers, Unsubscribe(f) PROVE FaithInv'
  <2>1. UNCHANGED <<mem, capture, buffered, runtime, flush>>
    BY <1>23 DEF Unsubscribe, daemon
  <2>2. CASE capture = "none"
    <3>1. Call(Release) /\ batch = <<>>
      BY <1>7, <1>23, <2>2 DEF Unsubscribe
    <3>2. batch' = <<>>
      BY <3>1 DEF Call
    <3> QED
      BY <1>1, <2>1, <2>2, <3>2, FaithIdle
  <2>3. CASE capture # "none"
    <3>1. UNCHANGED <<tail, batch>>
      BY <1>23, <2>3 DEF Unsubscribe
    <3> QED
      BY <1>1, <2>1, <3>1, FaithAside
  <2> QED
    BY <2>2, <2>3
<1> QED
  BY <1>9, <1>11, <1>12, <1>13, <1>14, <1>15, <1>16, <1>17, <1>18, <1>19,
     <1>20, <1>21, <1>22, <1>23 DEF Next, Operate

\* The timeline retains what its runtime has published while it was opened,
\* drained, coalesced, flushed or subscribed to, as long as no history is
\* replaced under a live runtime: nothing is lost and nothing recorded twice.
THEOREM RetainsTranscript == Spec => []CompleteUnlessReplaced
<1>1. Init => DiskInv /\ FlushInv /\ FaithInv
  BY DiskInit DEF Init, FlushInv, Waits, FaithInv
<1>2. DiskInv /\ FlushInv /\ FaithInv /\ [Next]_vars => (DiskInv /\ FlushInv /\ FaithInv)'
  <2> SUFFICES ASSUME DiskInv, FlushInv, FaithInv, [Next]_vars
               PROVE  DiskInv' /\ FlushInv' /\ FaithInv'
    OBVIOUS
  <2>1. DiskInv'
    BY DiskNext
  <2>2. QueueTypes'
    BY <2>1 DEF DiskInv
  <2> QED
    BY <2>1, <2>2, FlushNext, FaithNext
<1>3. FaithInv => CompleteUnlessReplaced
  <2>1. ASSUME Capturing PROVE Destined = runtime
    BY <2>1 DEF Capturing, Comes, Destined, Current
  <2> QED
    BY <2>1 DEF FaithInv, CompleteUnlessReplaced, Complete
<1> QED
  BY <1>1, <1>2, <1>3, PTL DEF Spec
=============================================================================
