---------------------------- MODULE EventJournal ----------------------------
(***************************************************************************)
(* The event half of the connector's SQLite state journal                  *)
(* (apps/connector/src/state.ts).  A journal value is the `metadata` row   *)
(* together with the `events` table, the table being the function from the *)
(* sequences it holds to their payloads.  Every mutation below is one      *)
(* SQLite transaction with synchronous=FULL, so a crash leaves the value   *)
(* before or the value after it and nothing in between.                    *)
(***************************************************************************)
EXTENDS Integers, FiniteSets

CONSTANT BatchLimit      \* HOST_CONNECTOR_EVENT_BATCH_LIMIT: 256 in the code

ASSUME BatchLimitAssumption == BatchLimit \in Nat \ {0}

\* A journal as migration and pairing create it: no event, nothing acknowledged.
EmptyJournal(epoch) ==
    [epoch |-> epoch, next |-> 0, acked |-> 0, events |-> [s \in {} |-> 0]]

\* The sequences for which a row exists.
Pending(j) == DOMAIN j.events

\* enqueue(): one more row under the next sequence, and the metadata with it.
Enqueue(j, payload) ==
    LET s == j.next + 1
    IN  [j EXCEPT !.next   = s,
                  !.events = [t \in Pending(j) \cup {s} |->
                                  IF t = s THEN payload ELSE j.events[t]]]

(***************************************************************************)
(* eventBatch(): the oldest rows in order, cut by count or, after the      *)
(* first row, by bytes.  Bytes are left open: any non-empty prefix within  *)
(* the count limit may be what fits.  BatchEnds are the last sequences a   *)
(* batch may have.                                                         *)
(***************************************************************************)
BatchEnds(j) ==
    {t \in Pending(j) : Cardinality({u \in Pending(j) : u <= t}) <= BatchLimit}

\* A mistake the properties must catch: rows taken newest first.
BatchDescending(j, last) ==
    [s \in {t \in Pending(j) : t <= last} |-> j.events[j.acked + 1 + last - s]]

BatchUpTo(j, last) == [s \in {t \in Pending(j) : t <= last} |-> j.events[s]]

(***************************************************************************)
(* acknowledge(): accepts(j, ack) is the test that throws; an older        *)
(* acknowledgement than the journal's own renumbers the pending rows from  *)
(* one under a fresh epoch ("rebased"), any other deletes the rows it      *)
(* covers ("acknowledged").                                                *)
(***************************************************************************)
Accepts(j, epoch, sequence) == epoch = j.epoch /\ sequence \in 0 .. j.next

\* A mistake: the rebase leaves the rows as they were.
RebaseKeepsRows(j, freshEpoch) ==
    [j EXCEPT !.epoch = freshEpoch, !.next = j.next - j.acked, !.acked = 0]

Rebase(j, freshEpoch) ==
    [epoch  |-> freshEpoch,
     next   |-> j.next - j.acked,
     acked  |-> 0,
     events |-> [s \in {t - j.acked : t \in Pending(j)} |->
                     j.events[s + j.acked]]]

\* Mistakes: the row acknowledged last stays, or the next goes as well, or
\* every row does.
AcknowledgeNext(j, sequence) ==
    [j EXCEPT !.acked  = sequence + 1,
              !.events = [s \in {t \in Pending(j) : t > sequence + 1} |->
                              j.events[s]]]

AcknowledgeBelow(j, sequence) ==
    [j EXCEPT !.acked  = sequence,
              !.events = [s \in {t \in Pending(j) : t >= sequence} |-> j.events[s]]]

AcknowledgeAll(j, sequence) ==
    [j EXCEPT !.acked = j.next, !.events = [s \in {} |-> 0]]

Acknowledge(j, sequence) ==
    [j EXCEPT !.acked  = sequence,
              !.events = [s \in {t \in Pending(j) : t > sequence} |->
                              j.events[s]]]

(***************************************************************************)
(* What open() demands of the file before it returns a journal; any other  *)
(* content stops the connector with "Invalid Host Connector event          *)
(* journal", and with it every session of the host.                        *)
(***************************************************************************)
Opens(j) ==
    /\ j.acked >= 0
    /\ j.next >= j.acked
    /\ Cardinality(Pending(j)) = j.next - j.acked
    /\ IF Pending(j) = {}
         THEN j.next = j.acked
         ELSE /\ j.acked + 1 \in Pending(j)
              /\ j.next \in Pending(j)
              /\ \A s \in Pending(j) : j.acked + 1 <= s /\ s <= j.next
=============================================================================
