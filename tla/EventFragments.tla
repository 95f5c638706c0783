--------------------------- MODULE EventFragments ---------------------------
(***************************************************************************)
(* An event larger than a request travels in fragments (deliverBatch() of  *)
(* apps/connector/src/client.ts) and is put together by the server (apps/  *)
(* web/lib/agents/connector/eventFragments.ts).  Starting a transfer ends  *)
(* all others of its connector, so an assembly is one value: whose it is   *)
(* and how many fragments it has.                                          *)
(*                                                                         *)
(* An id names the event: its key is the epoch and the sequence it travels *)
(* under, its digest the payload.  Another live payload may be sent under  *)
(* the key of one that failed.                                             *)
(***************************************************************************)
EXTENDS Naturals

CONSTANT Fragments   \* how many a large event has

ASSUME FragmentsAssumption == Fragments \in Nat \ {0, 1}

Assembly(id, have) == [id |-> id, have |-> have]

NoId == [key |-> <<0, 0>>, digest |-> 0]
NoAssembly == Assembly(NoId, 0)

\* A mistake: a transfer that was given up keeps others from beginning.
ReceivedInTurn(assembly, id, index) ==
    LET begun == IF index = 0 /\ assembly = NoAssembly THEN Assembly(id, 0)
                 ELSE assembly
    IN  IF begun.id = id /\ begun.have = index
        THEN Assembly(id, index + 1) ELSE begun

\* accept(), up to the answer: the first fragment of an event that is not the
\* one being assembled starts anew, the next one is added, and any other
\* changes nothing.
Received(assembly, id, index) ==
    LET begun == IF index = 0 /\ assembly.id # id THEN Assembly(id, 0) ELSE assembly
    IN  IF begun.id = id /\ begun.have = index
        THEN Assembly(id, index + 1) ELSE begun

\* The event is committed with this fragment.
Completes(assembly, id, index) ==
    Received(assembly, id, index) = Assembly(id, Fragments)

\* An answer that is no index: the identity of the event has changed.
Refusal == Fragments

\* The index the server asks for next, when it does not commit.
Partial(assembly, id, index) ==
    LET received == Received(assembly, id, index)
    IN  IF received.id = id THEN received.have
        ELSE IF received.id.key = id.key THEN Refusal ELSE 0

\* What the connector takes for an answer: to begin again, or to go on.
GoesOn(index, answer) == answer # Refusal /\ (answer = 0 \/ answer > index)

\* A commit is over, whoever asked for it.
Discarded(assembly, id) ==
    IF assembly.id.key = id.key THEN NoAssembly ELSE assembly
=============================================================================
