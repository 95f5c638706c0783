----------------------------- MODULE Transcript -----------------------------
(***************************************************************************)
(* What the timeline store promises of a session's durable transcript,     *)
(* without files, batches, queues or crashes: within an epoch the sequence *)
(* only grows, a position never changes its content, and content that does *)
(* not continue what was there comes under an epoch never used before.     *)
(***************************************************************************)
EXTENDS Naturals

CONSTANT Nothing      \* no transcript

VARIABLES kept,       \* Nothing, or [epoch, seq, log]
          drawn       \* the newest epoch drawn

Init == kept = Nothing /\ drawn = 0

Fresh == kept'.epoch > drawn /\ kept'.epoch <= drawn'

Create  == kept = Nothing /\ kept' # Nothing /\ Fresh

Extend  == /\ kept # Nothing /\ kept' # Nothing
           /\ kept'.epoch = kept.epoch /\ kept'.seq > kept.seq
           /\ drawn' >= drawn

Replace == kept # Nothing /\ kept' # Nothing /\ Fresh

Erase   == kept # Nothing /\ kept' = Nothing /\ drawn' >= drawn

\* An epoch may be drawn in vain.
Waste   == UNCHANGED kept /\ drawn' > drawn

Next == Create \/ Extend \/ Replace \/ Erase \/ Waste

Spec == Init /\ [][Next]_<<kept, drawn>>
=============================================================================
