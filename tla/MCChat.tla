------------------------------- MODULE MCChat -------------------------------
(***************************************************************************)
(* Values of ChatTab's constants.  Each budget brings some hazards         *)
(* together; the behaviours of all of them are checked.                    *)
(***************************************************************************)
EXTENDS ChatTab, TLC

CONSTANTS m1, m2, other

TwoMessages == <<m1, m2>>

Of(some) == some @@ [event \in Events |-> 0]
One(events) == Of([event \in events |-> 1])
Twice(event, events) == (event :> 2) @@ One(events)

Hazards == {
    One({"stop", "now"}),
    One({"edit", "remove", "recover"}),
    One({"edit", "now", "fail"}),
    One({"crash", "stop", "recover"}),
    One({"crash", "now", "leave"}),
    One({"error", "now", "leave"}),
    One({"drop", "twice", "recover"}),
    One({"drop", "stop", "recover"}),
    Twice("recover", {"crash", "drop", "hide"}),
    One({"stop", "fail", "recover"}),
    One({"rival", "twice", "now"}),
    One({"rival", "error", "recover"}),
    One({"voice", "stop"}),
    One({"unsaved", "now", "recover"})}
=============================================================================
