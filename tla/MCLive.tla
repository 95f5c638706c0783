------------------------------- MODULE MCLive -------------------------------
(***************************************************************************)
(* Values of LiveViews' constants.  Each budget brings some happenings     *)
(* together; the behaviours of all of them are checked.                    *)
(***************************************************************************)
EXTENDS LiveViews, TLC

Of(some) == some @@ [what \in Happenings |-> 0]
One(some) == Of([what \in some |-> 1])
Twice(what, some) == (what :> 2) @@ One(some)

Hazards == {
    One({"view", "commit", "rewind", "break"}),
    One({"view", "commit", "rewind", "crash"}),
    One({"view", "commit", "cut", "break"}),
    One({"view", "commit", "again", "break"}),
    One({"view", "commit", "cut", "fail"}),
    One({"view", "commit", "rewind", "refetch"}),
    One({"view", "commit", "refetch", "break"}),
    Twice("commit", {"view", "displace", "again"}),
    Twice("commit", {"view", "crash", "again"}),
    Twice("break", {"view", "commit"}),
    One({"listen", "change", "break", "again"}),
    One({"listen", "change", "exit", "break"}),
    One({"listen", "change", "exit", "crash"}),
    One({"listen", "change", "timeout", "fail"}),
    Twice("change", {"listen", "again"}),
    Twice("change", {"listen", "crash"}),
    Twice("change", {"listen", "crash", "again"}),
    Twice("break", {"listen", "change"}),
    Twice("listen", {"change"}),
    One({"view", "commit", "rewind", "restart"}),
    One({"view", "refetch", "commit", "restart"}),
    Twice("listen", {"change", "restart"}),
    One({"view", "listen", "break"})}
=============================================================================
