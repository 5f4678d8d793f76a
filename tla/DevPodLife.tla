----------------------------- MODULE DevPodLife -----------------------------
(***************************************************************************)
(* What a dev pod promises to the manager that starts and stops it: Start  *)
(* returns once, Stop cancels, and done is closed when, and only when,     *)
(* nothing of the dev pod runs any more and nothing of it will run again.  *)
(* How often it is restarted in between is its own affair; but once an     *)
(* attempt to restart it has failed and another is made, the first may     *)
(* close done and the second run on: all that is promised then is that a   *)
(* dev pod that is stopped closes done.                                    *)
(***************************************************************************)

VARIABLE life   \* the dev pod, a member of Lives

Starts == {"none", "starting", "started", "failed"}

\* Something of it runs or may be started again, or, after a retry, nobody can tell.
Runs == {"no", "yes", "unknown"}

Lives == [start     : Starts,   \* where Start is
          cancelled : BOOLEAN,  \* its context is done
          runs      : Runs,
          done      : BOOLEAN]  \* done is closed

NewLife == [start |-> "none", cancelled |-> FALSE, runs |-> "no", done |-> FALSE]

\* The lives that differ from one in a single field.
OneChange(l) ==
    {[l EXCEPT !.start = s] : s \in Starts} \cup {[l EXCEPT !.cancelled = c] : c \in BOOLEAN}
        \cup {[l EXCEPT !.runs = r] : r \in Runs} \cup {[l EXCEPT !.done = d] : d \in BOOLEAN}

Init == life = NewLife

Begun(l) == l.start # "none"

\* devPod.Start is called.
Begin(l, m) == ~Begun(l) /\ m = [l EXCEPT !.start = "starting", !.runs = "yes"]

\* It returns without an error, even when the dev pod has ended in the meantime.
Up(l, m) == l.start = "starting" /\ m = [l EXCEPT !.start = "started"]

\* It returns with an error, after the dev pod has stopped.
Fail(l, m) == l.start = "starting" /\ l.cancelled /\ l.done /\ m = [l EXCEPT !.start = "failed"]

\* Its context is cancelled, by somebody else or by its own terminal.
Cancel(l, m) == Begun(l) /\ ~l.cancelled /\ m = [l EXCEPT !.cancelled = TRUE]

\* The last attempt has ended and will not be followed by another.
Quiet(l, m) == Begun(l) /\ l.runs = "yes" /\ m = [l EXCEPT !.runs = "no"]

\* An attempt to restart it has failed, which may have closed done, and another is made.
Retry(l, m) == Begun(l) /\ ~l.cancelled /\ m = [l EXCEPT !.runs = "unknown"]

\* done is closed; after a retry an attempt may end so while another one runs.
End(l, m) == Begun(l) /\ l.runs # "yes" /\ ~l.done /\ m = [l EXCEPT !.done = TRUE]

Step(l, m) ==
    Begin(l, m) \/ Up(l, m) \/ Fail(l, m) \/ Cancel(l, m) \/ Quiet(l, m) \/ Retry(l, m) \/ End(l, m)

Next == Step(life, life')

\* A dev pod whose context is done closes done in the end.
Spec == Init /\ [][Next]_life /\ (life.cancelled ~> life.done)
=============================================================================
