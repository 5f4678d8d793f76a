-------------------------------- MODULE Tomb --------------------------------
(***************************************************************************)
(* A tomb tracks a group of goroutines: how many run, why the group is     *)
(* dying, and whether all of them have returned. Its methods hold its      *)
(* mutex, so each is a function from one state of the tomb to the next.    *)
(***************************************************************************)
EXTENDS Naturals

CONSTANTS
    ErrStillAlive,  \* the reason of a tomb that is not dying
    NoError,        \* nil
    Errors          \* the errors a goroutine may return

ASSUME TombAssumption ==
    /\ ErrStillAlive # NoError /\ NoError \notin Errors /\ ErrStillAlive \notin Errors

Reason == Errors \cup {NoError, ErrStillAlive}

TombState == [alive : Nat, reason : Reason, dead : BOOLEAN]

\* init: the state before the first goroutine.
NewTomb == [alive |-> 0, reason |-> ErrStillAlive, dead |-> FALSE]

Alive(t) == t.reason = ErrStillAlive

\* Go and NotifyGo, for n goroutines; they panic when the tomb is dead, which
\* the modules that call them have to exclude.
Go(t, n) == [t EXCEPT !.alive = @ + n]

\* kill: the first error stays, nil is replaced by an error.
Kill(t, reason) == IF t.reason \in {ErrStillAlive, NoError} THEN [t EXCEPT !.reason = reason] ELSE t

\* Mutant: the tomb is declared dead by the first error.
ReturnDeadOnError(t, err) ==
    LET u == [t EXCEPT !.alive = @ - 1] IN
    IF u.alive = 0 \/ err # NoError
    THEN [Kill(u, err) EXCEPT !.dead = TRUE]
    ELSE u

\* run: a tracked goroutine returns err.
Return(t, err) ==
    LET u == [t EXCEPT !.alive = @ - 1] IN
    IF u.alive = 0 \/ err # NoError
    THEN [Kill(u, err) EXCEPT !.dead = (u.alive = 0)]
    ELSE u
=============================================================================
