----------------------------- MODULE BrowserTimers -----------------------------
(***************************************************************************)
(* Browser with the grace timers that goodbyes set (cache.ts): a goodbye      *)
(* clears the timers its record has and sets one of its own, so that one that  *)
(* is repeated in time puts the removal off, again and again.                *)
(***************************************************************************)
EXTENDS Browser

VARIABLE turn   \* the records whose grace timer was reset an odd number of times

timerVars == <<vars, turn>>

TimerInit == Init /\ turn = {}

Flip(r) == IF r \in turn THEN turn \ {r} ELSE turn \cup {r}

\* A goodbye for a record that is under one: its timer is replaced by a new one.
Restart(r) == r \in leaving /\ Goodbye(r) /\ turn' = Flip(r)

\* Mutant: a repeated goodbye clears the timer and sets none.
GraceOver_FirstOnly(r) ==
    ExpireLeaving(r) /\ r \notin turn /\ turn' = turn

\* The pending timer fires: expire().
GraceOver(r) == ExpireLeaving(r) /\ turn' = turn \ {r}

TimerNext ==
    \/ \E r \in Record : Restart(r) \/ GraceOver(r)
    \/ Next /\ turn' = turn \cap leaving'

\* The event loop runs a timer that stays pending: the record's time is up, or
\* another timer has taken the place of this one.
FairSpec ==
    /\ TimerInit /\ [][TimerNext]_timerVars
    /\ \A r \in Record : WF_timerVars(GraceOver(r) \/ Restart(r))

------------------------------------------------------------------------------
(* Properties *)

\* A goodbye takes effect, unless it is repeated for ever: the record is gone in the
\* end, or was announced anew (scheduleGoodbye, expire).
GoodbyeTakesEffect ==
    \A r \in Record :
        \/ r \in leaving ~> r \notin leaving
        \/ []<><<Restart(r)>>_timerVars
=============================================================================
