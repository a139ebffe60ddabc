----------------------------- MODULE TimerService -----------------------------
(***************************************************************************)
(* What the software timers promise their callers, without list, pointers  *)
(* or frames: a set of running timers with distinct ids, of which one may  *)
(* complete only when its time is over, once, and not after it was         *)
(* stopped.  TimerList, the model of lib/arduino-helpers/src/common/       *)
(* Timer.cpp, implements it.                                               *)
(***************************************************************************)
EXTENDS Integers

CONSTANTS
  Owner,  (* the ITimerCallback objects                                     *)
  Nobody  (* not an owner                                                   *)

VARIABLES
  running,  (* the running timers, [id, owner, left]                        *)
  calling   (* the timer whose completion callback runs, [id, owner]        *)

svars == <<running, calling>>

NoCall == [id |-> 0, owner |-> Nobody]

Init ==
  /\ running = {}
  /\ calling = NoCall

\* Start adds one timer and hands out the smallest free id.
Start(t) ==
  /\ t.id > 0 /\ t.owner \in Owner /\ t.left >= 0
  /\ \A r \in running : r.id # t.id
  /\ \A j \in 1 .. t.id - 1 : \E r \in running : r.id = j
  /\ running' = running \cup {t}
  /\ UNCHANGED calling

Stop(r) ==
  /\ running' = running \ {r}
  /\ UNCHANGED calling

\* OnTimerComplete: of one timer at a time, to its owner, when its time is over.
Complete(r) ==
  /\ calling = NoCall
  /\ r.left = 0
  /\ running' = running \ {r}
  /\ calling' = [id |-> r.id, owner |-> r.owner]

Return ==
  /\ calling # NoCall
  /\ calling' = NoCall
  /\ UNCHANGED running

Tick ==
  /\ running' = {[r EXCEPT !.left = IF @ > 0 THEN @ - 1 ELSE 0] : r \in running}
  /\ UNCHANGED calling

Next ==
  \/ \E t \in running' : Start(t)
  \/ \E r \in running : Stop(r) \/ Complete(r)
  \/ Return
  \/ Tick

Spec == Init /\ [][Next]_svars

=============================================================================
