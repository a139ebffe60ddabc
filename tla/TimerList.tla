------------------------------ MODULE TimerList ------------------------------
(***************************************************************************)
(* The software timers every other component runs on                       *)
(* (lib/arduino-helpers/src/common/Timer.cpp): one singly linked list of   *)
(* heap nodes, kept in ascending order of timer id, which Timer::Loop      *)
(* walks once per main-loop frame with two bare pointers, pNode and pPrev, *)
(* while the completion callbacks it makes may call Start, Stop and        *)
(* StopAll on the same list.                                               *)
(*                                                                         *)
(* The model is at pointer level: addresses, pNext, pFirst and the two     *)
(* walking pointers are state, and a callback is a separate phase in which *)
(* the list may change under the walk.  Time is counted in ticks of        *)
(* micros(), which wraps.                                                  *)
(***************************************************************************)
EXTENDS Integers, FiniteSets

CONSTANTS
  Addr,               (* heap addresses a TimerNode can have                *)
  Null,               (* the null pointer                                   *)
  Owner,              (* the ITimerCallback objects                         *)
  MaxId,              (* largest TimerID, 2^8 - 1 on the MKR GSM 1400       *)
  Durations,          (* durations the callers ask for                      *)
  ClockMod,           (* micros() wraps at ClockMod, 2^32 in the hardware   *)
  StartsPerCallback,  (* how many timers one completion callback starts     *)
  StopsHeld           (* may a callback stop a node the walk points at?     *)

ASSUME TimerAssumption ==
  /\ Null \notin Addr
  /\ Null \notin Owner
  /\ MaxId \in Nat
  /\ ClockMod \in Nat \ {0}
  /\ Durations \subseteq 0 .. ClockMod - 1
  /\ StartsPerCallback \in Nat
  /\ StopsHeld \in BOOLEAN

VARIABLES
  live,      (* addresses of the nodes of the list                          *)
  first,     (* pFirst                                                      *)
  next,      (* TimerNode::pNext                                            *)
  id,        (* TimerNode::id                                               *)
  owner,     (* TimerNode::pCaller                                          *)
  remain,    (* TimerNode::remain                                           *)
  left,      (* history: ticks until the requested duration is over,        *)
             (* counted from the start of the frame Start was called in     *)
  now,       (* micros()                                                    *)
  frameTS,   (* Timer::frameTS                                              *)
  delta,     (* local of Loop                                               *)
  phase,     (* "idle": outside Loop; "walk"; "callback": in a callback     *)
  cur,       (* pNode of Loop                                               *)
  prev,      (* pPrev of Loop                                               *)
  freed,     (* freeNode of Loop: unlinked, its callback running            *)
  starts,    (* timers the running callback has started                     *)
  sweep      (* the caller StopAll is removing the nodes of, Null: none     *)

list  == <<live, first, next, id, owner, remain, left>>
clock == <<now, frameTS>>
walk  == <<delta, phase, cur, prev, freed, starts>>
vars  == <<list, clock, walk, sweep>>

Ptr == Addr \cup {Null}

\* Unsigned subtraction and increment of the width of micros().
Minus(t, u) == IF t >= u THEN t - u ELSE t - u + ClockMod
Inc(t) == IF t = ClockMod - 1 THEN 0 ELSE t + 1

\* Ticks since the current frame began.
Since == Minus(now, frameTS)

-----------------------------------------------------------------------------
(* The list operations.                                                    *)

\* Mutant of HasGap: off by one, the next id is taken.
HasGapOffByOne(g) == next[g] # Null => id[next[g]] - id[g] >= 1

\* The place after g is free: g is last, or the next id is not the following one.
HasGap(g) == next[g] # Null => id[next[g]] - id[g] > 1

\* The first such node the walk from pFirst meets: the list ascends (ListShape),
\* so it is the one with the least id.
IsFirstGap(g) ==
  /\ g \in live
  /\ HasGap(g)
  /\ \A b \in live : HasGap(b) => id[g] <= id[b]

\* Callers run outside Loop, or inside the callback Loop is making.
CallersTurn == phase \in {"idle", "callback"} /\ sweep = Null

\* What new TimerNode and the assignments of Start give the node, but its links.
Fill(a, o, d, i) ==
  /\ live'   = live \cup {a}
  /\ id'     = [id EXCEPT ![a] = i]
  /\ owner'  = [owner EXCEPT ![a] = o]
  /\ remain' = [remain EXCEPT ![a] = d]
  /\ left'   = [left EXCEPT ![a] = IF d > Since THEN d - Since ELSE 0]

\* delete: the node's memory carries nothing any more.
Clear(a) ==
  /\ id'     = [id EXCEPT ![a] = 0]
  /\ owner'  = [owner EXCEPT ![a] = Null]
  /\ remain' = [remain EXCEPT ![a] = 0]
  /\ left'   = [left EXCEPT ![a] = 0]

\* Stop and StopAll take a node out through pFirst or its predecessor, tell its
\* caller (OnTimerStop, which calls nothing back) and delete it.
Remove(a) ==
  /\ live' = live \ {a}
  /\ IF a = first
     THEN first' = next[a] /\ next' = [next EXCEPT ![a] = Null]
     ELSE /\ \E p \in live : next[p] = a /\ next' = [next EXCEPT ![p] = next[a], ![a] = Null]
          /\ UNCHANGED first
  /\ Clear(a)

\* The nodes a caller may stop now: in a callback, without StopsHeld, none
\* that Loop's pNode or pPrev points at.
Stoppable(a) ==
  \/ phase = "idle"
  \/ phase = "callback" /\ (StopsHeld \/ a \notin {cur, prev})

-----------------------------------------------------------------------------
Init ==
  /\ live = {}
  /\ first = Null
  /\ next = [a \in Addr |-> Null]
  /\ id = [a \in Addr |-> 0]
  /\ owner = [a \in Addr |-> Null]
  /\ remain = [a \in Addr |-> 0]
  /\ left = [a \in Addr |-> 0]
  /\ now = 0
  /\ frameTS = 0
  /\ delta = 0
  /\ phase = "idle"
  /\ cur = Null
  /\ prev = Null
  /\ freed = Null
  /\ starts = 0
  /\ sweep = Null

\* Timer::Start when id 1 is free: the node becomes the head of the list.
StartFront(a, o, d) ==
  /\ first # Null => id[first] # 1
  /\ Fill(a, o, d, 1)
  /\ next' = [next EXCEPT ![a] = first]
  /\ first' = a

\* Timer::Start otherwise: the node goes into the first gap of the ids.  The
\* bound MaxId keeps the model below the 256th timer, where the 8-bit id wraps.
StartInGap(a, o, d) ==
  /\ first # Null /\ id[first] = 1
  /\ \E g \in live :
       /\ IsFirstGap(g)
       /\ id[g] + 1 <= MaxId
       /\ Fill(a, o, d, id[g] + 1)
       /\ next' = [next EXCEPT ![a] = next[g], ![g] = a]
  /\ UNCHANGED first

Start(a, o, d) ==
  /\ CallersTurn
  /\ phase = "callback" => starts < StartsPerCallback
  /\ a \notin live \cup {freed}
  /\ StartFront(a, o, d) \/ StartInGap(a, o, d)
  /\ starts' = IF phase = "callback" THEN starts + 1 ELSE starts
  /\ UNCHANGED <<clock, delta, phase, cur, prev, freed, sweep>>

\* Timer::Stop of the id of node a; an unknown id, or 0, changes nothing.
Stop(a) ==
  /\ CallersTurn
  /\ a \in live
  /\ Stoppable(a)
  /\ Remove(a)
  /\ UNCHANGED <<clock, walk, sweep>>

\* Timer::StopAll, also made by ~ITimerCallback, removes every node of one
\* caller: no other operation runs until its walk is over.
StopAllBegin(o) ==
  /\ CallersTurn
  /\ \A a \in live : owner[a] = o => Stoppable(a)
  /\ sweep' = o
  /\ UNCHANGED <<list, clock, walk>>

StopAllStep(a) ==
  /\ a \in live
  /\ sweep # Null /\ owner[a] = sweep
  /\ \A b \in live : owner[b] = sweep => id[a] <= id[b]
  /\ Remove(a)
  /\ UNCHANGED <<clock, walk, sweep>>

StopAllEnd ==
  /\ sweep # Null
  /\ \A a \in live : owner[a] # sweep
  /\ sweep' = Null
  /\ UNCHANGED <<list, clock, walk>>

\* Mutant of LoopBegin: the frame is measured, but frameTS is not moved on.
LoopBeginSameFrame ==
  /\ phase = "idle" /\ sweep = Null
  /\ delta' = Since
  /\ cur' = first
  /\ prev' = Null
  /\ phase' = "walk"
  /\ UNCHANGED <<list, now, frameTS, freed, starts, sweep>>

\* Timer::Loop up to its for: measure the frame and take the head.
LoopBegin ==
  /\ phase = "idle" /\ sweep = Null
  /\ delta' = Since
  /\ frameTS' = now
  /\ cur' = first
  /\ prev' = Null
  /\ phase' = "walk"
  /\ UNCHANGED <<list, now, freed, starts, sweep>>

\* Mutant of Pass: the node does not pay the frame.
PassWithoutPaying ==
  /\ phase = "walk" /\ cur # Null
  /\ remain[cur] > delta
  /\ prev' = cur
  /\ cur' = next[cur]
  /\ UNCHANGED <<list, clock, delta, phase, freed, starts, sweep>>

\* A node with time left: it pays the frame and the walk moves on.
Pass ==
  /\ phase = "walk" /\ cur # Null
  /\ remain[cur] > delta
  /\ remain' = [remain EXCEPT ![cur] = @ - delta]
  /\ prev' = cur
  /\ cur' = next[cur]
  /\ UNCHANGED <<live, first, next, id, owner, left, clock, delta, phase, freed, starts, sweep>>

\* Mutant of Expire: the callback is made while the node is still in the list.
ExpireLinked ==
  /\ phase = "walk" /\ cur # Null
  /\ remain[cur] <= delta
  /\ freed' = cur
  /\ cur' = next[cur]
  /\ phase' = "callback"
  /\ starts' = 0
  /\ UNCHANGED <<list, clock, delta, prev, sweep>>

\* A node whose time is over: pNode moves on, the node is unlinked through
\* pPrev, and its callback starts.
Expire ==
  /\ phase = "walk" /\ cur # Null
  /\ remain[cur] <= delta
  /\ IF cur = first
     THEN first' = next[cur] /\ prev' = Null /\ UNCHANGED next
     ELSE next' = [next EXCEPT ![prev] = next[cur]] /\ UNCHANGED <<first, prev>>
  /\ live' = live \ {cur}
  /\ freed' = cur
  /\ cur' = next[cur]
  /\ phase' = "callback"
  /\ starts' = 0
  /\ UNCHANGED <<id, owner, remain, left, clock, delta, sweep>>

\* Mutant of RefoundPrev: pPrev is kept as it was before the callback.
KeptPrev == prev

\* "pPrev node could be changed during callback": look it up again.
RefoundPrev ==
  IF /\ cur # Null
     /\ IF prev = Null THEN first # cur ELSE next[prev] # cur
     /\ \E p \in live : next[p] = cur
  THEN CHOOSE p \in live : next[p] = cur
  ELSE prev

\* The callback returns: pPrev is mended and the node is deleted.
CallbackReturn ==
  /\ phase = "callback" /\ sweep = Null
  /\ prev' = RefoundPrev
  /\ next' = [next EXCEPT ![freed] = Null]
  /\ Clear(freed)
  /\ freed' = Null
  /\ phase' = "walk"
  /\ starts' = 0
  /\ UNCHANGED <<live, first, clock, delta, cur, sweep>>

LoopEnd ==
  /\ phase = "walk" /\ cur = Null
  /\ phase' = "idle"
  /\ prev' = Null
  /\ delta' = 0
  /\ UNCHANGED <<list, clock, cur, freed, starts, sweep>>

\* One tick of micros(), at any time; no frame lasts as long as the wrap.
Tick ==
  /\ Since < ClockMod - 1
  /\ now' = Inc(now)
  /\ left' = [a \in Addr |-> IF left[a] > 0 THEN left[a] - 1 ELSE 0]
  /\ UNCHANGED <<live, first, next, id, owner, remain, frameTS, walk, sweep>>

Callers ==
  \/ \E a \in Addr, o \in Owner, d \in Durations : Start(a, o, d)
  \/ \E a \in Addr : Stop(a)
  \/ \E o \in Owner : StopAllBegin(o)

Sweeping == StopAllEnd \/ \E a \in Addr : StopAllStep(a)

Loop == LoopBegin \/ Pass \/ Expire \/ CallbackReturn \/ LoopEnd

Next == Callers \/ Sweeping \/ Loop \/ Tick

Spec == Init /\ [][Next]_vars

\* loop() of main.cpp calls Timer::Loop for ever, every callback returns, and
\* the hardware clock runs, however often callers come between (a StopAll keeps
\* both waiting while it lasts: strong fairness); callers need never call.
Fairness == SF_vars(Loop) /\ WF_vars(Sweeping) /\ SF_vars(Tick)

FairSpec == Spec /\ Fairness

-----------------------------------------------------------------------------
TypeOK ==
  /\ live \subseteq Addr
  /\ first \in Ptr
  /\ next \in [Addr -> Ptr]
  /\ id \in [Addr -> Nat]
  /\ owner \in [Addr -> Owner \cup {Null}]
  /\ remain \in [Addr -> Nat]
  /\ left \in [Addr -> Nat]
  /\ now \in 0 .. ClockMod - 1
  /\ frameTS \in 0 .. ClockMod - 1
  /\ delta \in Nat
  /\ phase \in {"idle", "walk", "callback"}
  /\ cur \in Ptr
  /\ prev \in Ptr
  /\ freed \in Ptr
  /\ starts \in Nat
  /\ sweep \in Owner \cup {Null}

\* The list that starts at pFirst and follows pNext is exactly the live nodes,
\* in strictly ascending order of id: pFirst is the least, pNext of a node is
\* the node with the next greater id, ids are unique and never 0, the value
\* callers use for "no timer" (Timer.cpp Start, Stop, Loop).
ListShape ==
  /\ \A a, b \in live : id[a] = id[b] => a = b
  /\ \A a \in live : id[a] > 0
  /\ first = Null <=> live = {}
  /\ first # Null => first \in live /\ \A b \in live : id[first] <= id[b]
  /\ \A a \in live :
       IF next[a] = Null
       THEN \A b \in live : id[b] <= id[a]
       ELSE /\ next[a] \in live
            /\ id[a] < id[next[a]]
            /\ \A b \in live : id[b] <= id[a] \/ id[next[a]] <= id[b]

\* Loop never dereferences a deleted node: whatever the callback did, pNode is
\* null or a node of the list, and so is pPrev; and outside a callback pPrev is
\* pNode's predecessor, so that unlinking through it removes pNode.
CursorOK ==
  /\ cur # Null => cur \in live
  /\ prev # Null => prev \in live
  /\ phase = "walk" /\ cur # Null => IF prev = Null THEN first = cur ELSE next[prev] = cur

\* A node whose callback runs is out of the list and of every pointer to it, so
\* nothing can reach it when Loop deletes it.
FreedUnreachable ==
  freed # Null => freed \notin live /\ cur # freed /\ prev # freed /\ first # freed

\* Loop completes no timer before its duration has passed since the frame in
\* which it was started: no frame is charged to it twice, and none that was over
\* before it existed (Loop's remain -= delta against Start's remain = duration).
NeverEarly == [][phase = "walk" /\ phase' = "callback" => left[cur] = 0]_vars

\* Every started timer ends: it completes or is stopped, so a walk never loops
\* for ever and no node is lost from the list while it is still to fire.
EveryTimerEnds == \A a \in Addr : a \in live ~> a \notin live

\* The list implements the service TimerService describes: a live node is a
\* running timer, and the node Loop unlinked is the one being completed.
RunningTimers == {[id |-> id[a], owner |-> owner[a], left |-> left[a]] : a \in live}

Completing ==
  IF phase = "callback" THEN [id |-> id[freed], owner |-> owner[freed]]
  ELSE [id |-> 0, owner |-> Null]

Service == INSTANCE TimerService WITH Nobody <- Null, running <- RunningTimers, calling <- Completing

\* The pointer walk keeps the promise of the service (Timer.cpp Start, Stop,
\* StopAll, Loop): distinct smallest ids, one callback per timer, to the caller
\* that started it, when it is over and never after it was stopped.
ServiceSpec == Service!Spec

=============================================================================
