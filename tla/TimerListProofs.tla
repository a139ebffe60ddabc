--------------------------- MODULE TimerListProofs ---------------------------
(***************************************************************************)
(* Theorems about TimerList, for every set of addresses and callers, every *)
(* id width and clock width.                                               *)
(*                                                                         *)
(* The list is described without recursion: ids ascend strictly, so the    *)
(* successor and the predecessor of a node are determined by the ids, and  *)
(* every fact about the list is about a node and its neighbours.           *)
(***************************************************************************)
EXTENDS TimerList, WellFoundedInduction, TLAPS

\* Every node but the head is the pNext of some node: with ListShape, the walk
\* from pFirst meets every node.
PredExists == \A a \in live : a # first => \E p \in live : next[p] = a

\* What TypeOK leaves open about the phases: which locals of Loop are in use.
PhaseInv ==
  /\ phase = "idle" => cur = Null /\ prev = Null
  /\ phase # "callback" => freed = Null
  /\ phase = "callback" => freed \in Addr /\ freed \notin live /\ id[freed] > 0

\* The list half of the inductive invariant.
ListInv == TypeOK /\ ListShape /\ PredExists /\ PhaseInv

LEMMA InitListInv == TimerAssumption /\ Init => ListInv
  BY DEF TimerAssumption, Init, ListInv, TypeOK, ListShape, PredExists, PhaseInv, Ptr

LEMMA SinceType ==
  ASSUME ClockMod \in Nat \ {0}, now \in 0 .. ClockMod - 1, frameTS \in 0 .. ClockMod - 1
  PROVE  Since \in 0 .. ClockMod - 1
  BY DEF Since, Minus

LEMMA StartListInv ==
  ASSUME TimerAssumption, ListInv, NEW a \in Addr, NEW o \in Owner, NEW d \in Durations, Start(a, o, d)
  PROVE  ListInv'
<1> USE DEF ListInv, TypeOK, Ptr
<1>0. d \in Nat /\ Since \in Nat
  BY SinceType DEF TimerAssumption
<1>1. a \notin live /\ a # freed /\ freed' = freed /\ phase' = phase /\ cur' = cur /\ prev' = prev
  BY DEF Start
<1>2. CASE StartFront(a, o, d)
  <2>1. TypeOK'
    BY <1>0, <1>2 DEF Start, StartFront, Fill, clock
  <2>2. ListShape'
    BY <1>0, <1>1, <1>2 DEF StartFront, Fill, ListShape
  <2>3. PredExists'
    BY <1>0, <1>1, <1>2 DEF StartFront, Fill, ListShape, PredExists
  <2>4. PhaseInv'
    BY <1>1, <1>2 DEF StartFront, Fill, PhaseInv
  <2> QED BY <2>1, <2>2, <2>3, <2>4
<1>3. CASE StartInGap(a, o, d)
  <2>1. PICK g \in live : /\ IsFirstGap(g)
                          /\ Fill(a, o, d, id[g] + 1)
                          /\ next' = [next EXCEPT ![a] = next[g], ![g] = a]
    BY <1>3 DEF StartInGap
  <2>2. first' = first
    BY <1>3 DEF StartInGap
  <2>3. TypeOK'
    BY <1>0, <2>1, <2>2 DEF Start, Fill, clock
  <2>4. \A b \in live : id[b] # id[g] + 1
    BY <2>1 DEF IsFirstGap, HasGap, ListShape
  <2>5. ListShape'
    BY <1>0, <1>1, <2>1, <2>2, <2>4 DEF Fill, ListShape, IsFirstGap, HasGap
  <2>6. PredExists'
    BY <1>1, <2>1, <2>2 DEF Fill, ListShape, PredExists
  <2>7. PhaseInv'
    BY <1>1, <2>1 DEF Fill, PhaseInv
  <2> QED BY <2>3, <2>5, <2>6, <2>7
<1> QED BY <1>2, <1>3 DEF Start

\* Taking node a out of the list, through pFirst or through its predecessor p.
LEMMA UnlinkShape ==
  ASSUME TimerAssumption, TypeOK, ListShape, PredExists, NEW a \in live,
         live' = live \ {a},
         \A b \in live \ {a} : id'[b] = id[b],
         \/ a = first /\ first' = next[a] /\ \A b \in live \ {a} : next'[b] = next[b]
         \/ /\ a # first /\ first' = first
            /\ \E p \in live : /\ next[p] = a
                               /\ \A b \in live \ {a} : next'[b] = IF b = p THEN next[a] ELSE next[b]
  PROVE  ListShape' /\ PredExists'
<1> USE DEF TypeOK, Ptr
<1>1. a # Null /\ \A b \in live : id[b] \in Int
  BY DEF TimerAssumption
<1>2. CASE /\ a = first /\ first' = next[a]
           /\ \A b \in live \ {a} : next'[b] = next[b]
  <2>1. ListShape'
    BY <1>1, <1>2 DEF ListShape
  <2>2. PredExists'
    BY <1>1, <1>2 DEF ListShape, PredExists
  <2> QED BY <2>1, <2>2
<1>3. CASE /\ a # first /\ first' = first
           /\ \E p \in live : /\ next[p] = a
                              /\ \A b \in live \ {a} : next'[b] = IF b = p THEN next[a] ELSE next[b]
  <2>1. PICK p \in live : /\ next[p] = a
                          /\ \A b \in live \ {a} : next'[b] = IF b = p THEN next[a] ELSE next[b]
    BY <1>3
  <2>2. id[p] < id[a] /\ \A b \in live : id[b] <= id[p] \/ id[a] <= id[b]
    BY <1>1, <2>1 DEF ListShape
  <2>3. p # a
    BY <1>1, <2>2
  <2>4. \A c \in live : c # p => next[c] # a
    BY <1>1, <2>1, <2>2 DEF ListShape
  <2>5. \A b \in live \ {a} : id[b] # id[a]
    BY DEF ListShape
  <2>6. ASSUME NEW c \in live \ {a}
        PROVE  IF next'[c] = Null
               THEN \A b \in live \ {a} : id[b] <= id[c]
               ELSE /\ next'[c] \in live \ {a}
                    /\ id[c] < id[next'[c]]
                    /\ \A b \in live \ {a} : id[b] <= id[c] \/ id[next'[c]] <= id[b]
    <3>1. CASE c = p
      <4>1. CASE next[a] = Null
        BY <1>1, <2>1, <2>2, <2>5, <3>1, <4>1 DEF ListShape
      <4>2. CASE next[a] # Null
        <5>1. /\ next[a] \in live \ {a}
              /\ id[a] < id[next[a]]
              /\ \A b \in live : id[b] <= id[a] \/ id[next[a]] <= id[b]
          BY <1>1, <4>2 DEF ListShape
        <5> QED BY <1>1, <2>1, <2>2, <2>5, <3>1, <5>1, <4>2
      <4> QED BY <4>1, <4>2
    <3>2. CASE c # p
      BY <1>1, <2>1, <2>4, <3>2 DEF ListShape
    <3> QED BY <3>1, <3>2
  <2>7. /\ \A b, c \in live \ {a} : id[b] = id[c] => b = c
        /\ \A b \in live \ {a} : id[b] > 0
        /\ first = Null <=> live \ {a} = {}
        /\ first # Null => first \in live \ {a} /\ \A b \in live \ {a} : id[first] <= id[b]
    BY <1>1, <1>3, <2>1, <2>3 DEF ListShape
  <2>8. ListShape'
    BY <1>3, <2>6, <2>7 DEF ListShape
  <2>9. PredExists'
    BY <1>1, <1>3, <2>1, <2>3, <2>4 DEF ListShape, PredExists
  <2> QED BY <2>8, <2>9
<1> QED BY <1>2, <1>3

LEMMA RemoveListInv ==
  ASSUME TimerAssumption, ListInv, NEW a \in live, Remove(a),
         UNCHANGED <<clock, walk>>, sweep' \in Owner \cup {Null}
  PROVE  ListInv'
<1> USE DEF ListInv
<1>1. TypeOK'
  BY DEF Remove, Clear, clock, walk, TypeOK, Ptr
<1>2. PhaseInv'
  BY DEF Remove, Clear, PhaseInv, walk, TypeOK, Ptr
<1>3. live' = live \ {a} /\ \A b \in live \ {a} : id'[b] = id[b]
  BY DEF Remove, Clear, TypeOK
<1>4. \/ a = first /\ first' = next[a] /\ \A b \in live \ {a} : next'[b] = next[b]
      \/ /\ a # first /\ first' = first
         /\ \E p \in live : /\ next[p] = a
                            /\ \A b \in live \ {a} : next'[b] = IF b = p THEN next[a] ELSE next[b]
  BY DEF Remove, TypeOK
<1> QED BY <1>1, <1>2, <1>3, <1>4, UnlinkShape

-----------------------------------------------------------------------------
(* The walk.  The walking pointers need the rule that a callback stops no   *)
(* node they hold (~StopsHeld).                                             *)

\* pPrev is before pNode, so the head is never behind pPrev; and a StopAll in
\* progress is one the rule allowed.
WalkInv ==
  /\ cur # Null /\ prev # Null => id[prev] < id[cur]
  /\ sweep # Null => phase \in {"idle", "callback"} /\ \A a \in live : owner[a] = sweep => Stoppable(a)

SafeInv == ListInv /\ CursorOK /\ WalkInv

LEMMA InitSafeInv == TimerAssumption /\ Init => SafeInv
  BY InitListInv DEF SafeInv, CursorOK, WalkInv, Init, ListInv

LEMMA StartSafeInv ==
  ASSUME TimerAssumption, SafeInv, NEW a \in Addr, NEW o \in Owner, NEW d \in Durations, Start(a, o, d)
  PROVE  SafeInv'
<1> USE DEF SafeInv
<1>1. ListInv'
  BY StartListInv
<1>2. /\ a \notin live /\ live' = live \cup {a}
      /\ \A b \in live : id'[b] = id[b] /\ owner'[b] = owner[b]
      /\ phase' = phase /\ cur' = cur /\ prev' = prev /\ sweep' = sweep /\ sweep = Null
      /\ phase \in {"idle", "callback"}
  BY DEF Start, StartFront, StartInGap, Fill, CallersTurn, ListInv, TypeOK
<1>3. CursorOK'
  BY <1>2 DEF CursorOK
<1>4. WalkInv'
  BY <1>2 DEF WalkInv, CursorOK
<1> QED BY <1>1, <1>3, <1>4

LEMMA RemoveSafeInv ==
  ASSUME TimerAssumption, ~StopsHeld, SafeInv, NEW a \in live, Stoppable(a), Remove(a),
         UNCHANGED <<clock, walk, sweep>>
  PROVE  SafeInv'
<1> USE DEF SafeInv
<1>1. ListInv'
  BY RemoveListInv DEF ListInv, TypeOK
<1>2. /\ live' = live \ {a}
      /\ \A b \in live \ {a} : id'[b] = id[b] /\ owner'[b] = owner[b]
      /\ phase' = phase /\ cur' = cur /\ prev' = prev /\ sweep' = sweep
  BY DEF Remove, Clear, walk, ListInv, TypeOK
<1>3. a # cur /\ a # prev /\ phase # "walk"
  BY DEF Stoppable, ListInv, PhaseInv, TypeOK, TimerAssumption, Ptr
<1>4. CursorOK'
  BY <1>2, <1>3 DEF CursorOK
<1>5. WalkInv'
  BY <1>2, <1>3 DEF WalkInv, CursorOK, Stoppable
<1> QED BY <1>1, <1>4, <1>5

LEMMA ExpireSafeInv ==
  ASSUME TimerAssumption, SafeInv, Expire
  PROVE  SafeInv'
<1> USE DEF SafeInv, ListInv
<1>1. /\ cur \in live /\ cur # Null /\ live' = live \ {cur} /\ id' = id /\ cur' = next[cur]
      /\ phase = "walk" /\ phase' = "callback" /\ freed' = cur /\ sweep' = sweep /\ sweep = Null
  BY DEF Expire, CursorOK, WalkInv, TypeOK
<1>2. CASE cur = first
  <2>1. first' = next[cur] /\ next' = next /\ prev' = Null
    BY <1>2 DEF Expire
  <2>2. ListShape' /\ PredExists'
    BY <1>1, <1>2, <2>1, UnlinkShape
  <2>3. TypeOK'
    BY <1>1, <2>1 DEF Expire, TypeOK, Ptr, clock
  <2>4. PhaseInv'
    BY <1>1 DEF PhaseInv, ListShape, TypeOK
  <2>5. cur' # Null => cur' \in live'
    BY <1>1 DEF ListShape, TypeOK
  <2>6. CursorOK' /\ WalkInv'
    BY <1>1, <2>1, <2>5 DEF CursorOK, WalkInv
  <2> QED BY <2>2, <2>3, <2>4, <2>6
<1>3. CASE cur # first
  <2>1. /\ prev # Null /\ prev \in live /\ next[prev] = cur /\ prev' = prev
        /\ first' = first /\ next' = [next EXCEPT ![prev] = next[cur]]
    BY <1>1, <1>3 DEF Expire, CursorOK
  <2>2. prev # cur /\ id[prev] < id[cur]
    BY <1>1, <2>1 DEF ListShape, TypeOK
  <2>3. ListShape' /\ PredExists'
    <3>1. \E p \in live : /\ next[p] = cur
                          /\ \A b \in live \ {cur} : next'[b] = IF b = p THEN next[cur] ELSE next[b]
      BY <2>1 DEF TypeOK
    <3> QED BY <1>1, <1>3, <2>1, <3>1, UnlinkShape
  <2>4. TypeOK'
    BY <1>1, <2>1 DEF Expire, TypeOK, Ptr, clock
  <2>5. PhaseInv'
    BY <1>1 DEF PhaseInv, ListShape, TypeOK
  <2>6. cur' # Null => cur' \in live' /\ id[cur] < id[cur']
    BY <1>1 DEF ListShape, TypeOK
  <2>7. CursorOK'
    BY <1>1, <2>1, <2>2, <2>6 DEF CursorOK
  <2>8. WalkInv'
    <3>1. cur' # Null => id[prev] < id[cur']
      BY <1>1, <2>1, <2>2, <2>6 DEF TypeOK, Ptr
    <3> QED BY <1>1, <2>1, <3>1 DEF WalkInv
  <2> QED BY <2>3, <2>4, <2>5, <2>7, <2>8
<1> QED BY <1>2, <1>3

LEMMA ReturnSafeInv ==
  ASSUME TimerAssumption, SafeInv, CallbackReturn
  PROVE  SafeInv'
<1> USE DEF SafeInv, ListInv
<1>1. /\ freed \in Addr /\ freed \notin live /\ live' = live /\ first' = first
      /\ cur' = cur /\ freed' = Null /\ sweep' = sweep /\ sweep = Null
      /\ phase = "callback" /\ phase' = "walk" /\ prev' = RefoundPrev
  BY DEF CallbackReturn, PhaseInv
<1>2. \A b \in live : next'[b] = next[b] /\ id'[b] = id[b] /\ owner'[b] = owner[b]
  BY <1>1 DEF CallbackReturn, Clear, TypeOK
<1>3. ListShape' /\ PredExists'
  <2>1. \A b \in live : next[b] # Null => next[b] \in live
    BY DEF ListShape
  <2> QED BY <1>1, <1>2, <2>1 DEF ListShape, PredExists
<1>4. RefoundPrev # Null => RefoundPrev \in live
  BY DEF RefoundPrev, CursorOK
<1>5. cur # Null => IF RefoundPrev = Null THEN first = cur ELSE next[RefoundPrev] = cur
  <2> SUFFICES ASSUME cur # Null
               PROVE  IF RefoundPrev = Null THEN first = cur ELSE next[RefoundPrev] = cur
    OBVIOUS
  <2>1. cur \in live
    BY DEF CursorOK
  <2>2. CASE \E p \in live : next[p] = cur
    BY <2>1, <2>2 DEF RefoundPrev, TimerAssumption, TypeOK
  <2>3. CASE ~\E p \in live : next[p] = cur
    <3>1. cur = first
      BY <2>1, <2>3 DEF PredExists
    <3>2. prev = Null
      BY <2>1, <3>1 DEF ListShape, WalkInv, CursorOK, TypeOK
    <3> QED BY <2>3, <3>1, <3>2 DEF RefoundPrev
  <2> QED BY <2>2, <2>3
<1>6. TypeOK'
  BY <1>1, <1>4 DEF CallbackReturn, Clear, TypeOK, Ptr, clock
<1>7. PhaseInv'
  BY <1>1 DEF PhaseInv
<1>8. CursorOK'
  BY <1>1, <1>2, <1>4, <1>5 DEF CursorOK
<1>9. WalkInv'
  <2>1. cur # Null /\ RefoundPrev # Null => id[RefoundPrev] < id[cur]
    BY <1>4, <1>5 DEF ListShape
  <2> QED BY <1>1, <1>2, <1>4, <2>1 DEF WalkInv, CursorOK
<1> QED BY <1>3, <1>6, <1>7, <1>8, <1>9

LEMMA OtherSafeInv ==
  ASSUME TimerAssumption, SafeInv,
         \/ \E o \in Owner : StopAllBegin(o)
         \/ StopAllEnd
         \/ LoopBegin
         \/ Pass
         \/ LoopEnd
         \/ Tick
         \/ UNCHANGED vars
  PROVE  SafeInv'
<1> USE DEF SafeInv, ListInv
<1>0. Since \in Nat /\ ClockMod \in Nat \ {0}
  BY SinceType DEF TimerAssumption, TypeOK
<1>1. CASE \E o \in Owner : StopAllBegin(o)
  BY <1>1 DEF StopAllBegin, CallersTurn, TypeOK, Ptr, ListShape, PredExists, PhaseInv, CursorOK, WalkInv,
              Stoppable, list, clock, walk
<1>2. CASE StopAllEnd
  BY <1>2 DEF StopAllEnd, TypeOK, Ptr, ListShape, PredExists, PhaseInv, CursorOK, WalkInv, list, clock, walk
<1>3. CASE LoopBegin
  <2>1. first # Null => first \in live
    BY DEF ListShape
  <2> QED BY <1>0, <1>3, <2>1 DEF LoopBegin, TypeOK, Ptr, ListShape, PredExists, PhaseInv, CursorOK, WalkInv, list
<1>4. CASE Pass
  <2>1. /\ cur \in live /\ next[cur] # Null => next[cur] \in live /\ id[cur] < id[next[cur]]
        /\ remain' = [remain EXCEPT ![cur] = @ - delta] /\ remain[cur] > delta
    BY <1>4 DEF Pass, CursorOK, ListShape
  <2>2. cur \in Addr /\ remain[cur] - delta \in Nat
    BY <1>4, <2>1 DEF Pass, CursorOK, TypeOK
  <2>3. TypeOK'
    BY <1>4, <2>2 DEF Pass, TypeOK, Ptr, clock
  <2> QED BY <1>4, <2>1, <2>3 DEF Pass, ListShape, PredExists, PhaseInv, CursorOK, WalkInv
<1>5. CASE LoopEnd
  BY <1>5 DEF LoopEnd, TypeOK, Ptr, ListShape, PredExists, PhaseInv, CursorOK, WalkInv, list, clock
<1>6. CASE Tick
  <2>1. TypeOK'
    BY <1>0, <1>6 DEF Tick, Inc, TypeOK, Ptr, walk
  <2> QED BY <1>6, <2>1 DEF Tick, ListShape, PredExists, PhaseInv, CursorOK, WalkInv, Stoppable, walk
<1>7. CASE UNCHANGED vars
  BY <1>7 DEF vars, list, clock, walk, TypeOK, Ptr, ListShape, PredExists, PhaseInv, CursorOK, WalkInv, Stoppable
<1> QED BY <1>1, <1>2, <1>3, <1>4, <1>5, <1>6, <1>7

LEMMA NextSafeInv == TimerAssumption /\ ~StopsHeld /\ SafeInv /\ [Next]_vars => SafeInv'
<1> SUFFICES ASSUME TimerAssumption, ~StopsHeld, SafeInv, [Next]_vars
             PROVE  SafeInv'
  OBVIOUS
<1>1. ASSUME NEW a \in Addr, NEW o \in Owner, NEW d \in Durations, Start(a, o, d)
      PROVE  SafeInv'
  BY <1>1, StartSafeInv
<1>2. ASSUME NEW a \in Addr, Stop(a)
      PROVE  SafeInv'
  BY <1>2, RemoveSafeInv DEF Stop
<1>3. ASSUME NEW a \in Addr, StopAllStep(a)
      PROVE  SafeInv'
  BY <1>3, RemoveSafeInv DEF StopAllStep, SafeInv, WalkInv
<1> QED
  BY <1>1, <1>2, <1>3, ExpireSafeInv, ReturnSafeInv, OtherSafeInv DEF Next, Callers, Sweeping, Loop

-----------------------------------------------------------------------------
LEMMA SafeInvHolds ==
  ASSUME ~StopsHeld
  PROVE  Spec => []SafeInv
<1>1. Init => SafeInv
  BY InitSafeInv, TimerAssumption
<1>2. SafeInv /\ [Next]_vars => SafeInv'
  BY NextSafeInv, TimerAssumption
<1> QED BY <1>1, <1>2, PTL DEF Spec

\* Types: every variable keeps its type, for every number of timers.
THEOREM TypeCorrect ==
  ASSUME ~StopsHeld
  PROVE  Spec => []TypeOK
<1>1. SafeInv => TypeOK
  BY DEF SafeInv, ListInv
<1> QED BY <1>1, SafeInvHolds, PTL

\* The list is sorted, complete and free of duplicate ids in every state,
\* including in the middle of a walk and inside a callback.
THEOREM ListShapeHolds ==
  ASSUME ~StopsHeld
  PROVE  Spec => []ListShape
<1>1. SafeInv => ListShape
  BY DEF SafeInv, ListInv
<1> QED BY <1>1, SafeInvHolds, PTL

\* As long as no callback stops a node the walk points at, Loop never touches a
\* deleted node, whatever else the callbacks start and stop, and the node it
\* deletes after a callback is out of reach.
THEOREM CursorSafe ==
  ASSUME ~StopsHeld
  PROVE  Spec => [](CursorOK /\ FreedUnreachable)
<1>1. SafeInv => CursorOK /\ FreedUnreachable
  BY TimerAssumption DEF SafeInv, ListInv, ListShape, PhaseInv, CursorOK, FreedUnreachable, TypeOK, Ptr
<1> QED BY <1>1, SafeInvHolds, PTL

-----------------------------------------------------------------------------
(* Time.  A callback that starts at most one timer takes an id not above    *)
(* the one that has just expired, so the new node is behind the walk.       *)

\* What the walk of this frame will still subtract from node a.
Owed(a) == IF phase # "idle" /\ cur # Null /\ id[cur] <= id[a] THEN delta ELSE 0

\* remain never falls behind the requested duration: it covers what is left of
\* it, the ticks of this frame, and what the walk still owes the node.
TimeInv == \A a \in live : left[a] = 0 \/ left[a] + Since + Owed(a) <= remain[a]

\* The ids have a gap where node f had its id.
SlotOf(f) ==
  \/ first = Null
  \/ id[f] < id[first]
  \/ \E p \in live : id[p] < id[f] /\ (next[p] # Null => id[f] < id[next[p]])

\* The walk is past the expired node, and until its callback starts a timer,
\* the expired id is in a gap.
GapInv ==
  phase = "callback" => (cur # Null => id[freed] < id[cur]) /\ (starts = 0 => SlotOf(freed))

FullInv == SafeInv /\ TimeInv /\ GapInv

LEMMA SinceTick ==
  ASSUME TimerAssumption, TypeOK, Since < ClockMod - 1, now' = Inc(now), frameTS' = frameTS
  PROVE  Since' = Since + 1
  BY DEF TimerAssumption, TypeOK, Since, Minus, Inc

LEMMA StartFullInv ==
  ASSUME TimerAssumption, StartsPerCallback <= 1, FullInv, SafeInv',
         NEW a \in Addr, NEW o \in Owner, NEW d \in Durations, Start(a, o, d)
  PROVE  FullInv'
<1> USE DEF FullInv, SafeInv, ListInv
<1>0. d \in Nat /\ Since \in Nat /\ Since' = Since
  BY SinceType DEF TimerAssumption, TypeOK, Start, clock, Since
<1>1. /\ a \notin live /\ live' = live \cup {a}
      /\ \A b \in live : id'[b] = id[b] /\ left'[b] = left[b] /\ remain'[b] = remain[b]
      /\ remain'[a] = d /\ left'[a] = IF d > Since THEN d - Since ELSE 0
      /\ phase' = phase /\ cur' = cur /\ prev' = prev /\ delta' = delta /\ freed' = freed
      /\ phase \in {"idle", "callback"} /\ a # freed
      /\ \A b \in Addr \ {a} : id'[b] = id[b]
  BY DEF Start, StartFront, StartInGap, Fill, CallersTurn, TypeOK
<1>2. phase = "callback" => starts = 0 /\ starts' = 1
  BY DEF Start, TimerAssumption, TypeOK
<1>3. phase = "callback" /\ cur # Null => id'[a] <= id[freed]
  <2> SUFFICES ASSUME phase = "callback", cur # Null
               PROVE  id'[a] <= id[freed]
    OBVIOUS
  <2>0. freed \in Addr /\ id[freed] \in Nat /\ id[freed] > 0
    BY DEF PhaseInv, TypeOK
  <2>1. CASE StartFront(a, o, d)
    BY <2>0, <2>1 DEF StartFront, Fill, TypeOK
  <2>2. CASE StartInGap(a, o, d)
    <3>1. PICK g \in live : IsFirstGap(g) /\ Fill(a, o, d, id[g] + 1)
      BY <2>2 DEF StartInGap
    <3>2. id'[a] = id[g] + 1
      BY <3>1 DEF Fill, TypeOK
    <3>3. PICK p \in live : id[p] < id[freed] /\ (next[p] # Null => id[freed] < id[next[p]])
      BY <1>2, <2>0, <2>2 DEF GapInv, SlotOf, StartInGap
    <3>4. HasGap(p)
      BY <2>0, <3>3 DEF HasGap, TypeOK, ListShape
    <3> QED BY <2>0, <3>1, <3>2, <3>3, <3>4 DEF IsFirstGap, TypeOK
  <2> QED BY <2>1, <2>2 DEF Start
<1>4. GapInv'
  BY <1>1, <1>2 DEF GapInv, PhaseInv, CursorOK
<1>5. TimeInv'
  <2>1. ASSUME NEW b \in live PROVE left'[b] = 0 \/ left'[b] + Since' + Owed(b)' <= remain'[b]
    BY <1>0, <1>1 DEF TimeInv, Owed, CursorOK
  <2>2. left'[a] = 0 \/ left'[a] + Since' + Owed(a)' <= remain'[a]
    <3>1. Owed(a)' = 0
      BY <1>1, <1>3 DEF Owed, GapInv, CursorOK, PhaseInv, TypeOK
    <3> QED BY <1>0, <1>1, <3>1
  <2> QED BY <1>1, <2>1, <2>2 DEF TimeInv
<1> QED BY <1>4, <1>5

LEMMA RemoveFullInv ==
  ASSUME TimerAssumption, FullInv, SafeInv', NEW a \in live, a # cur, phase # "walk", Remove(a),
         UNCHANGED <<clock, walk, sweep>>
  PROVE  FullInv'
<1> USE DEF FullInv, SafeInv, ListInv
<1>1. /\ live' = live \ {a}
      /\ \A b \in Addr \ {a} : id'[b] = id[b] /\ left'[b] = left[b] /\ remain'[b] = remain[b]
      /\ phase' = phase /\ cur' = cur /\ delta' = delta /\ freed' = freed /\ starts' = starts /\ Since' = Since
  BY DEF Remove, Clear, walk, clock, TypeOK, Since
<1>2. TimeInv'
  BY <1>1 DEF TimeInv, Owed, CursorOK, TypeOK
<1>3. GapInv'
  <2> SUFFICES ASSUME phase = "callback"
               PROVE  GapInv'
    BY <1>1 DEF GapInv
  <2>1. freed # a /\ freed \in Addr /\ id'[freed] = id[freed] /\ id[freed] \in Nat /\ (cur # Null => cur \in live)
    BY <1>1 DEF PhaseInv, CursorOK, TypeOK
  <2>2. a # Null /\ \A b \in live : id[b] \in Nat /\ next[b] \in Ptr
    BY DEF TimerAssumption, TypeOK
  <2>3. cur # Null => id'[freed] < id'[cur]
    BY <1>1, <2>1 DEF GapInv, TypeOK
  <2>4. ASSUME first # Null /\ id[freed] < id[first]
        PROVE  SlotOf(freed)'
    <3>1. \A b \in live : id[freed] < id[b]
      BY <2>1, <2>2, <2>4 DEF ListShape
    <3>2. first' # Null => first' \in live /\ first' # a /\ first' \in Addr
      BY <1>1, <2>2 DEF ListShape, TypeOK
    <3> QED BY <1>1, <2>1, <3>1, <3>2 DEF SlotOf
  <2>5. ASSUME first # Null /\ starts = 0 /\ ~(id[freed] < id[first])
        PROVE  SlotOf(freed)'
    <3>1. PICK p \in live : id[p] < id[freed] /\ (next[p] # Null => id[freed] < id[next[p]])
      BY <2>5 DEF GapInv, SlotOf
    <3>2. CASE a = first
      <4>1. first' = next[a] /\ next' = [next EXCEPT ![a] = Null]
        BY <3>2 DEF Remove
      <4>2. CASE p = a
        <5>1. next[a] # Null => next[a] \in live /\ next[a] # a /\ id[freed] < id[next[a]]
          BY <2>2, <3>1, <4>2 DEF ListShape
        <5> QED BY <1>1, <2>1, <4>1, <5>1 DEF SlotOf, TypeOK
      <4>3. CASE p # a
        <5>1. p \in live' /\ id'[p] = id[p] /\ next'[p] = next[p] /\ next[p] # a
          BY <1>1, <2>2, <3>2, <4>1, <4>3 DEF TypeOK, ListShape
        <5> QED BY <1>1, <2>1, <2>2, <3>1, <5>1 DEF SlotOf, ListShape, TypeOK
      <4> QED BY <4>2, <4>3
    <3>3. CASE a # first
      <4>1. PICK q \in live : next[q] = a /\ next' = [next EXCEPT ![q] = next[a], ![a] = Null]
        BY <3>3 DEF Remove
      <4>2. id[q] < id[a] /\ q # a /\ (next[a] # Null => next[a] \in live /\ id[a] < id[next[a]])
        BY <2>2, <4>1 DEF ListShape
      <4>3. CASE p = a
        <5>1. q \in live' /\ id'[q] = id[q] /\ next'[q] = next[a]
          BY <1>1, <4>1, <4>2 DEF TypeOK
        <5>2. id'[q] < id'[freed]
          BY <2>1, <2>2, <3>1, <4>2, <4>3, <5>1
        <5>3. next'[q] # Null => id'[freed] < id'[next'[q]]
          <6>1. next[a] # Null => next[a] # a /\ next[a] \in Addr
            BY <2>2, <4>2 DEF TypeOK
          <6> QED BY <1>1, <2>1, <3>1, <4>2, <4>3, <5>1, <6>1
        <5> QED BY <1>1, <2>1, <5>1, <5>2, <5>3 DEF SlotOf
      <4>4. CASE p # a
        <5>1. p \in live' /\ id'[p] = id[p]
          BY <1>1, <4>4 DEF TypeOK
        <5>2. next'[p] # Null => id'[freed] < id'[next'[p]]
          <6>1. CASE p = q
            <7>1. next'[p] = next[a]
              BY <4>1, <4>4, <6>1 DEF TypeOK
            <7>2. id[freed] < id[a]
              BY <2>2, <3>1, <4>1, <6>1
            <7>3. next[a] # Null => next[a] \in Addr \ {a} /\ id[a] < id[next[a]]
              BY <2>2, <4>2 DEF TypeOK
            <7> QED BY <1>1, <2>1, <2>2, <7>1, <7>2, <7>3, <4>2
          <6>2. CASE p # q
            <7>1. next'[p] = next[p]
              BY <4>1, <4>4, <6>2 DEF TypeOK
            <7>2. next[p] # a
              <8> SUFFICES ASSUME next[p] = a PROVE FALSE
                OBVIOUS
              <8>1. /\ id[p] < id[a] /\ (id[q] <= id[p] \/ id[a] <= id[q])
                    /\ id[q] < id[a] /\ (id[p] <= id[q] \/ id[a] <= id[p])
                BY <2>2, <4>1 DEF ListShape
              <8> QED BY <2>2, <6>2, <8>1 DEF ListShape
            <7> QED BY <1>1, <2>1, <3>1, <7>1, <7>2 DEF TypeOK, Ptr
          <6> QED BY <6>1, <6>2
        <5> QED BY <1>1, <2>1, <3>1, <5>1, <5>2 DEF SlotOf
      <4> QED BY <4>3, <4>4
    <3> QED BY <3>2, <3>3
  <2>6. first # Null
    BY DEF ListShape
  <2>7. starts = 0 => SlotOf(freed)'
    BY <1>1, <2>4, <2>5, <2>6
  <2> QED BY <1>1, <2>3, <2>7 DEF GapInv
<1> QED BY <1>2, <1>3

LEMMA ExpireFullInv ==
  ASSUME TimerAssumption, FullInv, SafeInv', Expire
  PROVE  FullInv' /\ left[cur] = 0
<1> USE DEF FullInv, SafeInv, ListInv
<1>1. /\ cur \in live /\ cur # Null /\ live' = live \ {cur} /\ id' = id /\ left' = left /\ remain' = remain
      /\ phase = "walk" /\ phase' = "callback" /\ freed' = cur /\ cur' = next[cur] /\ delta' = delta
      /\ remain[cur] <= delta /\ Since' = Since
  BY DEF Expire, CursorOK, clock, Since
<1>2. \A b \in live : id[b] \in Nat /\ left[b] \in Nat /\ remain[b] \in Nat
  BY DEF TypeOK
<1>3. left[cur] = 0
  BY <1>1, <1>2, SinceType DEF TimeInv, Owed, TypeOK, TimerAssumption
<1>4. cur' # Null => cur' \in live' /\ id[cur] < id[cur']
  BY <1>1 DEF ListShape, TypeOK
<1>5. TimeInv'
  <2>1. ASSUME NEW b \in live \ {cur} PROVE left[b] = 0 \/ left[b] + Since + Owed(b)' <= remain[b]
    <3>1. delta \in Nat /\ Since \in Nat
      BY SinceType DEF TypeOK, TimerAssumption
    <3>2. Owed(b)' <= Owed(b) /\ Owed(b) \in Nat /\ Owed(b)' \in Nat
      BY <1>1, <1>2, <1>4, <3>1 DEF Owed
    <3>3. left[b] = 0 \/ left[b] + Since + Owed(b) <= remain[b]
      BY DEF TimeInv
    <3> QED BY <1>2, <3>1, <3>2, <3>3
  <2> QED BY <1>1, <2>1 DEF TimeInv
<1>6. SlotOf(freed)'
  <2>1. CASE cur = first
    <3>1. first' = next[cur]
      BY <2>1 DEF Expire
    <3> QED BY <1>1, <1>4, <3>1 DEF SlotOf
  <2>2. CASE cur # first
    <3>1. /\ prev # Null /\ prev \in live /\ next[prev] = cur
          /\ next' = [next EXCEPT ![prev] = next[cur]]
      BY <1>1, <2>2 DEF Expire, CursorOK
    <3>2. prev \in live' /\ id[prev] < id[cur] /\ next'[prev] = next[cur]
      BY <1>1, <1>2, <3>1 DEF WalkInv, TypeOK
    <3> QED BY <1>1, <1>4, <3>2 DEF SlotOf
  <2> QED BY <2>1, <2>2
<1>7. GapInv'
  BY <1>1, <1>4, <1>6 DEF GapInv
<1> QED BY <1>3, <1>5, <1>7

LEMMA ReturnFullInv ==
  ASSUME TimerAssumption, FullInv, SafeInv', CallbackReturn
  PROVE  FullInv'
<1> USE DEF FullInv, SafeInv, ListInv
<1>1. /\ live' = live /\ cur' = cur /\ delta' = delta /\ Since' = Since
      /\ phase = "callback" /\ phase' = "walk"
      /\ \A b \in live : id'[b] = id[b] /\ left'[b] = left[b] /\ remain'[b] = remain[b]
  BY DEF CallbackReturn, Clear, PhaseInv, TypeOK, clock, Since
<1>2. TimeInv'
  BY <1>1 DEF TimeInv, Owed, CursorOK
<1> QED BY <1>1, <1>2 DEF GapInv

LEMMA OtherFullInv ==
  ASSUME TimerAssumption, FullInv, SafeInv',
         \/ \E o \in Owner : StopAllBegin(o)
         \/ StopAllEnd
         \/ LoopBegin
         \/ Pass
         \/ LoopEnd
         \/ Tick
         \/ UNCHANGED vars
  PROVE  FullInv'
<1> USE DEF FullInv, SafeInv, ListInv
<1>0. /\ Since \in Nat /\ delta \in Nat
      /\ \A b \in live : id[b] \in Nat /\ left[b] \in Nat /\ remain[b] \in Nat
  BY SinceType DEF TimerAssumption, TypeOK
<1>1. CASE (\E o \in Owner : StopAllBegin(o)) \/ StopAllEnd
  BY <1>1 DEF StopAllBegin, StopAllEnd, list, clock, walk, TimeInv, Owed, GapInv, SlotOf, Since
<1>2. CASE LoopBegin
  <2>1. live' = live /\ id' = id /\ left' = left /\ remain' = remain /\ cur' = first /\ phase' = "walk" /\ delta' = Since
    BY <1>2 DEF LoopBegin, list
  <2>2. Since' = 0 /\ \A b \in live : Owed(b) = 0
    BY <1>2 DEF LoopBegin, Since, Minus, Owed, TypeOK
  <2> QED BY <1>0, <2>1, <2>2 DEF TimeInv, GapInv, Owed
<1>3. CASE Pass
  <2>1. /\ live' = live /\ id' = id /\ left' = left /\ remain' = [remain EXCEPT ![cur] = @ - delta]
        /\ cur' = next[cur] /\ phase' = phase /\ phase = "walk" /\ delta' = delta /\ Since' = Since
        /\ cur # Null /\ cur \in live
    BY <1>3 DEF Pass, clock, Since, CursorOK
  <2>2. remain'[cur] = remain[cur] - delta /\ \A b \in live : b # cur => remain'[b] = remain[b]
    BY <2>1 DEF TypeOK
  <2>3. IF cur' = Null
        THEN \A b \in live : id[b] <= id[cur]
        ELSE cur' \in live /\ id[cur] < id[cur'] /\ \A b \in live : id[b] <= id[cur] \/ id[cur'] <= id[b]
    BY <2>1 DEF ListShape
  <2>4. ASSUME NEW b \in live PROVE left[b] = 0 \/ left[b] + Since + Owed(b)' <= remain'[b]
    <3>1. CASE b = cur
      <4>1. Owed(b) = delta
        BY <1>0, <2>1, <3>1 DEF Owed
      <4>2. Owed(b)' = 0
        BY <1>0, <2>1, <2>3, <3>1 DEF Owed
      <4> QED BY <1>0, <2>2, <3>1, <4>1, <4>2 DEF TimeInv
    <3>2. CASE b # cur
      <4>1. id[b] # id[cur]
        BY <2>1, <3>2 DEF ListShape
      <4>2. Owed(b)' = Owed(b)
        BY <1>0, <2>1, <2>3, <4>1 DEF Owed
      <4> QED BY <1>0, <2>2, <3>2, <4>2 DEF TimeInv
    <3> QED BY <3>1, <3>2
  <2> QED BY <2>1, <2>4 DEF TimeInv, GapInv
<1>4. CASE LoopEnd
  BY <1>4 DEF LoopEnd, list, clock, TimeInv, Owed, GapInv, Since
<1>5. CASE Tick
  <2>1. Since' = Since + 1
    BY <1>5, SinceTick DEF Tick
  <2>2. /\ live' = live /\ id' = id /\ remain' = remain /\ UNCHANGED <<phase, cur, delta, freed, starts, first, next>>
        /\ \A b \in live : left'[b] = IF left[b] > 0 THEN left[b] - 1 ELSE 0
    BY <1>5 DEF Tick, walk, TypeOK
  <2> QED BY <1>0, <2>1, <2>2 DEF TimeInv, Owed, GapInv, SlotOf
<1>6. CASE UNCHANGED vars
  BY <1>6 DEF vars, list, clock, walk, TimeInv, Owed, GapInv, SlotOf, Since
<1> QED BY <1>1, <1>2, <1>3, <1>4, <1>5, <1>6

LEMMA NextFullInv ==
  ASSUME TimerAssumption, ~StopsHeld, StartsPerCallback <= 1, FullInv, [Next]_vars
  PROVE  FullInv' /\ (phase = "walk" /\ phase' = "callback" => left[cur] = 0)
<1>1. SafeInv'
  BY NextSafeInv DEF FullInv
<1>2. ASSUME NEW a \in Addr, NEW o \in Owner, NEW d \in Durations, Start(a, o, d)
      PROVE  FullInv' /\ phase' = phase
  BY <1>1, <1>2, StartFullInv DEF Start
<1>3. ASSUME NEW a \in Addr, Stop(a) \/ StopAllStep(a)
      PROVE  FullInv' /\ phase' = phase
  <2>1. a \in live /\ phase # "walk" /\ Stoppable(a) /\ Remove(a) /\ UNCHANGED <<clock, walk, sweep>>
    BY <1>3 DEF Stop, StopAllStep, CallersTurn, FullInv, SafeInv, WalkInv
  <2>2. a # cur
    BY <2>1 DEF Stoppable, FullInv, SafeInv, ListInv, PhaseInv, TypeOK, TimerAssumption
  <2> QED BY <1>1, <2>1, <2>2, RemoveFullInv DEF walk
<1>4. ASSUME \/ \E o \in Owner : StopAllBegin(o)
             \/ StopAllEnd \/ LoopBegin \/ Pass \/ LoopEnd \/ Tick \/ UNCHANGED vars
      PROVE  FullInv' /\ (phase = "walk" => phase' # "callback")
  <2>1. phase = "walk" => phase' # "callback"
    BY <1>4 DEF StopAllBegin, StopAllEnd, LoopBegin, Pass, LoopEnd, Tick, vars, walk
  <2> QED BY <1>1, <1>4, <2>1, OtherFullInv
<1>5. CASE Expire
  BY <1>1, <1>5, ExpireFullInv
<1>6. CASE CallbackReturn
  BY <1>1, <1>6, ReturnFullInv DEF CallbackReturn
<1> QED BY <1>2, <1>3, <1>4, <1>5, <1>6 DEF Next, Callers, Sweeping, Loop

\* As long as a completion callback starts at most one timer and stops no node
\* the walk points at, no timer completes early, for any number of timers, any
\* interleaving of callers and ticks, and across wraps of micros().
THEOREM NeverEarlyHolds ==
  ASSUME ~StopsHeld, StartsPerCallback <= 1
  PROVE  Spec => NeverEarly
<1>1. Init => FullInv
  BY InitSafeInv, TimerAssumption DEF FullInv, TimeInv, GapInv, Init
<1>2. FullInv /\ [Next]_vars => FullInv'
  BY NextFullInv, TimerAssumption
<1>3. FullInv /\ [Next]_vars => [phase = "walk" /\ phase' = "callback" => left[cur] = 0]_vars
  BY NextFullInv, TimerAssumption
<1> QED BY <1>1, <1>2, <1>3, PTL DEF Spec, NeverEarly

-----------------------------------------------------------------------------
(* The service.  Each step of the list is a step of TimerService, or none. *)

\* Numbers have a smallest.
LEMMA SmallestOf ==
  ASSUME NEW T \in SUBSET Nat, T # {}
  PROVE  \E x \in T : \A y \in T : x <= y
<1> DEFINE R == OpToRel(<, Nat)
<1>1. IsWellFoundedOn(R, Nat)
  BY NatLessThanWellFounded, Zenon
<1>2. \A x, y \in Nat : <<y, x>> \in R <=> y < x
  BY DEF OpToRel
<1> HIDE DEF R
<1>3. PICK x \in T : \A y \in T : ~(<<y, x>> \in R)
  BY <1>1, WFMin
<1>4. ASSUME NEW y \in T PROVE x <= y
  <2>1. x \in Nat /\ y \in Nat /\ ~(y < x)
    BY <1>2, <1>3
  <2> QED BY <2>1
<1> QED BY <1>4

\* Up to the first gap every id is in use: the one below the smallest free id has
\* no gap behind it, so its node's pNext has that id.
LEMMA NoneFreeBefore ==
  ASSUME TimerAssumption, ListInv, first # Null, id[first] = 1, NEW g \in live, IsFirstGap(g)
  PROVE  \A j \in 1 .. id[g] : \E b \in live : id[b] = j
<1> USE DEF ListInv, TypeOK
<1>0. \A b \in live : id[b] \in Nat
  OBVIOUS
<1> DEFINE T == {j \in 1 .. id[g] : \A b \in live : id[b] # j}
<1> SUFFICES ASSUME T # {} PROVE FALSE
  BY <1>0
<1>1. T \in SUBSET Nat
  BY <1>0
<1>2. \E j \in T : \A k \in T : j <= k
  <2> HIDE DEF T
  <2> QED BY <1>1, SmallestOf
<1>3. PICK j \in T : \A k \in T : j <= k
  BY <1>2
<1>4. j \in 1 .. id[g] /\ j # id[g] /\ j # 1 /\ j \in Nat
  BY <1>0, <1>3 DEF ListShape
<1>5. j - 1 \notin T /\ j - 1 \in 1 .. id[g]
  BY <1>0, <1>1, <1>3, <1>4
<1>6. PICK b \in live : id[b] = j - 1
  BY <1>5
<1>7. ~HasGap(b)
  BY <1>0, <1>4, <1>6 DEF IsFirstGap
<1>8. next[b] \in live /\ id[b] < id[next[b]] /\ ~(id[next[b]] - id[b] > 1)
  BY <1>7 DEF HasGap, ListShape
<1>9. id[next[b]] = j
  BY <1>0, <1>4, <1>6, <1>8
<1> QED BY <1>3, <1>8, <1>9

\* The timer a node stands for.
TimerAt(a) == [id |-> id[a], owner |-> owner[a], left |-> left[a]]

LEMMA RunningIs == RunningTimers = {TimerAt(a) : a \in live}
BY DEF RunningTimers, TimerAt

LEMMA StartServes ==
  ASSUME TimerAssumption, ListInv, NEW a \in Addr, NEW o \in Owner, NEW d \in Durations, Start(a, o, d)
  PROVE  \E t \in RunningTimers' : Service!Start(t)
<1> USE DEF ListInv, TypeOK
<1>0. d \in Nat /\ Since \in Nat
  BY SinceType DEF TimerAssumption
<1>1. PICK i \in Nat : /\ Fill(a, o, d, i) /\ i > 0
                       /\ \A b \in live : id[b] # i
                       /\ \A j \in 1 .. i - 1 : \E b \in live : id[b] = j
  <2>1. CASE StartFront(a, o, d)
    <3>1. \A b \in live : id[b] # 1
      BY <2>1 DEF StartFront, ListShape
    <3> QED BY <2>1, <3>1 DEF StartFront
  <2>2. CASE StartInGap(a, o, d)
    <3>1. PICK g \in live : IsFirstGap(g) /\ Fill(a, o, d, id[g] + 1)
      BY <2>2 DEF StartInGap
    <3>2. \A b \in live : id[b] # id[g] + 1
      BY <3>1 DEF IsFirstGap, HasGap, ListShape
    <3>3. \A j \in 1 .. id[g] : \E b \in live : id[b] = j
      BY <2>2, <3>1, NoneFreeBefore DEF StartInGap
    <3> QED BY <3>1, <3>2, <3>3
  <2> QED BY <2>1, <2>2 DEF Start
<1>2. /\ a \notin live /\ a # freed /\ live' = live \cup {a} /\ phase' = phase /\ freed' = freed
      /\ \A b \in Addr \ {a} : id'[b] = id[b] /\ owner'[b] = owner[b] /\ left'[b] = left[b]
      /\ id'[a] = i /\ owner'[a] = o /\ left'[a] = IF d > Since THEN d - Since ELSE 0
  BY <1>1 DEF Start, Fill
<1> DEFINE t == TimerAt(a)'
<1>3. t.id = i /\ t.owner = o /\ t.left \in Nat
  BY <1>0, <1>2 DEF TimerAt
<1>4. \A b \in live : TimerAt(b)' = TimerAt(b)
  BY <1>2 DEF TimerAt
<1>5. RunningTimers' = {TimerAt(b)' : b \in live'}
  BY DEF RunningTimers, TimerAt
<1> HIDE DEF t
<1>6. RunningTimers' = RunningTimers \cup {t}
  BY <1>2, <1>4, <1>5, RunningIs DEF t
<1>7. \A r \in RunningTimers : r.id # t.id
  BY <1>1, <1>3 DEF RunningTimers
<1>8. ASSUME NEW j \in 1 .. t.id - 1 PROVE \E r \in RunningTimers : r.id = j
  <2>1. PICK b \in live : id[b] = j
    BY <1>1, <1>3, <1>8
  <2>2. TimerAt(b) \in RunningTimers /\ TimerAt(b).id = j
    BY <2>1, RunningIs DEF TimerAt
  <2> QED BY <2>2
<1>9. Completing' = Completing
  BY <1>2 DEF Completing, PhaseInv
<1>10. Service!Start(t)
  BY <1>1, <1>3, <1>6, <1>7, <1>8, <1>9 DEF Service!Start
<1> QED BY <1>6, <1>10

\* Ids tell the running timers apart.
LEMMA OneLeaves ==
  ASSUME ListInv, NEW a \in live, live' = live \ {a},
         \A b \in live \ {a} : id'[b] = id[b] /\ owner'[b] = owner[b] /\ left'[b] = left[b]
  PROVE  TimerAt(a) \in RunningTimers /\ RunningTimers' = RunningTimers \ {TimerAt(a)}
<1>1. \A b \in live \ {a} : TimerAt(b)' = TimerAt(b) /\ TimerAt(b) # TimerAt(a)
  BY DEF TimerAt, ListInv, ListShape
<1>2. RunningTimers' = {TimerAt(b)' : b \in live'}
  BY DEF RunningTimers, TimerAt
<1> QED BY <1>1, <1>2, RunningIs

LEMMA RemoveServes ==
  ASSUME ListInv, NEW a \in live, Remove(a), UNCHANGED walk
  PROVE  \E r \in RunningTimers : Service!Stop(r)
<1>1. /\ live' = live \ {a} /\ phase' = phase /\ freed' = freed
      /\ \A b \in Addr \ {a} : id'[b] = id[b] /\ owner'[b] = owner[b] /\ left'[b] = left[b]
  BY DEF Remove, Clear, walk, ListInv, TypeOK
<1>2. TimerAt(a) \in RunningTimers /\ RunningTimers' = RunningTimers \ {TimerAt(a)}
  BY <1>1, OneLeaves DEF ListInv, TypeOK
<1>3. Completing' = Completing
  BY <1>1 DEF Completing, ListInv, PhaseInv
<1> QED BY <1>2, <1>3 DEF Service!Stop

LEMMA ExpireServes ==
  ASSUME ListInv, CursorOK, Expire, left[cur] = 0
  PROVE  \E r \in RunningTimers : Service!Complete(r)
<1>1. /\ cur \in live /\ live' = live \ {cur} /\ freed' = cur /\ phase = "walk" /\ phase' = "callback"
      /\ id' = id /\ owner' = owner /\ left' = left
  BY DEF Expire, CursorOK
<1>2. TimerAt(cur) \in RunningTimers /\ RunningTimers' = RunningTimers \ {TimerAt(cur)}
  BY <1>1, OneLeaves
<1>3. Completing = Service!NoCall
  BY <1>1 DEF Completing, Service!NoCall
<1>4. Completing' = [id |-> id[cur], owner |-> owner[cur]]
  BY <1>1 DEF Completing
<1>5. TimerAt(cur).id = id[cur] /\ TimerAt(cur).owner = owner[cur] /\ TimerAt(cur).left = 0
  BY DEF TimerAt
<1> QED BY <1>2, <1>3, <1>4, <1>5 DEF Service!Complete

\* Steps that change no timer.
LEMMA SameTimers ==
  ASSUME live' = live,
         \A b \in live : id'[b] = id[b] /\ owner'[b] = owner[b] /\ left'[b] = left[b]
  PROVE  RunningTimers' = RunningTimers
<1>1. \A b \in live : TimerAt(b)' = TimerAt(b)
  BY DEF TimerAt
<1>2. RunningTimers' = {TimerAt(b)' : b \in live'}
  BY DEF RunningTimers, TimerAt
<1> QED BY <1>1, <1>2, RunningIs

LEMMA ReturnServes ==
  ASSUME ListInv, CallbackReturn
  PROVE  Service!Return
<1>1. /\ live' = live /\ phase = "callback" /\ phase' = "walk"
      /\ \A b \in live : id'[b] = id[b] /\ owner'[b] = owner[b] /\ left'[b] = left[b]
  BY DEF CallbackReturn, Clear, ListInv, PhaseInv, TypeOK
<1>2. RunningTimers' = RunningTimers
  BY <1>1, SameTimers
<1>3. Completing # Service!NoCall
  <2>1. Completing.id = id[freed] /\ id[freed] > 0 /\ id[freed] \in Nat
    BY <1>1 DEF Completing, ListInv, PhaseInv, TypeOK
  <2>2. Service!NoCall.id = 0
    BY DEF Service!NoCall
  <2> QED BY <2>1, <2>2
<1>4. Completing' = Service!NoCall
  BY <1>1 DEF Completing, Service!NoCall
<1> QED BY <1>2, <1>3, <1>4 DEF Service!Return

LEMMA TickServes ==
  ASSUME ListInv, Tick
  PROVE  Service!Tick
<1>1. /\ live' = live /\ id' = id /\ owner' = owner /\ phase' = phase /\ freed' = freed
      /\ \A b \in live : left'[b] = IF left[b] > 0 THEN left[b] - 1 ELSE 0
  BY DEF Tick, walk, ListInv, TypeOK
<1> DEFINE Later(r) == [r EXCEPT !.left = IF @ > 0 THEN @ - 1 ELSE 0]
<1>2. \A b \in live : TimerAt(b)' = Later(TimerAt(b))
  BY <1>1 DEF TimerAt
<1>3. RunningTimers' = {TimerAt(b)' : b \in live'}
  BY DEF RunningTimers, TimerAt
<1> HIDE DEF Later
<1>4. RunningTimers' = {Later(r) : r \in RunningTimers}
  BY <1>1, <1>2, <1>3, RunningIs
<1>5. Completing' = Completing
  BY <1>1 DEF Completing
<1> QED BY <1>4, <1>5 DEF Service!Tick, Later

LEMMA NextServes ==
  ASSUME TimerAssumption, ~StopsHeld, StartsPerCallback <= 1, FullInv, [Next]_vars
  PROVE  [Service!Next]_(Service!svars)
<1>0. ListInv /\ CursorOK
  BY DEF FullInv, SafeInv
<1>1. ASSUME NEW a \in Addr, NEW o \in Owner, NEW d \in Durations, Start(a, o, d)
      PROVE  Service!Next
  BY <1>0, <1>1, StartServes DEF Service!Next
<1>2. ASSUME NEW a \in Addr, Stop(a) \/ StopAllStep(a)
      PROVE  Service!Next
  <2>1. a \in live /\ Remove(a) /\ UNCHANGED walk
    BY <1>2 DEF Stop, StopAllStep
  <2> QED BY <1>0, <2>1, RemoveServes DEF Service!Next
<1>3. CASE Expire
  <2>1. left[cur] = 0
    BY <1>3, NextFullInv DEF Expire
  <2> QED BY <1>0, <1>3, <2>1, ExpireServes DEF Service!Next
<1>4. CASE CallbackReturn
  BY <1>0, <1>4, ReturnServes DEF Service!Next
<1>5. CASE Tick
  BY <1>0, <1>5, TickServes DEF Service!Next
<1>6. ASSUME \/ \E o \in Owner : StopAllBegin(o)
             \/ StopAllEnd \/ LoopBegin \/ Pass \/ LoopEnd \/ UNCHANGED vars
      PROVE  UNCHANGED Service!svars
  <2>1. /\ live' = live /\ id' = id /\ owner' = owner /\ left' = left /\ freed' = freed
        /\ phase = "callback" <=> phase' = "callback"
    BY <1>6 DEF StopAllBegin, StopAllEnd, LoopBegin, Pass, LoopEnd, vars, list, walk
  <2>2. RunningTimers' = RunningTimers
    BY <2>1, SameTimers
  <2>3. Completing' = Completing
    BY <2>1 DEF Completing
  <2> QED BY <2>2, <2>3 DEF Service!svars
<1> QED BY <1>1, <1>2, <1>3, <1>4, <1>5, <1>6 DEF Next, Callers, Sweeping, Loop

\* The pointer walk keeps the promise of the service, for any number of timers and
\* callers, across wraps of micros(), under the rules NeverEarlyHolds needs: the
\* smallest free ids, one callback per timer, to its caller, when it is over and
\* never after it was stopped (Timer.cpp Start, Stop, StopAll, Loop).
THEOREM ListServes ==
  ASSUME ~StopsHeld, StartsPerCallback <= 1
  PROVE  Spec => ServiceSpec
<1>1. Init => FullInv
  BY InitSafeInv, TimerAssumption DEF FullInv, TimeInv, GapInv, Init
<1>2. FullInv /\ [Next]_vars => FullInv'
  BY NextFullInv, TimerAssumption
<1>3. Init => Service!Init
  BY DEF Init, Service!Init, Service!NoCall, RunningTimers, Completing
<1>4. FullInv /\ [Next]_vars => [Service!Next]_(Service!svars)
  BY NextServes, TimerAssumption
<1> QED BY <1>1, <1>2, <1>3, <1>4, PTL DEF Spec, ServiceSpec, Service!Spec

=============================================================================
