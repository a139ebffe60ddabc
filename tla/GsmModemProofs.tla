---------------------------- MODULE GsmModemProofs ----------------------------
(***************************************************************************)
(* The timers of the modem's engine are known by id alone.  The ids it     *)
(* holds are those of its timers, and half a line has one, for any number  *)
(* of commands, timers of others, lines and calls of StartModem.           *)
(***************************************************************************)
EXTENDS GsmModem, FiniteSetTheorems, WellFoundedInduction, TLAPS

-----------------------------------------------------------------------------
(* The smallest free id                                                    *)

\* Numbers have a smallest.
LEMMA SmallestOf ==
  ASSUME NEW T \in SUBSET Nat, T # {}
  PROVE  \E x \in T : \A y \in T : x <= y
<1> DEFINE R == OpToRel(<, Nat)
<1>1. IsWellFoundedOn(R, Nat)
  BY NatLessThanWellFounded, Zenon
<1>2. \A x, y \in Nat : <<y, x>> \in R <=> y < x
  BY DEF OpToRel
<1> HIDE DEF R
<1>3. PICK x \in T : \A y \in T : ~(<<y, x>> \in R)
  BY <1>1, WFMin
<1>4. ASSUME NEW y \in T PROVE x <= y
  <2>1. x \in Nat /\ y \in Nat /\ ~(y < x)
    BY <1>2, <1>3
  <2> QED
    BY <2>1
<1> QED
  BY <1>4

\* The values of timers.
Timers ==
  [running : [TimerId -> {"free", "gsm", "other"}], connection : 0 .. MaxTimer,
   event : 0 .. MaxTimer, response : 0 .. MaxTimer, harmed : BOOLEAN]

\* The ids of the engine, those of others, and those the three fields hold.
Gsm(t) == {i \in TimerId : t.running[i] = "gsm"}
Others(t) == {i \in TimerId : t.running[i] = "other"}
HeldBy(t) == {t.connection, t.event, t.response} \ {0}

\* Each timer of the engine is held in a field, and others keep to their bound.
Sound(t) == t \in Timers /\ Gsm(t) \subseteq HeldBy(t) /\ Cardinality(Others(t)) <= MaxOther

\* Each field holds a timer, and no two the same; no timer of another was stopped.
Right(t) ==
  /\ HeldBy(t) \subseteq Gsm(t) /\ t.harmed = FALSE
  /\ t.connection # 0 => t.connection # t.event /\ t.connection # t.response
  /\ t.event # 0 => t.event # t.response

\* What the engine owns at once, and how much of it, at most.
LEMMA OwnsFew ==
  ASSUME NEW t, Sound(t)
  PROVE  /\ IsFiniteSet(Gsm(t)) /\ Cardinality(Gsm(t)) \in 0 .. 3
         /\ IsFiniteSet(Others(t)) /\ Cardinality(Others(t)) \in 0 .. MaxOther
         /\ \A a, b : Gsm(t) \subseteq {a, b} => Cardinality(Gsm(t)) <= 2
<1>0. MaxTimer \in Nat /\ MaxOther \in Nat
  BY ModemAssumption
<1>1. ASSUME NEW a, NEW b PROVE IsFiniteSet({a, b}) /\ Cardinality({a, b}) \in 0 .. 2
  <2>1. IsFiniteSet({a}) /\ Cardinality({a}) = 1
    BY FS_Singleton
  <2>2. {a, b} = {a} \cup {b}
    OBVIOUS
  <2> QED
    BY <2>1, <2>2, FS_AddElement
<1>2. /\ IsFiniteSet({t.connection, t.event, t.response})
      /\ Cardinality({t.connection, t.event, t.response}) \in 0 .. 3
  <2> DEFINE P == {t.connection, t.event}
  <2>1. {t.connection, t.event, t.response} = P \cup {t.response}
    OBVIOUS
  <2>2. IsFiniteSet(P) /\ Cardinality(P) \in 0 .. 2
    BY <1>1
  <2> HIDE DEF P
  <2>3. /\ IsFiniteSet(P \cup {t.response})
        /\ Cardinality(P \cup {t.response}) \in {Cardinality(P), Cardinality(P) + 1}
    BY <2>2, FS_AddElement
  <2> QED
    BY <2>1, <2>2, <2>3
<1>3. Gsm(t) \subseteq {t.connection, t.event, t.response}
  BY DEF Sound, HeldBy
<1>4. /\ IsFiniteSet(Gsm(t))
      /\ Cardinality(Gsm(t)) <= Cardinality({t.connection, t.event, t.response})
  BY <1>2, <1>3, FS_Subset
<1>5. Cardinality(Gsm(t)) \in Nat
  BY <1>4, FS_CardinalityType
<1>6. ASSUME NEW a, NEW b, Gsm(t) \subseteq {a, b} PROVE Cardinality(Gsm(t)) <= 2
  <2>1. Cardinality(Gsm(t)) <= Cardinality({a, b})
    BY <1>1, <1>6, FS_Subset
  <2>2. Cardinality({a, b}) \in 0 .. 2
    BY <1>1
  <2> QED
    BY <1>5, <2>1, <2>2
<1>7. IsFiniteSet(TimerId) /\ Others(t) \subseteq TimerId
  BY <1>0, FS_Interval DEF TimerId, Others
<1>8. IsFiniteSet(Others(t)) /\ Cardinality(Others(t)) \in Nat
  BY <1>7, FS_Subset, FS_CardinalityType
<1> QED
  BY <1>0, <1>2, <1>4, <1>5, <1>6, <1>8 DEF Sound

\* Timers that are fewer than the ids leave one free.
LEMMA FewLeaveOne ==
  ASSUME NEW t, Sound(t), Cardinality(Gsm(t)) + Cardinality(Others(t)) < MaxTimer
  PROVE  FreeId(t) \in TimerId /\ t.running[FreeId(t)] = "free"
<1>0. MaxTimer \in Nat
  BY ModemAssumption
<1>1. Cardinality(TimerId) = MaxTimer
  BY <1>0, FS_Interval DEF TimerId
<1>2. /\ IsFiniteSet(Gsm(t)) /\ Cardinality(Gsm(t)) \in Nat
      /\ IsFiniteSet(Others(t)) /\ Cardinality(Others(t)) \in Nat
  BY OwnsFew, ModemAssumption
<1> DEFINE F == {i \in TimerId : t.running[i] = "free"}
<1>3. F # {}
  <2>1. SUFFICES ASSUME F = {} PROVE FALSE
    OBVIOUS
  <2>2. TimerId = Gsm(t) \cup Others(t)
    BY <2>1 DEF Gsm, Others, Sound, Timers
  <2>3. /\ Cardinality(Gsm(t) \cup Others(t)) =
             Cardinality(Gsm(t)) + Cardinality(Others(t)) - Cardinality(Gsm(t) \cap Others(t))
        /\ IsFiniteSet(Gsm(t) \cap Others(t))
    BY <1>2, FS_Union, FS_Intersection
  <2>4. Cardinality(Gsm(t) \cap Others(t)) \in Nat
    BY <2>3, FS_CardinalityType
  <2> QED
    BY <1>0, <1>1, <1>2, <2>2, <2>3, <2>4
<1>4. \E i \in F : \A j \in F : i <= j
  <2>1. F \in SUBSET Nat
    BY <1>0 DEF TimerId
  <2> HIDE DEF F
  <2> QED
    BY <1>3, <2>1, SmallestOf
<1>5. \E i \in TimerId : t.running[i] = "free" /\ \A j \in TimerId : t.running[j] = "free" => i <= j
  BY <1>4
<1>6. FreeId(t) = CHOOSE i \in TimerId :
                    t.running[i] = "free" /\ \A j \in TimerId : t.running[j] = "free" => i <= j
  BY DEF FreeId
<1> QED
  BY <1>5, <1>6

\* Two timers and the others' do not take all ids.
LEMMA TwoLeaveOne ==
  ASSUME NEW t, Sound(t), NEW a, NEW b, Gsm(t) \subseteq {a, b}
  PROVE  FreeId(t) \in TimerId /\ t.running[FreeId(t)] = "free"
<1>1. Cardinality(Gsm(t)) \in Nat /\ Cardinality(Gsm(t)) <= 2 /\ Cardinality(Others(t)) \in 0 .. MaxOther
  BY OwnsFew
<1>2. Cardinality(Gsm(t)) + Cardinality(Others(t)) < MaxTimer
  BY <1>1, ModemAssumption
<1> QED
  BY <1>2, FewLeaveOne

-----------------------------------------------------------------------------
(* Stopping and starting                                                   *)

\* Stop, by id.
LEMMA StopIs ==
  ASSUME NEW t \in Timers, NEW i \in 1 .. MaxTimer
  PROVE  \/ t.running[i] = "free" /\ StopId(t, i) = t
         \/ t.running[i] = "gsm" /\ StopId(t, i) = Forget([t EXCEPT !.running[i] = "free"], i)
         \/ t.running[i] = "other" /\ StopId(t, i) = [t EXCEPT !.running[i] = "free", !.harmed = TRUE]
<1>1. t.running[i] \in {"free", "gsm", "other"} /\ i # 0
  BY ModemAssumption DEF Timers, TimerId
<1>2. CASE t.running[i] = "free"
  BY <1>1, <1>2 DEF StopId
<1>3. CASE t.running[i] = "gsm"
  BY <1>1, <1>3 DEF StopId
<1>4. CASE t.running[i] = "other"
  BY <1>1, <1>4 DEF StopId
<1> QED
  BY <1>1, <1>2, <1>3, <1>4

\* OnTimerStop: the first field that holds the id.
LEMMA ForgetIs ==
  ASSUME NEW u \in Timers, NEW i \in 1 .. MaxTimer
  PROVE  /\ Forget(u, i) \in Timers /\ Forget(u, i).running = u.running /\ Forget(u, i).harmed = u.harmed
         /\ \/ /\ u.connection = i /\ Forget(u, i).connection = 0
               /\ Forget(u, i).event = u.event /\ Forget(u, i).response = u.response
            \/ /\ u.connection # i /\ u.event = i /\ Forget(u, i).event = 0
               /\ Forget(u, i).connection = u.connection /\ Forget(u, i).response = u.response
            \/ /\ u.connection # i /\ u.event # i /\ u.response = i /\ Forget(u, i).response = 0
               /\ Forget(u, i).connection = u.connection /\ Forget(u, i).event = u.event
            \/ /\ u.connection # i /\ u.event # i /\ u.response # i
               /\ Forget(u, i) = u
<1>0. 0 \in 0 .. MaxTimer
  BY ModemAssumption
<1>1. CASE u.connection = i
  BY <1>0, <1>1 DEF Forget, Timers
<1>2. CASE u.connection # i /\ u.event = i
  BY <1>0, <1>2 DEF Forget, Timers
<1>3. CASE u.connection # i /\ u.event # i /\ u.response = i
  BY <1>0, <1>3 DEF Forget, Timers
<1>4. CASE u.connection # i /\ u.event # i /\ u.response # i
  BY <1>4 DEF Forget
<1> QED
  BY <1>1, <1>2, <1>3, <1>4

\* A timer that is stopped is of nobody, and no field holds it if the fields were right.
LEMMA StopKeeps ==
  ASSUME NEW t, Sound(t), NEW i \in 0 .. MaxTimer
  PROVE  /\ Sound(StopId(t, i)) /\ i \notin Gsm(StopId(t, i))
         /\ StopId(t, i).connection \in {0, t.connection} /\ StopId(t, i).event \in {0, t.event}
         /\ StopId(t, i).response \in {0, t.response}
         /\ Right(t) /\ i \in HeldBy(t) \cup {0} => Right(StopId(t, i)) /\ i \notin HeldBy(StopId(t, i))
<1>0. /\ MaxTimer \in Nat /\ t \in Timers /\ Gsm(t) \subseteq HeldBy(t)
      /\ IsFiniteSet(Others(t)) /\ Cardinality(Others(t)) <= MaxOther
  <2>1. IsFiniteSet(TimerId)
    BY ModemAssumption, FS_Interval DEF TimerId
  <2>2. IsFiniteSet(Others(t))
    BY <2>1, FS_Subset DEF Others
  <2> QED
    BY <2>2, ModemAssumption DEF Sound
<1>1. CASE i = 0
  BY <1>0, <1>1 DEF StopId, Gsm, TimerId, HeldBy
<1>2. CASE i # 0
  <2> DEFINE u == [t EXCEPT !.running[i] = "free"]
             v == StopId(t, i)
  <2>0. i \in TimerId /\ i \in 1 .. MaxTimer
    BY <1>0, <1>2 DEF TimerId
  <2>1. /\ u \in Timers /\ u.running[i] = "free" /\ \A j \in TimerId : j # i => u.running[j] = t.running[j]
        /\ u.connection = t.connection /\ u.event = t.event /\ u.response = t.response /\ u.harmed = t.harmed
    BY <1>0, <2>0 DEF Timers
  <2>2. /\ Forget(u, i) \in Timers /\ Forget(u, i).running = u.running /\ Forget(u, i).harmed = u.harmed
        /\ \/ /\ u.connection = i /\ Forget(u, i).connection = 0
              /\ Forget(u, i).event = u.event /\ Forget(u, i).response = u.response
           \/ /\ u.connection # i /\ u.event = i /\ Forget(u, i).event = 0
              /\ Forget(u, i).connection = u.connection /\ Forget(u, i).response = u.response
           \/ /\ u.connection # i /\ u.event # i /\ u.response = i /\ Forget(u, i).response = 0
              /\ Forget(u, i).connection = u.connection /\ Forget(u, i).event = u.event
           \/ /\ u.connection # i /\ u.event # i /\ u.response # i
              /\ Forget(u, i) = u
    BY <2>0, <2>1, ForgetIs
  <2>3. \/ t.running[i] = "free" /\ v = t
        \/ t.running[i] = "gsm" /\ v = Forget(u, i)
        \/ t.running[i] = "other" /\ v = [t EXCEPT !.running[i] = "free", !.harmed = TRUE]
    BY <1>0, <2>0, StopIs
  <2>4. /\ v \in Timers /\ \A j \in TimerId : v.running[j] = t.running[j] \/ (j = i /\ v.running[j] = "free")
        /\ v.running[i] = "free"
        /\ v.connection \in {0, t.connection} /\ v.event \in {0, t.event} /\ v.response \in {0, t.response}
        /\ HeldBy(t) \ {i} \subseteq HeldBy(v)
    <3>1. CASE v = t /\ t.running[i] = "free"
      BY <1>0, <3>1
    <3>2. CASE t.running[i] = "gsm" /\ v = Forget(u, i)
      <4> HIDE DEF u, v
      <4> QED
        BY <2>0, <2>1, <2>2, <3>2 DEF HeldBy
    <3>3. CASE v = [t EXCEPT !.running[i] = "free", !.harmed = TRUE]
      <4>1. v = [u EXCEPT !.harmed = TRUE]
        BY <1>0, <3>3 DEF Timers
      <4> HIDE DEF u, v
      <4>2. /\ v.running = u.running /\ v.connection = u.connection /\ v.event = u.event
            /\ v.response = u.response
        BY <2>1, <4>1 DEF Timers
      <4>3. v \in Timers
        BY <2>1, <4>1 DEF Timers
      <4> QED
        BY <2>1, <4>2, <4>3 DEF HeldBy
    <3> QED
      BY <2>3, <3>1, <3>2, <3>3
  <2>6. Gsm(v) = Gsm(t) \ {i} /\ Others(v) \subseteq Others(t)
    BY <2>4 DEF Gsm, Others
  <2>7. Cardinality(Others(v)) <= MaxOther
    <3>1. Cardinality(Others(v)) <= Cardinality(Others(t)) /\ IsFiniteSet(Others(v))
      BY <1>0, <2>6, FS_Subset
    <3>2. Cardinality(Others(v)) \in Nat /\ Cardinality(Others(t)) \in Nat /\ MaxOther \in Nat
      BY <1>0, <3>1, FS_CardinalityType, ModemAssumption
    <3> QED
      BY <1>0, <3>1, <3>2
  <2>8. ASSUME Right(t), i \in HeldBy(t) PROVE Right(v) /\ i \notin HeldBy(v)
    <3>1. t.running[i] = "gsm" /\ v = Forget(u, i)
      BY <2>3, <2>8 DEF Right, Gsm
    <3> HIDE DEF u, v
    <3>2. HeldBy(v) = HeldBy(t) \ {i}
      BY <2>0, <2>1, <2>2, <2>8, <3>1 DEF Right, HeldBy
    <3>3. v.harmed = FALSE
      BY <2>1, <2>2, <2>8, <3>1 DEF Right
    <3> QED
      BY <2>1, <2>2, <2>6, <2>8, <3>1, <3>2, <3>3 DEF Right
  <2> QED
    BY <1>0, <1>2, <2>4, <2>6, <2>7, <2>8 DEF Sound
<1> QED
  BY <1>1, <1>2


\* The connection timer, when the field holds none.
LEMMA ConnectionStarts ==
  ASSUME NEW t, Sound(t), t.connection \notin Gsm(t)
  PROVE  LET v == StartConnection(t)
         IN /\ Sound(v) /\ v.connection # 0 /\ v.event = t.event /\ v.response = t.response
            /\ Right(t) /\ t.connection = 0 => Right(v)
<1> DEFINE f == FreeId(t)
           v == StartConnection(t)
<1>0. t \in Timers /\ Gsm(t) \subseteq HeldBy(t) /\ Cardinality(Others(t)) <= MaxOther
  BY DEF Sound
<1>1. f \in TimerId /\ t.running[f] = "free"
  <2>1. Gsm(t) \subseteq {t.event, t.response}
    BY <1>0 DEF HeldBy
  <2> QED
    BY <2>1, TwoLeaveOne
<1>2. f \in 1 .. MaxTimer /\ f \in 0 .. MaxTimer /\ f # 0
  BY <1>1, ModemAssumption DEF TimerId
<1>3. v = [t EXCEPT !.running[f] = "gsm", !.connection = f]
  BY DEF StartConnection
<1> HIDE DEF f, v
<1>4. v \in Timers
  BY <1>0, <1>1, <1>2, <1>3 DEF Timers
<1>5. /\ v.running = [t.running EXCEPT ![f] = "gsm"] /\ v.connection = f
      /\ v.event = t.event /\ v.response = t.response /\ v.harmed = t.harmed
  BY <1>0, <1>3 DEF Timers
<1>6. t.running \in [TimerId -> {"free", "gsm", "other"}]
  BY <1>0 DEF Timers
<1>7. Gsm(v) = Gsm(t) \cup {f} /\ Others(v) = Others(t)
  BY <1>1, <1>5, <1>6 DEF Gsm, Others
<1>8. Sound(v)
  BY <1>0, <1>2, <1>4, <1>5, <1>7 DEF Sound, HeldBy
<1>9. ASSUME Right(t), t.connection = 0 PROVE Right(v)
  <2>1. f \notin Gsm(t)
    BY <1>1 DEF Gsm
  <2> QED
    BY <1>2, <1>5, <1>7, <1>9, <2>1 DEF Right, HeldBy
<1> QED
  BY <1>2, <1>5, <1>8, <1>9 DEF v

\* The timer of a line that has begun.
LEMMA EventStarts ==
  ASSUME NEW t, Sound(t), t.event \notin Gsm(t)
  PROVE  LET v == StartEvent(t)
         IN /\ Sound(v) /\ v.event # 0 /\ v.connection = t.connection /\ v.response = t.response
            /\ Right(t) /\ t.event = 0 => Right(v)
<1> DEFINE f == FreeId(t)
           v == StartEvent(t)
<1>0. t \in Timers /\ Gsm(t) \subseteq HeldBy(t) /\ Cardinality(Others(t)) <= MaxOther
  BY DEF Sound
<1>1. f \in TimerId /\ t.running[f] = "free"
  <2>1. Gsm(t) \subseteq {t.connection, t.response}
    BY <1>0 DEF HeldBy
  <2> QED
    BY <2>1, TwoLeaveOne
<1>2. f \in 1 .. MaxTimer /\ f \in 0 .. MaxTimer /\ f # 0
  BY <1>1, ModemAssumption DEF TimerId
<1>3. v = [t EXCEPT !.running[f] = "gsm", !.event = f]
  BY DEF StartEvent
<1> HIDE DEF f, v
<1>4. v \in Timers
  BY <1>0, <1>1, <1>2, <1>3 DEF Timers
<1>5. /\ v.running = [t.running EXCEPT ![f] = "gsm"] /\ v.event = f
      /\ v.connection = t.connection /\ v.response = t.response /\ v.harmed = t.harmed
  BY <1>0, <1>3 DEF Timers
<1>6. t.running \in [TimerId -> {"free", "gsm", "other"}]
  BY <1>0 DEF Timers
<1>7. Gsm(v) = Gsm(t) \cup {f} /\ Others(v) = Others(t)
  BY <1>1, <1>5, <1>6 DEF Gsm, Others
<1>8. Sound(v)
  BY <1>0, <1>2, <1>4, <1>5, <1>7 DEF Sound, HeldBy
<1>9. ASSUME Right(t), t.event = 0 PROVE Right(v)
  <2>1. f \notin Gsm(t)
    BY <1>1 DEF Gsm
  <2> QED
    BY <1>2, <1>5, <1>7, <1>9, <2>1 DEF Right, HeldBy
<1> QED
  BY <1>2, <1>5, <1>8, <1>9 DEF v

\* The timer of an answer.
LEMMA ResponseStarts ==
  ASSUME NEW t, Sound(t), t.response \notin Gsm(t)
  PROVE  LET v == [t EXCEPT !.running[FreeId(t)] = "gsm", !.response = FreeId(t)]
         IN /\ Sound(v) /\ v.response # 0 /\ v.connection = t.connection /\ v.event = t.event
            /\ Right(t) /\ t.response = 0 => Right(v)
<1> DEFINE f == FreeId(t)
           v == [t EXCEPT !.running[FreeId(t)] = "gsm", !.response = FreeId(t)]
<1>0. t \in Timers /\ Gsm(t) \subseteq HeldBy(t) /\ Cardinality(Others(t)) <= MaxOther
  BY DEF Sound
<1>1. f \in TimerId /\ t.running[f] = "free"
  <2>1. Gsm(t) \subseteq {t.connection, t.event}
    BY <1>0 DEF HeldBy
  <2> QED
    BY <2>1, TwoLeaveOne
<1>2. f \in 1 .. MaxTimer /\ f \in 0 .. MaxTimer /\ f # 0
  BY <1>1, ModemAssumption DEF TimerId
<1>3. v = [t EXCEPT !.running[f] = "gsm", !.response = f]
  BY DEF FreeId
<1> HIDE DEF f, v
<1>4. v \in Timers
  BY <1>0, <1>1, <1>2, <1>3 DEF Timers
<1>5. /\ v.running = [t.running EXCEPT ![f] = "gsm"] /\ v.response = f
      /\ v.connection = t.connection /\ v.event = t.event /\ v.harmed = t.harmed
  BY <1>0, <1>3 DEF Timers
<1>6. t.running \in [TimerId -> {"free", "gsm", "other"}]
  BY <1>0 DEF Timers
<1>7. Gsm(v) = Gsm(t) \cup {f} /\ Others(v) = Others(t)
  BY <1>1, <1>5, <1>6 DEF Gsm, Others
<1>8. Sound(v)
  BY <1>0, <1>2, <1>4, <1>5, <1>7 DEF Sound, HeldBy
<1>9. ASSUME Right(t), t.response = 0 PROVE Right(v)
  <2>1. f \notin Gsm(t)
    BY <1>1 DEF Gsm
  <2> QED
    BY <1>2, <1>5, <1>7, <1>9, <2>1 DEF Right, HeldBy
<1> QED
  BY <1>2, <1>5, <1>8, <1>9 DEF v

-----------------------------------------------------------------------------
(* The timers of the handler, kept by what the actions do to them          *)

\* What holds of the timers: always, and until a connection has failed.
Kept(t) == Sound(t) /\ (~failed => Right(t))

\* The handler stops the timer of a field.
LEMMA StopKept ==
  ASSUME NEW t, Kept(t), NEW i \in {t.connection, t.event, t.response}
  PROVE  LET v == StopId(t, i)
         IN /\ Kept(v) /\ i \notin Gsm(v)
            /\ v.connection \in {0, t.connection} /\ v.event \in {0, t.event} /\ v.response \in {0, t.response}
            /\ ~failed => i \notin HeldBy(v)
<1> DEFINE v == StopId(t, i)
<1>1. i \in 0 .. MaxTimer /\ i \in HeldBy(t) \cup {0}
  BY DEF Kept, Sound, Timers, HeldBy
<1>2. /\ Sound(v) /\ i \notin Gsm(v)
      /\ v.connection \in {0, t.connection} /\ v.event \in {0, t.event} /\ v.response \in {0, t.response}
      /\ Right(t) => Right(v) /\ i \notin HeldBy(v)
  BY <1>1, StopKeeps DEF Kept
<1> HIDE DEF v
<1>3. Kept(v) /\ (~failed => i \notin HeldBy(v))
  BY <1>2 DEF Kept
<1> QED
  BY <1>2, <1>3 DEF v

\* 0 is the id of no timer.
LEMMA ZeroIsNone == ASSUME NEW t PROVE 0 \notin Gsm(t)
BY ModemAssumption DEF Gsm, TimerId

\* A new connection timer for the old one.
LEMMA ConnectionKept ==
  ASSUME NEW t, Kept(t)
  PROVE  Kept(StartConnection(StopId(t, t.connection)))
<1> DEFINE u == StopId(t, t.connection)
           v == StartConnection(u)
<1>1. /\ Kept(u) /\ t.connection \notin Gsm(u) /\ u.connection \in {0, t.connection}
      /\ ~failed => t.connection \notin HeldBy(u)
  BY StopKept
<1> HIDE DEF u
<1>2. u.connection \notin Gsm(u) /\ (~failed => u.connection = 0)
  BY <1>1, ZeroIsNone DEF HeldBy
<1>3. Sound(v) /\ (Right(u) /\ u.connection = 0 => Right(v))
  BY <1>1, <1>2, ConnectionStarts DEF Kept
<1> HIDE DEF v
<1>4. Kept(v)
  BY <1>1, <1>2, <1>3 DEF Kept
<1> QED
  BY <1>4 DEF u, v

\* A new timer of half a line for the old one.
LEMMA EventKept ==
  ASSUME NEW t, Kept(t)
  PROVE  Kept(StartEvent(StopId(t, t.event))) /\ StartEvent(StopId(t, t.event)).event # 0
<1> DEFINE u == StopId(t, t.event)
           v == StartEvent(u)
<1>1. /\ Kept(u) /\ t.event \notin Gsm(u) /\ u.event \in {0, t.event}
      /\ ~failed => t.event \notin HeldBy(u)
  BY StopKept
<1> HIDE DEF u
<1>2. u.event \notin Gsm(u) /\ (~failed => u.event = 0)
  BY <1>1, ZeroIsNone DEF HeldBy
<1>3. Sound(v) /\ v.event # 0 /\ (Right(u) /\ u.event = 0 => Right(v))
  BY <1>1, <1>2, EventStarts DEF Kept
<1> HIDE DEF v
<1>4. Kept(v)
  BY <1>1, <1>2, <1>3 DEF Kept
<1> QED
  BY <1>3, <1>4 DEF u, v

\* The timeout of an answer is stopped, and its field is empty.
LEMMA TimeoutStopKept ==
  ASSUME NEW t, Kept(t)
  PROVE  Kept(StopTimeoutTimer(t)) /\ StopTimeoutTimer(t).response = 0
<1> DEFINE u == StopId(t, t.response)
           v == StopTimeoutTimer(t)
<1>1. /\ Kept(u) /\ t.response \notin Gsm(u) /\ u.response \in {0, t.response}
      /\ ~failed => t.response \notin HeldBy(u)
  BY StopKept
<1>2. v = [u EXCEPT !.response = 0]
  BY DEF StopTimeoutTimer
<1> HIDE DEF u, v
<1>3. u \in Timers /\ Gsm(u) \subseteq HeldBy(u) /\ Cardinality(Others(u)) <= MaxOther
  BY <1>1 DEF Kept, Sound
<1>4. 0 \in 0 .. MaxTimer
  BY ModemAssumption
<1>5. /\ v \in Timers /\ v.running = u.running /\ v.connection = u.connection /\ v.event = u.event
      /\ v.response = 0 /\ v.harmed = u.harmed
  BY <1>2, <1>3, <1>4 DEF Timers
<1>6. Gsm(v) = Gsm(u) /\ Others(v) = Others(u)
  BY <1>5 DEF Gsm, Others
<1>7. Sound(v)
  BY <1>1, <1>3, <1>5, <1>6, ZeroIsNone DEF Sound, HeldBy
<1>8. ASSUME ~failed PROVE Right(v)
  <2>1. u.response = 0 /\ Right(u)
    BY <1>1, <1>8 DEF HeldBy, Kept
  <2> QED
    BY <1>5, <1>6, <2>1 DEF Right, HeldBy
<1>9. Kept(v)
  BY <1>7, <1>8 DEF Kept
<1> QED
  BY <1>5, <1>9 DEF v

\* The timeout of an answer is started anew.
LEMMA TimeoutStartKept ==
  ASSUME NEW t, Kept(t)
  PROVE  Kept(StartTimeoutTimer(t))
<1> DEFINE u == StopTimeoutTimer(t)
           v == [u EXCEPT !.running[FreeId(u)] = "gsm", !.response = FreeId(u)]
<1>1. Kept(u) /\ u.response = 0
  BY TimeoutStopKept
<1>2. StartTimeoutTimer(t) = v
  BY DEF StartTimeoutTimer
<1> HIDE DEF u
<1>3. u.response \notin Gsm(u)
  BY <1>1, ZeroIsNone
<1>4. Sound(v) /\ (Right(u) /\ u.response = 0 => Right(v))
  BY <1>1, <1>3, ResponseStarts DEF Kept
<1> HIDE DEF v
<1>5. Kept(v)
  BY <1>1, <1>4 DEF Kept
<1> QED
  BY <1>2, <1>5

\* The boot sends a command, or loses it.
LEMMA BootSendKept ==
  ASSUME NEW t, Kept(t), NEW c \in {"AT", "IPR"}, BootSend(c, t)
  PROVE  Kept(timers') /\ pendingCMD' \in AnyCommand \cup {"NONE"}
<1>1. CASE t.response = 0
  BY <1>1, TimeoutStartKept DEF BootSend, AnyCommand
<1>2. CASE t.response # 0
  BY <1>2 DEF BootSend
<1> QED
  BY <1>1, <1>2

\* What OnModemResponse may do, case by case.
LEMMA Responds ==
  ASSUME NEW t, NEW type, NEW left, NEW rest, OnModemResponse(type, left, t, rest),
         modemBootState \in BootState
  PROVE  /\ buffer' = FALSE /\ rx' \in {<<>>, rest} /\ modemBootState' \in BootState
         /\ \/ timers' = t /\ pendingCMD' = left
            \/ timers' = StopId(t, t.connection) /\ pendingCMD' = "NONE"
            \/ \E c \in {"AT", "IPR"} :
                 \/ BootSend(c, t)
                 \/ BootSend(c, StopId(t, t.connection))
                 \/ BootSend(c, StartConnection(StopId(t, t.connection)))
<1>1. CASE modemBootState = "CONNECTING"
  <2>1. buffer' = FALSE /\ (Boots(type) \/ pendingCMD' = left) /\ OnConnecting(type, t, rest)
    BY <1>1 DEF OnModemResponse
  <2>2. CASE type = "OK"
    BY <2>1, <2>2 DEF OnConnecting, BootState
  <2>3. CASE type = "TIMEOUT"
    <3>1. rx' = <<>> /\ BootSend("AT", t) /\ modemBootState' = modemBootState
      BY <2>1, <2>3 DEF OnConnecting
    <3> QED
      BY <2>1, <3>1
  <2>4. CASE type # "OK" /\ type # "TIMEOUT"
    <3>1. rx' = rest /\ timers' = t /\ modemBootState' = modemBootState
      BY <2>1, <2>4 DEF OnConnecting
    <3>2. pendingCMD' = left
      BY <1>1, <2>1, <2>4 DEF Boots
    <3> QED
      BY <2>1, <3>1, <3>2
  <2> QED
    BY <2>2, <2>3, <2>4
<1>2. CASE modemBootState = "SPEED_CHAGE"
  <2>1. buffer' = FALSE /\ (Boots(type) \/ pendingCMD' = left) /\ OnSpeedChange(type, t, rest)
    BY <1>2 DEF OnModemResponse
  <2>2. CASE type = "OK"
    BY <2>1, <2>2 DEF OnSpeedChange, BootState
  <2>3. CASE type # "OK"
    BY <1>2, <2>1, <2>3 DEF OnSpeedChange, Boots
  <2> QED
    BY <2>2, <2>3
<1>3. CASE modemBootState = "RECONNECTING"
  <2>1. buffer' = FALSE /\ (Boots(type) \/ pendingCMD' = left) /\ OnReconnecting(type, t, rest)
    BY <1>3 DEF OnModemResponse
  <2>2. CASE type = "OK"
    BY <2>1, <2>2 DEF OnReconnecting, BootState
  <2>3. CASE type = "TIMEOUT"
    <3>1. rx' = <<>> /\ BootSend("AT", t) /\ modemBootState' = modemBootState
      BY <2>1, <2>3 DEF OnReconnecting
    <3> QED
      BY <2>1, <3>1
  <2>4. CASE type # "OK" /\ type # "TIMEOUT"
    <3>1. rx' = rest /\ timers' = t /\ modemBootState' = modemBootState
      BY <2>1, <2>4 DEF OnReconnecting
    <3>2. pendingCMD' = left
      BY <1>3, <2>1, <2>4 DEF Boots
    <3> QED
      BY <2>1, <3>1, <3>2
  <2> QED
    BY <2>2, <2>3, <2>4
<1>4. CASE modemBootState \notin {"CONNECTING", "SPEED_CHAGE", "RECONNECTING"}
  <2>1. buffer' = FALSE /\ rx' = rest /\ timers' = t /\ modemBootState' = modemBootState
    BY <1>4 DEF OnModemResponse
  <2>2. pendingCMD' = left
    BY <1>4 DEF OnModemResponse, Boots
  <2> QED
    BY <2>1, <2>2
<1> QED
  BY <1>1, <1>2, <1>3, <1>4

\* OnModemResponse keeps the timers right, and the buffer is empty after it.
LEMMA ResponseKept ==
  ASSUME NEW t, Kept(t), NEW type, NEW left \in AnyCommand \cup {"NONE"}, NEW rest \in Seq(Piece),
         OnModemResponse(type, left, t, rest), modemBootState \in BootState
  PROVE  /\ buffer' = FALSE /\ rx' \in Seq(Piece) /\ modemBootState' \in BootState
         /\ pendingCMD' \in AnyCommand \cup {"NONE"} /\ Kept(timers')
<1>1. /\ buffer' = FALSE /\ rx' \in {<<>>, rest} /\ modemBootState' \in BootState
      /\ \/ timers' = t /\ pendingCMD' = left
         \/ timers' = StopId(t, t.connection) /\ pendingCMD' = "NONE"
         \/ \E c \in {"AT", "IPR"} :
              \/ BootSend(c, t)
              \/ BootSend(c, StopId(t, t.connection))
              \/ BootSend(c, StartConnection(StopId(t, t.connection)))
  BY Responds
<1>2. Kept(StopId(t, t.connection))
  BY StopKept
<1>3. Kept(StartConnection(StopId(t, t.connection)))
  BY ConnectionKept
<1>4. Kept(timers') /\ pendingCMD' \in AnyCommand \cup {"NONE"}
  <2>1. CASE timers' = t /\ pendingCMD' = left
    BY <2>1
  <2>2. CASE timers' = StopId(t, t.connection) /\ pendingCMD' = "NONE"
    BY <1>2, <2>2
  <2>3. ASSUME NEW c \in {"AT", "IPR"}, BootSend(c, t)
        PROVE  Kept(timers') /\ pendingCMD' \in AnyCommand \cup {"NONE"}
    BY <2>3, BootSendKept
  <2>4. ASSUME NEW c \in {"AT", "IPR"}, BootSend(c, StopId(t, t.connection))
        PROVE  Kept(timers') /\ pendingCMD' \in AnyCommand \cup {"NONE"}
    BY <1>2, <2>4, BootSendKept
  <2>5. ASSUME NEW c \in {"AT", "IPR"}, BootSend(c, StartConnection(StopId(t, t.connection)))
        PROVE  Kept(timers') /\ pendingCMD' \in AnyCommand \cup {"NONE"}
    BY <1>3, <2>5, BootSendKept
  <2> QED
    BY <1>1, <2>1, <2>2, <2>3, <2>4, <2>5
<1>5. rx' \in Seq(Piece)
  <2>1. <<>> \in Seq(Piece)
    OBVIOUS
  <2> QED
    BY <1>1, <2>1
<1> QED
  BY <1>1, <1>4, <1>5

-----------------------------------------------------------------------------
(* The inductive invariant                                                 *)

\* A line that has begun outside a command has its timer, but between the two halves
\* of a turn of Loop that read something: HalfLineIsTimed, and the turn that keeps it.
LineInv == ~failed /\ buffer /\ pendingCMD = "NONE" /\ (phase = "idle" \/ ~changed) => timers.event # 0

\* Every variable but the stack and the timers has its type.
Types ==
  /\ baudRate \in BaudRate
  /\ modemBootState \in BootState
  /\ pendingCMD \in AnyCommand \cup {"NONE"}
  /\ buffer \in BOOLEAN
  /\ rx \in Seq(Piece)
  /\ phase \in {"idle", "tail"}
  /\ changed \in BOOLEAN
  /\ started \in 0 .. MaxStarts
  /\ failed \in BOOLEAN

\* The stack keeps to its capacity.
StackInv == commandStack \in Seq(Command) /\ Len(commandStack) <= OUT_MESSAGE_STACK_SIZE

\* The ids of the timers, now.
TimersInv == Kept(timers)

IInv == Types /\ StackInv /\ TimersInv /\ LineInv

LEMMA StartModemKeeps ==
  ASSUME IInv, NEW baud \in BaudRate, StartModem(baud)
  PROVE  IInv'
<1> DEFINE flushed == StopId(timers, timers.event)
           stopped == StopId(flushed, flushed.connection)
<1>1. /\ started < MaxStarts /\ started' = started + 1 /\ baudRate' = baud
      /\ modemBootState' = "CONNECTING" /\ commandStack' = <<>> /\ buffer' = FALSE /\ rx' = <<>>
      /\ BootSend("AT", StartConnection(stopped))
      /\ phase' = phase /\ changed' = changed /\ failed' = failed
  BY DEF StartModem, locals
<1>2. Kept(StartConnection(stopped))
  <2>1. Kept(flushed)
    BY StopKept DEF IInv, TimersInv
  <2> HIDE DEF flushed
  <2> QED
    BY <2>1, ConnectionKept
<1> HIDE DEF flushed, stopped
<1>3. Kept(timers') /\ pendingCMD' \in AnyCommand \cup {"NONE"}
  BY <1>1, <1>2, BootSendKept
<1>4. TimersInv'
  BY <1>1, <1>3 DEF TimersInv, Kept
<1>5. Types'
  <2>1. started' \in 0 .. MaxStarts
    BY <1>1, ModemAssumption DEF IInv, Types
  <2>2. rx' \in Seq(Piece)
    BY <1>1
  <2> QED
    BY <1>1, <1>3, <2>1, <2>2 DEF IInv, Types, BootState
<1>6. StackInv'
  BY <1>1, ModemAssumption DEF StackInv
<1>7. LineInv'
  BY <1>1 DEF LineInv
<1> QED
  BY <1>4, <1>5, <1>6, <1>7 DEF IInv

\* What changes neither the line nor the timers.
LEMMA TheRestKeeps ==
  ASSUME IInv, UNCHANGED <<pendingCMD, buffer, timers, phase, changed, failed>>, Types', StackInv'
  PROVE  IInv'
BY DEF IInv, TimersInv, Kept, LineInv

LEMMA AddCommandKeeps ==
  ASSUME IInv, NEW c \in Command, AddCommand(c)
  PROVE  IInv'
<1>1. commandStack' = Append(commandStack, c) /\ Len(commandStack) < OUT_MESSAGE_STACK_SIZE
  BY DEF AddCommand
<1>2. StackInv'
  BY <1>1, ModemAssumption DEF IInv, StackInv
<1>3. Types'
  BY DEF AddCommand, IInv, Types, serial, locals
<1> QED
  BY <1>2, <1>3, TheRestKeeps DEF AddCommand, serial, locals

LEMMA ForceCommandKeeps ==
  ASSUME IInv, NEW c \in Command, ForceCommand(c)
  PROVE  IInv'
<1>1. commandStack' = <<c>> \o commandStack /\ Len(commandStack) < OUT_MESSAGE_STACK_SIZE
  BY DEF ForceCommand
<1>2. StackInv'
  BY <1>1, ModemAssumption DEF IInv, StackInv
<1>3. Types'
  BY DEF ForceCommand, IInv, Types, serial, locals
<1> QED
  BY <1>2, <1>3, TheRestKeeps DEF ForceCommand, serial, locals

LEMMA ReceiveKeeps ==
  ASSUME IInv, NEW p \in Piece, Receive(p)
  PROVE  IInv'
<1>1. rx' \in Seq(Piece)
  BY DEF Receive, IInv, Types
<1>2. Types'
  BY <1>1 DEF Receive, IInv, Types, locals
<1>3. StackInv'
  BY DEF Receive, IInv, StackInv
<1> QED
  BY <1>2, <1>3, TheRestKeeps DEF Receive, locals

\* ResponseDetectedInternal.
LEMMA LineKept ==
  ASSUME IInv, NEW line, NEW rest \in Seq(Piece), OnLine(line, rest)
  PROVE  /\ buffer' = FALSE /\ rx' \in Seq(Piece) /\ modemBootState' \in BootState
         /\ pendingCMD' \in AnyCommand \cup {"NONE"} /\ Kept(timers')
<1> DEFINE t == StopTimeoutTimer(timers)
<1>0. /\ pendingCMD \in AnyCommand \cup {"NONE"} /\ modemBootState \in BootState
      /\ "NONE" \in AnyCommand \cup {"NONE"}
  BY DEF IInv, Types
<1>1. Kept(t)
  BY TimeoutStopKept DEF IInv, TimersInv
<1>2. \/ /\ buffer' = FALSE /\ rx' = rest /\ timers' = t
         /\ modemBootState' = modemBootState /\ pendingCMD' = pendingCMD
      \/ OnModemResponse("EVENT", "NONE", t, rest)
      \/ OnModemResponse("DATA", pendingCMD, StartTimeoutTimer(t), rest)
      \/ OnModemResponse(line, "NONE", t, rest)
  BY DEF OnLine
<1> HIDE DEF t
<1>3. Kept(StartTimeoutTimer(t))
  BY <1>1, TimeoutStartKept
<1>4. CASE /\ buffer' = FALSE /\ rx' = rest /\ timers' = t
           /\ modemBootState' = modemBootState /\ pendingCMD' = pendingCMD
  BY <1>0, <1>1, <1>4
<1>5. CASE OnModemResponse("EVENT", "NONE", t, rest)
  BY <1>0, <1>1, <1>5, ResponseKept
<1>6. CASE OnModemResponse("DATA", pendingCMD, StartTimeoutTimer(t), rest)
  BY <1>0, <1>3, <1>6, ResponseKept
<1>7. CASE OnModemResponse(line, "NONE", t, rest)
  BY <1>0, <1>1, <1>7, ResponseKept
<1> QED
  BY <1>2, <1>4, <1>5, <1>6, <1>7

LEMMA LoopReadKeeps ==
  ASSUME IInv, LoopRead
  PROVE  IInv'
<1>1. /\ phase = "idle" /\ phase' = "tail" /\ baudRate' = baudRate /\ commandStack' = commandStack
      /\ started' = started /\ failed' = failed
  BY DEF LoopRead
<1>2. Types /\ StackInv /\ TimersInv /\ LineInv
  BY DEF IInv
<1> DEFINE ReadRight ==
             /\ rx' \in Seq(Piece) /\ modemBootState' \in BootState /\ buffer' \in BOOLEAN
             /\ changed' \in BOOLEAN /\ pendingCMD' \in AnyCommand \cup {"NONE"}
             /\ Kept(timers') /\ LineInv'
<1>3. ReadRight
  <2>1. ASSUME buffer' = (buffer \/ rx # <<>>), rx' = <<>>, changed' = (rx # <<>>),
               UNCHANGED <<modemBootState, pendingCMD, timers>>
        PROVE  ReadRight
    <3>1. changed' \in BOOLEAN /\ buffer' \in BOOLEAN
      BY <2>1
    <3>2. rx' \in Seq(Piece)
      BY <2>1
    <3>3. modemBootState' \in BootState /\ pendingCMD' \in AnyCommand \cup {"NONE"} /\ Kept(timers')
      BY <1>2, <2>1 DEF Types, TimersInv
    <3>4. LineInv'
      BY <1>1, <1>2, <2>1 DEF LineInv
    <3> QED
      BY <3>1, <3>2, <3>3, <3>4
  <2>2. ASSUME NEW k \in 1 .. Len(rx), OnLine(rx[k], SubSeq(rx, k + 1, Len(rx))), changed' = buffer
        PROVE  ReadRight
    <3> DEFINE rest == SubSeq(rx, k + 1, Len(rx))
    <3>1. rest \in Seq(Piece)
      BY <1>2 DEF Types
    <3> HIDE DEF rest
    <3>2. OnLine(rx[k], rest)
      BY <2>2 DEF rest
    <3>3. /\ buffer' = FALSE /\ rx' \in Seq(Piece) /\ modemBootState' \in BootState
          /\ pendingCMD' \in AnyCommand \cup {"NONE"} /\ Kept(timers')
      BY <3>1, <3>2, LineKept
    <3>4. LineInv'
      BY <3>3 DEF LineInv
    <3>5. changed' \in BOOLEAN
      BY <1>2, <2>2 DEF Types
    <3> QED
      BY <3>3, <3>4, <3>5
  <2>3. \/ /\ buffer' = (buffer \/ rx # <<>>) /\ rx' = <<>> /\ changed' = (rx # <<>>)
           /\ UNCHANGED <<modemBootState, pendingCMD, timers>>
        \/ \E k \in 1 .. Len(rx) : OnLine(rx[k], SubSeq(rx, k + 1, Len(rx))) /\ changed' = buffer
    BY DEF LoopRead
  <2> QED
    BY <2>1, <2>2, <2>3
<1>4. Types'
  BY <1>1, <1>2, <1>3 DEF Types
<1>5. StackInv' /\ TimersInv'
  BY <1>1, <1>2, <1>3 DEF StackInv, TimersInv, Kept
<1> QED
  BY <1>3, <1>4, <1>5 DEF IInv

\* The timer of half a line, as Loop leaves it.
LEMMA EventTimerKept ==
  ASSUME IInv, phase = "tail"
  PROVE  /\ Kept(EventTimer)
         /\ ~failed /\ buffer /\ pendingCMD = "NONE" => EventTimer.event # 0
<1>1. Kept(timers) /\ LineInv
  BY DEF IInv, TimersInv
<1>2. Kept(StopId(timers, timers.event))
  BY <1>1, StopKept
<1>3. Kept(StartEvent(StopId(timers, timers.event))) /\ StartEvent(StopId(timers, timers.event)).event # 0
  BY <1>1, EventKept
<1>4. CASE pendingCMD # "NONE" \/ ~buffer
  BY <1>1, <1>2, <1>4 DEF EventTimer
<1>5. CASE pendingCMD = "NONE" /\ buffer /\ changed
  BY <1>3, <1>5 DEF EventTimer
<1>6. CASE pendingCMD = "NONE" /\ buffer /\ ~changed
  BY <1>1, <1>6 DEF EventTimer, LineInv
<1> QED
  BY <1>4, <1>5, <1>6

\* The end of a turn of Loop: the next command is sent, or nothing is.
LEMMA LoopTailIs ==
  ASSUME LoopTail
  PROVE  /\ phase = "tail" /\ phase' = "idle" /\ changed' = FALSE
         /\ UNCHANGED <<baudRate, modemBootState, buffer, rx, started, failed>>
         /\ \/ /\ pendingCMD = "NONE" /\ commandStack # <<>> /\ pendingCMD' = Head(commandStack)
               /\ commandStack' = Tail(commandStack) /\ timers' = StartTimeoutTimer(EventTimer)
            \/ /\ pendingCMD' = pendingCMD /\ commandStack' = commandStack /\ timers' = EventTimer
<1>1. CASE ~IsBusy(EventTimer) /\ modemBootState = "COMPLETED" /\ commandStack # <<>>
  <2>1. pendingCMD = "NONE"
    BY <1>1 DEF IsBusy
  <2> QED
    BY <1>1, <2>1 DEF LoopTail, serial
<1>2. CASE ~(~IsBusy(EventTimer) /\ modemBootState = "COMPLETED" /\ commandStack # <<>>)
  BY <1>2 DEF LoopTail, serial
<1> QED
  BY <1>1, <1>2

LEMMA LoopTailKeeps ==
  ASSUME IInv, LoopTail
  PROVE  IInv'
<1>1. /\ phase = "tail" /\ phase' = "idle" /\ changed' = FALSE
      /\ UNCHANGED <<baudRate, modemBootState, buffer, rx, started, failed>>
      /\ \/ /\ pendingCMD = "NONE" /\ commandStack # <<>> /\ pendingCMD' = Head(commandStack)
            /\ commandStack' = Tail(commandStack) /\ timers' = StartTimeoutTimer(EventTimer)
         \/ /\ pendingCMD' = pendingCMD /\ commandStack' = commandStack /\ timers' = EventTimer
  BY LoopTailIs
<1>2. Types /\ StackInv /\ TimersInv /\ LineInv
  BY DEF IInv
<1>3. /\ Kept(EventTimer)
      /\ ~failed /\ buffer /\ pendingCMD = "NONE" => EventTimer.event # 0
  BY <1>1, EventTimerKept
<1> DEFINE SentRight ==
             Kept(timers') /\ StackInv' /\ LineInv' /\ pendingCMD' \in AnyCommand \cup {"NONE"}
<1>4. SentRight
  <2>1. ASSUME commandStack # <<>>, pendingCMD' = Head(commandStack),
               commandStack' = Tail(commandStack), timers' = StartTimeoutTimer(EventTimer)
        PROVE  SentRight
    <3>1. Kept(timers')
      BY <1>3, <2>1, TimeoutStartKept
    <3>2. Head(commandStack) \in Command
      BY <1>2, <2>1 DEF StackInv
    <3>3. Len(Tail(commandStack)) <= OUT_MESSAGE_STACK_SIZE /\ Tail(commandStack) \in Seq(Command)
      BY <1>2, <2>1, ModemAssumption DEF StackInv
    <3>4. pendingCMD' # "NONE" /\ pendingCMD' \in AnyCommand
      BY <2>1, <3>2, ModemAssumption DEF AnyCommand
    <3> QED
      BY <2>1, <3>1, <3>3, <3>4 DEF StackInv, LineInv
  <2>2. ASSUME pendingCMD' = pendingCMD, commandStack' = commandStack, timers' = EventTimer
        PROVE  SentRight
    <3>1. LineInv'
      BY <1>1, <1>3, <2>2 DEF LineInv
    <3> QED
      BY <1>2, <1>3, <2>2, <3>1 DEF StackInv, Types
  <2> QED
    BY <1>1, <2>1, <2>2
<1>5. Types'
  BY <1>1, <1>2, <1>4 DEF Types
<1>6. TimersInv'
  BY <1>1, <1>4 DEF TimersInv, Kept
<1> QED
  BY <1>4, <1>5, <1>6 DEF IInv

LEMMA PromptKeeps ==
  ASSUME IInv, Prompt
  PROVE  IInv'
<1>1. buffer' = FALSE /\ timers' = StartTimeoutTimer(timers)
      /\ UNCHANGED <<baudRate, modemBootState, commandStack, pendingCMD, rx, phase, changed, started, failed>>
  BY DEF Prompt, locals
<1>2. Types /\ StackInv /\ Kept(timers)
  BY DEF IInv, TimersInv
<1>3. Kept(timers')
  BY <1>1, <1>2, TimeoutStartKept
<1>4. TimersInv'
  BY <1>1, <1>3 DEF TimersInv, Kept
<1>5. Types' /\ StackInv' /\ LineInv'
  BY <1>1, <1>2 DEF Types, StackInv, LineInv
<1> QED
  BY <1>4, <1>5 DEF IInv

\* A timer of the engine completes, or one of others ends: its id is free.
LEMMA FreedIs ==
  ASSUME NEW t, t \in Timers, NEW i \in TimerId
  PROVE  LET v == [t EXCEPT !.running[i] = "free"]
         IN /\ v \in Timers /\ Gsm(v) = Gsm(t) \ {i} /\ Others(v) = Others(t) \ {i}
            /\ v.connection = t.connection /\ v.event = t.event /\ v.response = t.response
            /\ v.harmed = t.harmed
<1> DEFINE v == [t EXCEPT !.running[i] = "free"]
<1>1. /\ v \in Timers /\ v.running = [t.running EXCEPT ![i] = "free"]
      /\ v.connection = t.connection /\ v.event = t.event /\ v.response = t.response
      /\ v.harmed = t.harmed
  BY DEF Timers
<1>2. t.running \in [TimerId -> {"free", "gsm", "other"}]
  BY DEF Timers
<1> HIDE DEF v
<1>3. Gsm(v) = Gsm(t) \ {i} /\ Others(v) = Others(t) \ {i}
  BY <1>1, <1>2 DEF Gsm, Others
<1> QED
  BY <1>1, <1>3 DEF v

LEMMA ConnectionFailsKeeps ==
  ASSUME IInv, NEW i \in TimerId, TimerCompletes(i), ConnectionFails(i)
  PROVE  IInv'
<1> DEFINE v == [timers EXCEPT !.running[i] = "free"]
<1>1. /\ timers.connection = i /\ timers.running[i] = "gsm" /\ modemBootState' = "ERROR"
      /\ buffer' = FALSE /\ timers' = v /\ failed' = TRUE
      /\ UNCHANGED <<baudRate, commandStack, pendingCMD, rx, phase, changed, started>>
  BY DEF ConnectionFails, TimerCompletes, locals
<1>2. Types /\ StackInv /\ Sound(timers) /\ timers \in Timers
  BY DEF IInv, TimersInv, Kept, Sound
<1>3. /\ v \in Timers /\ Gsm(v) = Gsm(timers) \ {i} /\ Others(v) = Others(timers) \ {i}
      /\ v.connection = timers.connection /\ v.event = timers.event /\ v.response = timers.response
  BY <1>2, FreedIs
<1> HIDE DEF v
<1>4. Others(v) = Others(timers)
  BY <1>1, <1>3 DEF Others
<1>5. Sound(v)
  BY <1>2, <1>3, <1>4 DEF Sound, HeldBy
<1>6. TimersInv'
  BY <1>1, <1>5 DEF TimersInv, Kept, Sound
<1>7. Types' /\ StackInv' /\ LineInv'
  BY <1>1, <1>2 DEF Types, StackInv, LineInv, BootState
<1> QED
  BY <1>6, <1>7 DEF IInv

LEMMA EventTimesOutKeeps ==
  ASSUME IInv, NEW i \in TimerId, TimerCompletes(i), EventTimesOut(i)
  PROVE  IInv'
<1> DEFINE u == [timers EXCEPT !.running[i] = "free"]
           v == [timers EXCEPT !.running[i] = "free", !.event = 0]
<1>1. /\ timers.connection # i /\ timers.event = i /\ timers.running[i] = "gsm"
      /\ buffer' = FALSE /\ timers' = v
      /\ UNCHANGED <<baudRate, modemBootState, commandStack, pendingCMD, rx, phase, changed, started, failed>>
  BY DEF EventTimesOut, TimerCompletes, locals
<1>2. Types /\ StackInv /\ Kept(timers) /\ timers \in Timers
  BY DEF IInv, TimersInv, Kept, Sound
<1>3. /\ u \in Timers /\ Gsm(u) = Gsm(timers) \ {i} /\ Others(u) = Others(timers) \ {i}
      /\ u.connection = timers.connection /\ u.event = timers.event /\ u.response = timers.response
      /\ u.harmed = timers.harmed
  BY <1>2, FreedIs
<1>4. v = [u EXCEPT !.event = 0]
  BY <1>2 DEF Timers
<1> HIDE DEF u, v
<1>5. 0 \in 0 .. MaxTimer
  BY ModemAssumption
<1>6. /\ v \in Timers /\ v.running = u.running /\ v.connection = u.connection /\ v.event = 0
      /\ v.response = u.response /\ v.harmed = u.harmed
  BY <1>3, <1>4, <1>5 DEF Timers
<1>7. Gsm(v) = Gsm(timers) \ {i} /\ Others(v) = Others(timers)
  BY <1>1, <1>3, <1>6 DEF Gsm, Others
<1>8. Sound(v)
  BY <1>1, <1>2, <1>3, <1>6, <1>7 DEF Sound, HeldBy, Kept
<1>9. ASSUME ~failed PROVE Right(v)
  <2>1. Right(timers) /\ i # 0
    BY <1>2, <1>9, ModemAssumption DEF Kept, TimerId
  <2> QED
    BY <1>1, <1>3, <1>6, <1>7, <2>1 DEF Right, HeldBy
<1>10. TimersInv'
  BY <1>1, <1>8, <1>9 DEF TimersInv, Kept
<1>11. Types' /\ StackInv' /\ LineInv'
  BY <1>1, <1>2 DEF Types, StackInv, LineInv
<1> QED
  BY <1>10, <1>11 DEF IInv

LEMMA ResponseTimesOutKeeps ==
  ASSUME IInv, NEW i \in TimerId, TimerCompletes(i), ResponseTimesOut(i)
  PROVE  IInv'
<1> DEFINE u == [timers EXCEPT !.running[i] = "free"]
           v == [timers EXCEPT !.running[i] = "free", !.response = 0]
<1>1. /\ timers.connection # i /\ timers.event # i /\ timers.response = i /\ timers.running[i] = "gsm"
      /\ OnModemResponse("EVENT", "NONE", v, rx) \/ OnModemResponse("TIMEOUT", "NONE", v, rx)
      /\ UNCHANGED <<baudRate, commandStack, phase, changed, started, failed>>
  BY DEF ResponseTimesOut, TimerCompletes, locals
<1>2. /\ Types /\ StackInv /\ Kept(timers) /\ timers \in Timers
      /\ rx \in Seq(Piece) /\ modemBootState \in BootState
  BY DEF IInv, TimersInv, Kept, Sound, Types
<1>3. /\ u \in Timers /\ Gsm(u) = Gsm(timers) \ {i} /\ Others(u) = Others(timers) \ {i}
      /\ u.connection = timers.connection /\ u.event = timers.event /\ u.response = timers.response
      /\ u.harmed = timers.harmed
  BY <1>2, FreedIs
<1>4. v = [u EXCEPT !.response = 0]
  BY <1>2 DEF Timers
<1> HIDE DEF u, v
<1>5. 0 \in 0 .. MaxTimer
  BY ModemAssumption
<1>6. /\ v \in Timers /\ v.running = u.running /\ v.connection = u.connection /\ v.event = u.event
      /\ v.response = 0 /\ v.harmed = u.harmed
  BY <1>3, <1>4, <1>5 DEF Timers
<1>7. Gsm(v) = Gsm(timers) \ {i} /\ Others(v) = Others(timers)
  BY <1>1, <1>3, <1>6 DEF Gsm, Others
<1>8. Sound(v)
  BY <1>1, <1>2, <1>3, <1>6, <1>7 DEF Sound, HeldBy, Kept
<1>9. ASSUME ~failed PROVE Right(v)
  <2>1. Right(timers) /\ i # 0
    BY <1>2, <1>9, ModemAssumption DEF Kept, TimerId
  <2> QED
    BY <1>1, <1>3, <1>6, <1>7, <2>1 DEF Right, HeldBy
<1>10. Kept(v)
  BY <1>8, <1>9 DEF Kept
<1>11. /\ buffer' = FALSE /\ rx' \in Seq(Piece) /\ modemBootState' \in BootState
       /\ pendingCMD' \in AnyCommand \cup {"NONE"} /\ Kept(timers')
  <2>1. CASE OnModemResponse("EVENT", "NONE", v, rx)
    BY <1>2, <1>10, <2>1, ResponseKept
  <2>2. CASE OnModemResponse("TIMEOUT", "NONE", v, rx)
    BY <1>2, <1>10, <2>2, ResponseKept
  <2> QED
    BY <1>1, <2>1, <2>2
<1>12. TimersInv'
  BY <1>1, <1>11 DEF TimersInv, Kept
<1>13. Types' /\ StackInv' /\ LineInv'
  BY <1>1, <1>2, <1>11 DEF Types, StackInv, LineInv
<1> QED
  BY <1>12, <1>13 DEF IInv

LEMMA OtherEndsKeeps ==
  ASSUME IInv, NEW i \in TimerId, OtherEnds(i)
  PROVE  IInv'
<1> DEFINE v == [timers EXCEPT !.running[i] = "free"]
<1>1. /\ timers.running[i] = "other" /\ timers' = v
      /\ UNCHANGED <<baudRate, modemBootState, commandStack, pendingCMD, buffer, rx, phase, changed,
                     started, failed>>
  BY DEF OtherEnds, serial, locals
<1>2. Types /\ StackInv /\ Kept(timers) /\ LineInv /\ timers \in Timers
  BY DEF IInv, TimersInv, Kept, Sound
<1>3. /\ v \in Timers /\ Gsm(v) = Gsm(timers) \ {i} /\ Others(v) = Others(timers) \ {i}
      /\ v.connection = timers.connection /\ v.event = timers.event /\ v.response = timers.response
      /\ v.harmed = timers.harmed
  BY <1>2, FreedIs
<1> HIDE DEF v
<1>4. Gsm(v) = Gsm(timers)
  BY <1>1, <1>3 DEF Gsm
<1>5. Cardinality(Others(v)) <= MaxOther
  <2>1. IsFiniteSet(Others(timers)) /\ Cardinality(Others(timers)) \in 0 .. MaxOther
    BY <1>2, OwnsFew DEF Kept
  <2>2. IsFiniteSet(Others(v)) /\ Cardinality(Others(v)) <= Cardinality(Others(timers))
    BY <1>3, <2>1, FS_Subset
  <2>3. Cardinality(Others(v)) \in Nat
    BY <2>2, FS_CardinalityType
  <2> QED
    BY <2>1, <2>2, <2>3, ModemAssumption
<1>6. Sound(v)
  BY <1>2, <1>3, <1>4, <1>5 DEF Sound, HeldBy, Kept
<1>7. ~failed => Right(v)
  BY <1>2, <1>3, <1>4 DEF Right, HeldBy, Kept
<1>8. TimersInv'
  BY <1>1, <1>6, <1>7 DEF TimersInv, Kept
<1>9. Types' /\ StackInv' /\ LineInv'
  BY <1>1, <1>2, <1>3 DEF Types, StackInv, LineInv
<1> QED
  BY <1>8, <1>9 DEF IInv

LEMMA OtherStartsKeeps ==
  ASSUME IInv, OtherStarts
  PROVE  IInv'
<1> DEFINE f == FreeId(timers)
           v == [timers EXCEPT !.running[f] = "other"]
<1>1. /\ Cardinality(Others(timers)) < MaxOther /\ timers' = v
      /\ UNCHANGED <<baudRate, modemBootState, commandStack, pendingCMD, buffer, rx, phase, changed,
                     started, failed>>
  BY DEF OtherStarts, serial, locals, Others
<1>2. Types /\ StackInv /\ Kept(timers) /\ LineInv /\ timers \in Timers /\ Sound(timers)
  BY DEF IInv, TimersInv, Kept, Sound
<1>3. /\ IsFiniteSet(Others(timers)) /\ Cardinality(Others(timers)) \in Nat
      /\ Cardinality(Gsm(timers)) \in 0 .. 3
  BY <1>2, OwnsFew, ModemAssumption
<1>4. f \in TimerId /\ timers.running[f] = "free"
  <2>1. Cardinality(Gsm(timers)) + Cardinality(Others(timers)) < MaxTimer
    BY <1>1, <1>3, ModemAssumption
  <2> QED
    BY <1>2, <2>1, FewLeaveOne
<1> HIDE DEF f
<1>5. /\ v \in Timers /\ v.running = [timers.running EXCEPT ![f] = "other"]
      /\ v.connection = timers.connection /\ v.event = timers.event /\ v.response = timers.response
      /\ v.harmed = timers.harmed
  BY <1>2, <1>4 DEF Timers
<1>6. timers.running \in [TimerId -> {"free", "gsm", "other"}]
  BY <1>2 DEF Timers
<1> HIDE DEF v
<1>7. Gsm(v) = Gsm(timers) /\ Others(v) = Others(timers) \cup {f}
  BY <1>4, <1>5, <1>6 DEF Gsm, Others
<1>8. Cardinality(Others(v)) <= MaxOther
  <2>1. Cardinality(Others(timers) \cup {f}) \in {Cardinality(Others(timers)), Cardinality(Others(timers)) + 1}
    BY <1>3, FS_AddElement
  <2> QED
    BY <1>1, <1>3, <1>7, <2>1, ModemAssumption
<1>9. Sound(v)
  BY <1>2, <1>5, <1>7, <1>8 DEF Sound, HeldBy
<1>10. ~failed => Right(v)
  BY <1>2, <1>5, <1>7 DEF Right, HeldBy, Kept
<1>11. TimersInv'
  BY <1>1, <1>9, <1>10 DEF TimersInv, Kept
<1>12. Types' /\ StackInv' /\ LineInv'
  BY <1>1, <1>2, <1>5 DEF Types, StackInv, LineInv
<1> QED
  BY <1>11, <1>12 DEF IInv

LEMMA InitHolds == Init => IInv
<1> SUFFICES ASSUME Init PROVE IInv
  OBVIOUS
<1>1. timers \in Timers /\ \A i \in TimerId : timers.running[i] = "free"
  BY ModemAssumption DEF Init, Timers
<1>2. Gsm(timers) = {} /\ Others(timers) = {}
  BY <1>1 DEF Gsm, Others
<1>3. HeldBy(timers) = {} /\ timers.connection = 0 /\ timers.event = 0 /\ timers.harmed = FALSE
  BY DEF Init, HeldBy
<1>4. Sound(timers) /\ Right(timers)
  BY <1>1, <1>2, <1>3, FS_EmptySet, ModemAssumption DEF Sound, Right
<1>5. Types
  <2>1. rx \in Seq(Piece) /\ started \in 0 .. MaxStarts
    BY ModemAssumption DEF Init
  <2> QED
    BY <2>1 DEF Init, Types, BaudRate, BootState
<1>6. StackInv /\ LineInv
  BY ModemAssumption DEF Init, StackInv, LineInv
<1> QED
  BY <1>4, <1>5, <1>6 DEF IInv, TimersInv, Kept

LEMMA NextKeeps == IInv /\ [Next]_vars => IInv'
<1> SUFFICES ASSUME IInv, [Next]_vars PROVE IInv'
  OBVIOUS
<1>1. CASE LoopRead
  BY <1>1, LoopReadKeeps
<1>2. CASE LoopTail
  BY <1>2, LoopTailKeeps
<1>3. CASE Prompt
  BY <1>3, PromptKeeps
<1>4. ASSUME NEW baud \in BaudRate, StartModem(baud) PROVE IInv'
  BY <1>4, StartModemKeeps
<1>5. ASSUME NEW c \in Command, AddCommand(c) PROVE IInv'
  BY <1>5, AddCommandKeeps
<1>6. ASSUME NEW c \in Command, ForceCommand(c) PROVE IInv'
  BY <1>6, ForceCommandKeeps
<1>7. CASE OtherStarts
  BY <1>7, OtherStartsKeeps
<1>8. ASSUME NEW i \in TimerId, OtherEnds(i) PROVE IInv'
  BY <1>8, OtherEndsKeeps
<1>9. ASSUME NEW p \in Piece, Receive(p) PROVE IInv'
  BY <1>9, ReceiveKeeps
<1>10. ASSUME NEW i \in TimerId, TimerCompletes(i) PROVE IInv'
  BY <1>10, ConnectionFailsKeeps, EventTimesOutKeeps, ResponseTimesOutKeeps DEF TimerCompletes
<1>11. CASE UNCHANGED vars
  <2>1. Types' /\ StackInv'
    BY <1>11 DEF vars, serial, locals, IInv, Types, StackInv
  <2> QED
    BY <1>11, <2>1, TheRestKeeps DEF vars, serial, locals
<1> QED
  BY <1>1, <1>2, <1>3, <1>4, <1>5, <1>6, <1>7, <1>8, <1>9, <1>10, <1>11
     DEF Next, Loop, Clients, World

LEMMA Invariance == Spec => []IInv
BY InitHolds, NextKeeps, PTL DEF Spec

-----------------------------------------------------------------------------
(* Theorems                                                                *)

LEMMA IInvIsIds == IInv => IdsAreTimers
<1> SUFFICES ASSUME IInv PROVE IdsAreTimers
  OBVIOUS
<1>1. TypeOK
  BY DEF IInv, Types, StackInv, TimersInv, Kept, Sound, Timers, TypeOK
<1>2. ASSUME ~failed
      PROVE  /\ Held = {i \in TimerId : timers.running[i] = "gsm"}
             /\ \A f, g \in {"connection", "event", "response"} :
                  timers[f] = timers[g] /\ timers[f] # 0 => f = g
             /\ ~timers.harmed
  <2>1. Sound(timers) /\ Right(timers)
    BY <1>2 DEF IInv, TimersInv, Kept
  <2>2. Held = {i \in TimerId : timers.running[i] = "gsm"}
    BY <2>1 DEF Sound, Right, HeldBy, Held, Gsm
  <2>3. /\ timers.connection # 0 => timers.connection # timers.event /\ timers.connection # timers.response
        /\ timers.event # 0 => timers.event # timers.response
    BY <2>1 DEF Right
  <2>4. ASSUME NEW f \in {"connection", "event", "response"},
               NEW g \in {"connection", "event", "response"}, timers[f] = timers[g], timers[f] # 0
        PROVE  f = g
    BY <2>3, <2>4
  <2>5. ~timers.harmed
    BY <2>1 DEF Right
  <2> QED
    BY <2>2, <2>4, <2>5
<1> QED
  BY <1>1, <1>2 DEF IdsAreTimers

\* Until a connection has failed, the ids the handler holds are those of its running
\* timers, each in one field, and it has stopped nobody else's (OnTimerComplete,
\* OnTimerStop and the calls of Stop and Start in the three classes).
THEOREM IdsAreKept == Spec => []IdsAreTimers
BY Invariance, IInvIsIds, PTL

\* Half a line outside a command has a timer that throws it away
\* (GSMSerialModem::Loop), so it never blocks the commands for good.
THEOREM HalfLineHasTimer == Spec => []HalfLineIsTimed
<1>1. IInv => HalfLineIsTimed
  BY DEF IInv, LineInv, HalfLineIsTimed
<1> QED
  BY <1>1, Invariance, PTL

\* A step takes a command from the stack only to put it on the line: Loop's test and
\* the one in Send agree.  StartModem alone empties the stack (Flush).
THEOREM CommandsAreSent == Spec => NothingDropped
<1> DEFINE Sent ==
      commandStack' # commandStack /\ Len(commandStack') < Len(commandStack) /\ started' = started
        => pendingCMD = "NONE" /\ <<pendingCMD'>> \o commandStack' = commandStack
<1>1. IInv /\ [Next]_vars => [Sent]_vars
  <2> SUFFICES ASSUME IInv, [Next]_vars PROVE Sent
    OBVIOUS
  <2>0. commandStack \in Seq(Command) /\ started \in Nat
    BY ModemAssumption DEF IInv, StackInv, Types
  <2>1. CASE LoopTail
    <3>1. \/ /\ pendingCMD = "NONE" /\ commandStack # <<>> /\ pendingCMD' = Head(commandStack)
             /\ commandStack' = Tail(commandStack)
          \/ commandStack' = commandStack
      BY <2>1, LoopTailIs
    <3>2. ASSUME commandStack # <<>> PROVE <<Head(commandStack)>> \o Tail(commandStack) = commandStack
      BY <2>0, <3>2
    <3> QED
      BY <3>1, <3>2
  <2>2. ASSUME NEW baud \in BaudRate, StartModem(baud) PROVE Sent
    BY <2>0, <2>2 DEF StartModem
  <2>3. ASSUME NEW c \in Command, AddCommand(c) PROVE Sent
    BY <2>0, <2>3 DEF AddCommand
  <2>4. ASSUME NEW c \in Command, ForceCommand(c) PROVE Sent
    <3>1. commandStack' = <<c>> \o commandStack
      BY <2>4 DEF ForceCommand
    <3>2. Len(<<c>> \o commandStack) = 1 + Len(commandStack)
      BY <2>0
    <3> QED
      BY <2>0, <3>1, <3>2
  <2>5. CASE LoopRead
    BY <2>5 DEF LoopRead
  <2>6. CASE Prompt
    BY <2>6 DEF Prompt
  <2>7. CASE OtherStarts
    BY <2>7 DEF OtherStarts
  <2>8. ASSUME NEW i \in TimerId, OtherEnds(i) PROVE Sent
    BY <2>8 DEF OtherEnds
  <2>9. ASSUME NEW p \in Piece, Receive(p) PROVE Sent
    BY <2>9 DEF Receive
  <2>10. ASSUME NEW i \in TimerId, TimerCompletes(i) PROVE Sent
    BY <2>10 DEF TimerCompletes
  <2>11. CASE UNCHANGED vars
    BY <2>11 DEF vars
  <2> HIDE DEF Sent
  <2> QED
    BY <2>1, <2>2, <2>3, <2>4, <2>5, <2>6, <2>7, <2>8, <2>9, <2>10, <2>11
       DEF Next, Loop, Clients, World
<1> QED
  BY <1>1, Invariance, PTL DEF Spec, NothingDropped

=============================================================================
