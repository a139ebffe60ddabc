--------------------------- MODULE StandaloneProofs ---------------------------
(***************************************************************************)
(* The components that nobody but a timer or a caller drives: the clock    *)
(* and the status chain for every width of micros(), every length of a     *)
(* second, of a round and of a run; the battery watch for every set of     *)
(* voltages and currents; the phone book for every name, every line and    *)
(* every size of the arrays.                                               *)
(***************************************************************************)
EXTENDS MainLoop, BatteryMonitor, PhoneBook,
        FiniteSetTheorems, SequenceTheorems, WellFoundedInduction, TLAPS

\* Differences and sums in the range of a counter, without its wrap.
LEMMA Difference ==
  ASSUME NEW m \in Nat \ {0}, NEW a \in 0 .. m - 1, NEW b \in 0 .. m - 1
  PROVE  (a - b) % m = IF a >= b THEN a - b ELSE a - b + m
OBVIOUS

LEMMA Sum ==
  ASSUME NEW m \in Nat \ {0}, NEW a \in 0 .. m - 1, NEW k \in 0 .. m - 1
  PROVE  (a + k) % m = IF a + k < m THEN a + k ELSE a + k - m
OBVIOUS

LEMMA ModRange ==
  ASSUME NEW m \in Nat \ {0}, NEW a \in Int
  PROVE  a % m \in 0 .. m - 1
OBVIOUS

\* The whole seconds of a count of ticks.
LEMMA Whole ==
  ASSUME NEW m \in Nat \ {0}, NEW d \in Nat
  PROVE  /\ d \div m \in Nat
         /\ (d \div m) * m <= d
         /\ d < (d \div m) * m + m
OBVIOUS

LEMMA WholeShift ==
  ASSUME NEW m \in Nat \ {0}, NEW d \in Nat, NEW k \in Int
  PROVE  (k * m + d) \div m = k + d \div m
OBVIOUS

S == MICROS_IN_SECOND

\* Ticks since the last second that was counted.
Lag == (micros - syncMicroTS) % ClockMod

\* The clock is behind by its lag, which a round of the loop cannot let grow to
\* the range of micros(); the start likewise, but for what updates have lost.
ClockInv ==
  /\ Lag \in Nat /\ Lag <= S - 1 + frame
  /\ age = (currentTimeStamp - setTo) * S + Lag
  /\ (currentTimeStamp - launchTimeStamp) * S + Lag <= elapsed
  /\ elapsed <= (currentTimeStamp - launchTimeStamp) * S + Lag
                  + updates * (S - 1 + MaxFrame)

\* While a chain runs and no change of the link went unseen, its user is the
\* one connected, and the handler's second read of the pin will find that.
ChainInv ==
  statsTimer # "NONE" /\ ~missed =>
    client = asker /\ isDebugEnabled /\ (pc = "take" => btPinState)

IInv == TypeOK /\ ClockInv /\ ChainInv /\ OneClientPerChain

\* What the other lemmas use of the constants.
LEMMA Constants ==
  /\ S \in Nat \ {0} /\ ClockMod \in Nat \ {0} /\ MaxFrame \in Nat
  /\ S + MaxFrame <= ClockMod
BY MainLoopAssumption DEF S

\* One more tick makes the lag one more, also across the wrap of micros().
LEMMA LagTick ==
  ASSUME NEW m \in Nat \ {0}, NEW a \in 0 .. m - 1, NEW b \in 0 .. m - 1,
         (a - b) % m < m - 1
  PROVE  (((a + 1) % m) - b) % m = ((a - b) % m) + 1
<1>1. CASE m = 1
  BY <1>1, Difference
<1>2. CASE m > 1
  <2> DEFINE n == (a + 1) % m
  <2>1. 1 \in 0 .. m - 1
    BY <1>2
  <2>2. n = IF a + 1 < m THEN a + 1 ELSE a + 1 - m
    BY <2>1, Sum
  <2>3. n \in 0 .. m - 1
    BY <2>2
  <2>4. /\ (n - b) % m = IF n >= b THEN n - b ELSE n - b + m
        /\ (a - b) % m = IF a >= b THEN a - b ELSE a - b + m
    BY <2>3, Difference
  <2> HIDE DEF n
  <2>5. (n - b) % m = ((a - b) % m) + 1
    BY <2>2, <2>3, <2>4
  <2> QED BY <2>5 DEF n
<1> QED BY <1>1, <1>2

\* Moving the base by k ticks makes the lag k less.
LEMMA LagMove ==
  ASSUME NEW m \in Nat \ {0}, NEW a \in 0 .. m - 1, NEW b \in 0 .. m - 1,
         NEW k \in Nat, k <= (a - b) % m
  PROVE  (a - ((b + k) % m)) % m = ((a - b) % m) - k
<1>1. (a - b) % m = IF a >= b THEN a - b ELSE a - b + m
  BY Difference
<1>2. k \in 0 .. m - 1
  BY <1>1
<1> DEFINE n == (b + k) % m
<1>3. n = IF b + k < m THEN b + k ELSE b + k - m
  BY <1>2, Sum
<1>4. n \in 0 .. m - 1
  BY <1>2, <1>3
<1>5. (a - n) % m = IF a >= n THEN a - n ELSE a - n + m
  BY <1>4, Difference
<1> HIDE DEF n
<1>6. (a - n) % m = ((a - b) % m) - k
  BY <1>1, <1>3, <1>4, <1>5
<1> QED BY <1>6 DEF n

\* The initial states satisfy the invariant.
LEMMA InitInv == Init => IInv
<1> SUFFICES ASSUME Init PROVE IInv
  OBVIOUS
<1>1. TypeOK
  <2>1. client \in 0 .. MaxClients /\ asker \in 0 .. client
    BY MainLoopAssumption DEF Init
  <2>2. 0 \in 0 .. (ClockMod - 1)
    BY Constants
  <2>3. btPinState => client # 0
    BY DEF Init
  <2>4. /\ btPinState \in BOOLEAN /\ isDebugEnabled \in BOOLEAN
        /\ missed \in BOOLEAN
    BY DEF Init
  <2>5. /\ elapsed \in 0 .. Horizon /\ frame \in 0 .. MaxFrame
        /\ age \in 0 .. elapsed /\ updates \in 0 .. MaxUpdates
        /\ given \subseteq 1 .. client
    BY MainLoopAssumption DEF Init
  <2>6. /\ micros \in 0 .. (ClockMod - 1) /\ syncMicroTS \in 0 .. (ClockMod - 1)
        /\ currentTimeStamp \in Nat /\ launchTimeStamp \in Int
        /\ pc \in {"timers", "look", "take", "late"}
        /\ statsTimer \in {"NONE", "BAT", "DEV"}
        /\ setTo \in NetTime \union {0}
    BY <2>2 DEF Init
  <2> QED BY <2>1, <2>3, <2>4, <2>5, <2>6 DEF TypeOK
<1>2. ClockInv
  <2>1. Lag = 0
    BY Constants, Difference DEF Init, Lag
  <2> QED BY <2>1, Constants DEF Init, ClockInv
<1>3. ChainInv /\ OneClientPerChain
  BY DEF Init, ChainInv, OneClientPerChain
<1> QED BY <1>1, <1>2, <1>3 DEF IInv

\* What SendStat leaves behind.
LEMMA SendTypes ==
  ASSUME TypeOK, NEW part \in Part, NEW enabled \in BOOLEAN,
         SendStat(part, enabled)
  PROVE  /\ statsTimer' \in {"NONE", "BAT", "DEV"}
         /\ asker' \in 0 .. client /\ given' \subseteq 1 .. client
<1>1. NextPart[part] \in {"NONE", "BAT", "DEV"}
  BY DEF NextPart, Part
<1>2. btPinState => client \in 1 .. client
  BY MainLoopAssumption DEF TypeOK
<1>3. statsTimer' \in {"NONE", "BAT", "DEV"}
  BY <1>1 DEF SendStat
<1>4. asker' \in 0 .. client
  BY MainLoopAssumption DEF SendStat, TypeOK
<1>5. given' \subseteq 1 .. client
  BY <1>2 DEF SendStat, TypeOK
<1> QED BY <1>3, <1>4, <1>5

\* Every step keeps the types.
LEMMA TypeStep == TypeOK /\ Next => TypeOK'
<1> SUFFICES ASSUME TypeOK, Next PROVE TypeOK'
  OBVIOUS
<1>1. CASE Tick
  <2>1. micros' \in 0 .. ClockMod - 1
    BY <1>1, Constants, ModRange DEF Tick, TypeOK
  <2> QED BY <1>1, <2>1, MainLoopAssumption DEF Tick, TypeOK, clock, link, chain
<1>2. CASE UpdateSystemTime
  BY <1>2, MainLoopAssumption
  DEF UpdateSystemTime, SetTime, TypeOK, link, chain
<1>3. CASE LateLoop
  <2>1. SecondsSinceUpdate \in Nat
    <3>1. (micros - syncMicroTS) % ClockMod \in Nat
      BY Constants, ModRange DEF TypeOK
    <3> QED BY <3>1, Constants, Whole DEF SecondsSinceUpdate, S
  <2>2. syncMicroTS' \in 0 .. ClockMod - 1
    <3>1. syncMicroTS + SecondsSinceUpdate * MICROS_IN_SECOND \in Int
      BY <2>1, Constants DEF TypeOK, S
    <3> QED BY <1>3, <3>1, Constants, ModRange DEF LateLoop, MoveSync
  <2> QED BY <1>3, <2>1, <2>2, Constants DEF LateLoop, TypeOK, link, chain
<1>4. CASE BtState
  <2>1. client' \in 0 .. MaxClients /\ client <= client' /\ (btPinState' => client' # 0)
    BY <1>4, MainLoopAssumption DEF BtState, TypeOK
  <2>2. btPinState' \in BOOLEAN /\ missed' \in BOOLEAN
    BY <1>4 DEF BtState, Unseen, TypeOK
  <2>3. asker' \in 0 .. client' /\ given' \subseteq 1 .. client'
    BY <1>4, <2>1, MainLoopAssumption DEF BtState, TypeOK, chain
  <2> QED BY <1>4, <2>1, <2>2, <2>3 DEF BtState, TypeOK, time, clock, chain
<1>5. CASE StatsTimerCompletes
  <2>1. SendStat(statsTimer, isDebugEnabled) /\ statsTimer \in Part
    BY <1>5 DEF StatsTimerCompletes, TypeOK, Part
  <2> QED BY <1>5, <2>1, SendTypes
          DEF StatsTimerCompletes, TypeOK, time, clock, link
<1>6. CASE TimersLoop
  BY <1>6 DEF TimersLoop, TypeOK, time, clock, link, chain
<1>7. CASE Look
  BY <1>7 DEF Look, LookStops, TypeOK, time, clock, link
<1>8. CASE Take
  <2>1. isDebugEnabled' \in BOOLEAN /\ missed' \in BOOLEAN
    BY <1>8 DEF Take, TypeOK
  <2>2. /\ statsTimer' \in {"NONE", "BAT", "DEV"}
        /\ asker' \in 0 .. client /\ given' \subseteq 1 .. client
    BY <1>8, SendTypes DEF Take, TypeOK, chain, Part
  <2> QED BY <1>8, <2>1, <2>2 DEF Take, TypeOK, time, clock, link
<1> QED BY <1>1, <1>2, <1>3, <1>4, <1>5, <1>6, <1>7, <1>8 DEF Next

\* Every step keeps the status chain with its user.
LEMMA ChainStep ==
  TypeOK /\ ChainInv /\ OneClientPerChain /\ Next
    => ChainInv' /\ OneClientPerChain'
<1> SUFFICES ASSUME TypeOK, ChainInv, OneClientPerChain, Next
             PROVE  ChainInv' /\ OneClientPerChain'
  OBVIOUS
<1> USE DEF ChainInv, OneClientPerChain
<1>1. CASE Tick \/ UpdateSystemTime \/ LateLoop
  BY <1>1 DEF Tick, UpdateSystemTime, LateLoop, link, chain
<1>2. CASE BtState
  BY <1>2 DEF BtState, Unseen, TypeOK, time, chain
<1>3. CASE StatsTimerCompletes
  BY <1>3 DEF StatsTimerCompletes, SendStat, NextPart, Part, TypeOK, link
<1>4. CASE TimersLoop
  BY <1>4 DEF TimersLoop, link, chain
<1>5. CASE Look
  BY <1>5 DEF Look, LookStops, TypeOK, link
<1>6. CASE Take
  BY <1>6 DEF Take, SendStat, NextPart, Part, TypeOK, link, chain
<1> QED BY <1>1, <1>2, <1>3, <1>4, <1>5, <1>6 DEF Next

\* What the clock is made of, as numbers.
LEMMA ClockTypes ==
  ASSUME TypeOK
  PROVE  /\ micros \in 0 .. (ClockMod - 1) /\ syncMicroTS \in 0 .. (ClockMod - 1)
         /\ currentTimeStamp \in Int /\ launchTimeStamp \in Int
         /\ setTo \in Int /\ age \in Nat /\ elapsed \in Nat
         /\ frame \in 0 .. MaxFrame /\ updates \in Nat
BY MainLoopAssumption DEF TypeOK

\* Every step keeps the clock with the time.
LEMMA ClockStep == TypeOK /\ ClockInv /\ Next => ClockInv'
<1> SUFFICES ASSUME TypeOK, ClockInv, Next PROVE ClockInv'
  OBVIOUS
<1> DEFINE base == currentTimeStamp - launchTimeStamp
           K == S - 1 + MaxFrame
<1>0. base \in Int /\ K \in Nat /\ Lag \in Nat
  BY Constants, ClockTypes DEF ClockInv
<1>1. CASE Tick
  <2>1. Lag' = Lag + 1
    <3>1. Lag < ClockMod - 1
      BY <1>1, Constants, ClockTypes DEF Tick, ClockInv
    <3>2. (((micros + 1) % ClockMod) - syncMicroTS) % ClockMod
            = ((micros - syncMicroTS) % ClockMod) + 1
      BY <3>1, Constants, ClockTypes, LagTick DEF Lag
    <3> QED BY <1>1, <3>2 DEF Tick, Lag, clock
  <2> QED BY <1>1, <2>1, Constants, ClockTypes DEF Tick, ClockInv, clock
<1>2. CASE UpdateSystemTime
  <2>1. PICK t \in NetTime : SetTime(t) /\ setTo' = t
    BY <1>2 DEF UpdateSystemTime
  <2>2. t \in Int
    BY MainLoopAssumption
  <2>3. Lag' = 0
    <3>1. (micros - micros) % ClockMod = 0
      BY Constants, ClockTypes, Difference
    <3> QED BY <1>2, <2>1, <3>1 DEF UpdateSystemTime, SetTime, Lag
  <2>4. currentTimeStamp' - launchTimeStamp' = base /\ currentTimeStamp' - setTo' = 0
    BY <2>1, <2>2, ClockTypes DEF SetTime
  <2>5. updates' * K = updates * K + K
    BY <1>2, <1>0, ClockTypes DEF UpdateSystemTime
  <2>6. age' = 0 /\ elapsed' = elapsed /\ frame' = frame
    BY <1>2 DEF UpdateSystemTime
  <2>7. 0 * S = 0 /\ base * S \in Int /\ updates * K \in Int
    BY <1>0, Constants, ClockTypes
  <2>8. Lag <= K
    BY Constants, ClockTypes DEF ClockInv
  <2> HIDE DEF base, K
  <2>9. /\ base * S + 0 <= elapsed
        /\ elapsed <= base * S + 0 + (updates * K + K)
    <3>1. base * S + Lag <= elapsed /\ elapsed <= base * S + Lag + updates * K
      BY DEF ClockInv, base, K
    <3> QED BY <3>1, <1>0, <2>7, <2>8, ClockTypes
  <2>10. K' = K
    BY DEF K
  <2> QED BY <2>3, <2>4, <2>5, <2>6, <2>7, <2>9, <2>10, Constants, ClockTypes
          DEF ClockInv, K
<1>3. CASE LateLoop
  <2> DEFINE s == Lag \div S
  <2>1. SecondsSinceUpdate = s
    BY DEF SecondsSinceUpdate, Lag, S
  <2>2. s \in Nat /\ s * S <= Lag /\ Lag < s * S + S /\ s * S \in Nat
    BY <1>0, Constants, Whole
  <2> HIDE DEF s
  <2>3. Lag' = Lag - s * S
    <3>1. syncMicroTS' = (syncMicroTS + s * S) % ClockMod /\ micros' = micros
      BY <1>3, <2>1 DEF LateLoop, MoveSync, S
    <3>2. (micros - ((syncMicroTS + s * S) % ClockMod)) % ClockMod
            = ((micros - syncMicroTS) % ClockMod) - s * S
      <4> DEFINE k == s * S
      <4>1. k \in Nat /\ k <= (micros - syncMicroTS) % ClockMod
        BY <2>2 DEF Lag
      <4> HIDE DEF k
      <4>2. (micros - ((syncMicroTS + k) % ClockMod)) % ClockMod
              = ((micros - syncMicroTS) % ClockMod) - k
        BY <4>1, Constants, ClockTypes, LagMove
      <4> QED BY <4>2 DEF k
    <3> QED BY <3>1, <3>2 DEF Lag
  <2>4. currentTimeStamp' = currentTimeStamp + s
    BY <1>3, <2>1 DEF LateLoop
  <2>5. /\ (currentTimeStamp' - setTo) * S = (currentTimeStamp - setTo) * S + s * S
        /\ (currentTimeStamp' - launchTimeStamp) * S = base * S + s * S
        /\ (currentTimeStamp - setTo) * S \in Int /\ base * S \in Int
        /\ updates * K \in Int
    BY <1>0, <2>2, <2>4, Constants, ClockTypes
  <2>6. /\ launchTimeStamp' = launchTimeStamp /\ setTo' = setTo /\ age' = age
        /\ elapsed' = elapsed /\ updates' = updates /\ frame' = 0
    BY <1>3 DEF LateLoop
  <2> DEFINE A == (currentTimeStamp - setTo) * S
             B == base * S
             U == updates * K
             D == s * S
  <2>7. /\ age = A + Lag /\ B + Lag <= elapsed /\ elapsed <= B + Lag + U
    BY DEF ClockInv
  <2> HIDE DEF A, B, U, D
  <2>8. /\ age = (A + D) + (Lag - D)
        /\ (B + D) + (Lag - D) <= elapsed
        /\ elapsed <= (B + D) + (Lag - D) + U
        /\ Lag - D \in Nat /\ Lag - D <= S - 1
    BY <1>0, <2>2, <2>5, <2>7, Constants, ClockTypes DEF A, B, D, U
  <2> QED BY <2>3, <2>5, <2>6, <2>8, Constants DEF ClockInv, A, B, D, U
<1>4. CASE ~(Tick \/ UpdateSystemTime \/ LateLoop)
  <2>1. UNCHANGED <<time, frame>>
    BY <1>4 DEF Next, BtState, StatsTimerCompletes, TimersLoop, Look, Take
  <2> QED BY <2>1 DEF ClockInv, Lag, time, clock
<1> QED BY <1>1, <1>2, <1>3, <1>4

\* The invariant holds in every reachable state.
LEMMA InvHolds == Spec => []IInv
<1>1. IInv /\ [Next]_vars => IInv'
  <2> SUFFICES ASSUME IInv, [Next]_vars PROVE IInv'
    OBVIOUS
  <2>1. CASE Next
    BY <2>1, TypeStep, ClockStep, ChainStep DEF IInv
  <2>2. CASE UNCHANGED vars
    BY <2>2 DEF IInv, TypeOK, ClockInv, Lag, ChainInv, OneClientPerChain, vars,
                time, clock, link, chain
  <2> QED BY <2>1, <2>2
<1> QED BY <1>1, InitInv, PTL DEF Spec

\* The clock is the time last told and the whole seconds since, for every
\* width of micros() that a second and a round of the loop fit into
\* (TimeManager::GetUtcTime, LateLoop, UpdateSystemTime).
THEOREM UtcHolds == Spec => []UtcFollows
<1>1. IInv => UtcFollows
  <2> SUFFICES ASSUME IInv PROVE UtcFollows
    OBVIOUS
  <2>1. TypeOK /\ ClockInv
    BY DEF IInv
  <2>2. currentTimeStamp - setTo \in Int /\ Lag \in Nat
    BY <2>1, ClockTypes DEF ClockInv
  <2>3. age \div S = (currentTimeStamp - setTo) + Lag \div S
    BY <2>1, <2>2, Constants, WholeShift DEF ClockInv
  <2>4. Lag \div S \in Nat
    BY <2>2, Constants, Whole
  <2> QED BY <2>1, <2>3, <2>4, ClockTypes
          DEF UtcFollows, GetUtcTime, SecondsSinceUpdate, Lag, S
<1> QED BY <1>1, InvHolds, PTL

\* The online time is the time since the start, less a second and a round of
\* the loop at most for each update (TimeManager::GetOnlineSeconds).
THEOREM OnlineHolds == Spec => []OnlineIsElapsed
<1>1. IInv => OnlineIsElapsed
  <2> SUFFICES ASSUME IInv PROVE OnlineIsElapsed
    OBVIOUS
  <2> DEFINE base == currentTimeStamp - launchTimeStamp
             s == Lag \div S
             U == updates * (S - 1 + MaxFrame)
  <2>1. TypeOK /\ ClockInv
    BY DEF IInv
  <2>2. base \in Int /\ Lag \in Nat /\ U \in Int /\ base * S \in Int
    BY <2>1, Constants, ClockTypes DEF ClockInv
  <2>3. s \in Nat /\ s * S <= Lag /\ Lag < s * S + S /\ s * S \in Nat
    BY <2>2, Constants, Whole
  <2>4. base * S + Lag <= elapsed /\ elapsed <= base * S + Lag + U
    BY <2>1 DEF ClockInv
  <2>5. GetOnlineSeconds = base + s
    BY <2>1, <2>3, ClockTypes
    DEF GetOnlineSeconds, GetUtcTime, SecondsSinceUpdate, Lag, S
  <2> HIDE DEF base, s, U
  <2>6. /\ (base + s) * S = base * S + s * S
        /\ (base + s + 1) * S = base * S + s * S + S
    BY <2>2, <2>3, Constants
  <2>7. /\ (base + s) * S <= elapsed
        /\ elapsed < (base + s + 1) * S + U
    BY <2>1, <2>2, <2>3, <2>4, <2>6, Constants, ClockTypes
  <2> QED BY <2>5, <2>7 DEF OnlineIsElapsed, U, S
<1> QED BY <1>1, InvHolds, PTL

\* The parts of one status go to the user who was there when it began, unless
\* a change of the link went unseen (BluetoothSerialHandler::SendStat, Loop).
THEOREM OneClientHolds == Spec => []OneClientPerChain
<1>1. IInv => OneClientPerChain
  BY DEF IInv
<1> QED BY <1>1, InvHolds, PTL

-----------------------------------------------------------------------------
(* The battery watch, which the loop drives through Timer alone.  Its      *)
(* count of agreeing samples is honest (CountIsOfLatest); the action       *)
(* properties read it off at the step that changes the level.              *)

BatteryInv == BMTypeOK /\ CountIsOfLatest

\* CalcVoltage of two measured values is an integer.
LEMMA CalcType ==
  ASSUME NEW v \in Nat, NEW p \in Nat
  PROVE  CalcVoltage(v, p) \in Int
<1>1. Ampers(p) \div 10 \in Int
  <2>1. Ampers(p) \in Int
    BY DEF Ampers
  <2> QED BY <2>1
<1>2. v + Ampers(p) \div 10 \in Int
  BY <1>1
<1> QED BY <1>2 DEF CalcVoltage

\* HandleAttempt either changes the level, with the third sample in the count, or
\* counts one more.
LEMMA AttemptCases ==
  ASSUME BMTypeOK, NEW l \in Level, HandleAttempt(l)
  PROVE  /\ matchState' = l
         /\ \/ /\ currentState' = l /\ matchedAttempts' = 0 /\ report' = l
               /\ matchState = l /\ matchedAttempts = 2
            \/ /\ currentState' = currentState /\ report' = NoReport
               /\ matchedAttempts' \in {1, 2}
               /\ matchedAttempts' # 1 => matchState = l /\ matchedAttempts' = matchedAttempts + 1
BY BatteryAssumption DEF BMTypeOK, HandleAttempt

\* A step is one of three: an attempt for another level, which the sample speaks
\* for; no attempt, which keeps the count; or none, which clears it.
LEMMA StepCases ==
  ASSUME BMTypeOK, NEW v \in Int, OnVoltageMeasured(v)
  PROVE  \/ \E l \in Level :
              /\ HandleAttempt(l)
              /\ SpeaksFor(v, l)
              /\ l # currentState
              /\ IF currentState = NORMAL_LEVEL THEN l \in {LOW_LEVEL, OVERFLOW_LEVEL}
                 ELSE l \in {NORMAL_LEVEL, GetNextState(currentState)}
         \/ NoAttempt /\ currentState \notin {LOW_LEVEL, CRITICAL_LEVEL}
         \/ /\ matchedAttempts' = 0 /\ matchState' = currentState
            /\ report' = NoReport /\ UNCHANGED currentState
<1> USE DEF Level, DEAD_LEVEL, CRITICAL_LEVEL, LOW_LEVEL, NORMAL_LEVEL, CHARGE_LEVEL,
    OVERFLOW_LEVEL
<1>1. CASE AtTheEnd(v)
  <2>1. currentState \in {DEAD_LEVEL, OVERFLOW_LEVEL}
    BY <1>1 DEF AtTheEnd, GetNextState, BMTypeOK
  <2>2. CASE IsNormalized(v)
    BY <1>1, <2>1, <2>2 DEF AtTheEnd, SpeaksFor
  <2>3. CASE ~IsNormalized(v)
    BY <1>1, <2>1, <2>3 DEF AtTheEnd
  <2> QED BY <2>2, <2>3
<1>2. CASE AtNormal(v)
  <2>1. CASE v >= GetStateVoltage[OVERFLOW_LEVEL]
    BY <1>2, <2>1 DEF AtNormal, SpeaksFor
  <2>2. CASE /\ ~(v >= GetStateVoltage[OVERFLOW_LEVEL])
             /\ v <= GetStateVoltage[LOW_LEVEL]
    BY <1>2, <2>2 DEF AtNormal, SpeaksFor
  <2>3. CASE /\ ~(v >= GetStateVoltage[OVERFLOW_LEVEL])
             /\ ~(v <= GetStateVoltage[LOW_LEVEL])
    BY <1>2, <2>3 DEF AtNormal
  <2> QED BY <2>1, <2>2, <2>3
<1>3. CASE OnTheWayDown(v)
  <2> DEFINE n == GetNextState(currentState)
  <2>1. /\ currentState \in {CRITICAL_LEVEL, LOW_LEVEL}
        /\ n \in Level /\ n # currentState /\ n # OVERFLOW_LEVEL /\ n # NORMAL_LEVEL
    BY <1>3 DEF OnTheWayDown, GetNextState, BMTypeOK
  <2>2. CASE v <= GetStateVoltage[n]
    <3>1. HandleAttempt(n)
      BY <1>3, <2>2 DEF OnTheWayDown
    <3>2. SpeaksFor(v, n)
      BY <2>1, <2>2 DEF SpeaksFor
    <3> QED BY <2>1, <3>1, <3>2
  <2>3. CASE ~(v <= GetStateVoltage[n]) /\ IsNormalized(v)
    <3>1. HandleAttempt(NORMAL_LEVEL) /\ SpeaksFor(v, NORMAL_LEVEL)
      BY <1>3, <2>3 DEF OnTheWayDown, SpeaksFor
    <3> QED BY <2>1, <3>1
  <2>4. CASE ~(v <= GetStateVoltage[n]) /\ ~IsNormalized(v)
    BY <1>3, <2>4 DEF OnTheWayDown
  <2> QED BY <2>2, <2>3, <2>4
<1> QED BY <1>1, <1>2, <1>3 DEF OnVoltageMeasured

LEMMA BatteryInitInv ==
  ASSUME BMInit
  PROVE  BatteryInv
<1>1. recent \in Seq(Int) /\ Len(recent) = 0
  BY DEF BMInit
<1>2. 0 \in 0 .. matchRequire - 1
  BY BatteryAssumption
<1> QED BY <1>1, <1>2 DEF BMInit, BatteryInv, BMTypeOK, CountIsOfLatest, Level,
    NoReport, DEAD_LEVEL, CRITICAL_LEVEL, LOW_LEVEL, NORMAL_LEVEL, CHARGE_LEVEL,
    OVERFLOW_LEVEL

LEMMA RecentLength ==
  ASSUME BMTypeOK
  PROVE  Len(recent) \in {0, 1, 2}
<1>1. recent \in Seq(Int) /\ Len(recent) <= 2
  BY DEF BMTypeOK
<1>2. Len(recent) \in Nat
  BY <1>1
<1>3. \A n \in Nat : n <= 2 => n \in {0, 1, 2}
  OBVIOUS
<1> QED BY <1>1, <1>2, <1>3

\* What Remember leaves: nothing after a change, else the sample at the end.
LEMMA RememberCases ==
  ASSUME BMTypeOK, NEW v \in Int, Remember(v)
  PROVE  /\ recent' \in Seq(Int) /\ Len(recent') <= 2
         /\ currentState' # currentState => recent' = <<>>
         /\ currentState' = currentState =>
              \/ Len(recent) = 0 /\ Len(recent') = 1 /\ recent'[1] = v
              \/ Len(recent) = 1 /\ Len(recent') = 2 /\ recent'[1] = recent[1] /\ recent'[2] = v
              \/ Len(recent) = 2 /\ Len(recent') = 2 /\ recent'[1] = recent[2] /\ recent'[2] = v
<1>1. recent \in Seq(Int) /\ Len(recent) \in {0, 1, 2}
  BY RecentLength DEF BMTypeOK
<1>2. CASE currentState' # currentState
  BY <1>2 DEF Remember
<1>3. CASE currentState' = currentState /\ Len(recent) < 2
  BY <1>1, <1>3 DEF Remember
<1>4. CASE currentState' = currentState /\ Len(recent) = 2
  <2>1. recent[2] \in Int
    <3>1. recent \in Seq(Int) /\ 2 \in 1 .. Len(recent)
      BY <1>1, <1>4
    <3> QED BY <3>1, ElementOfSeq
  <2>2. recent' = <<recent[2], v>>
    BY <1>4 DEF Remember
  <2>3. <<recent[2], v>> \in Seq(Int) /\ Len(<<recent[2], v>>) = 2
    BY <2>1
  <2>4. recent'[1] = recent[2] /\ recent'[2] = v
    BY <2>2
  <2> QED BY <1>4, <2>2, <2>3, <2>4
<1>5. Len(recent) < 2 \/ Len(recent) = 2
  <2>1. \A n \in {0, 1, 2} : n < 2 \/ n = 2
    OBVIOUS
  <2> QED BY <1>1, <2>1
<1> QED BY <1>2, <1>3, <1>4, <1>5

LEMMA BatteryNextInv ==
  ASSUME BatteryInv, [BMNext]_battery
  PROVE  BatteryInv'
<1>1. CASE UNCHANGED battery
  BY <1>1 DEF battery, BatteryInv, BMTypeOK, CountIsOfLatest, SpeaksFor
<1>2. CASE BMNext
  <2>1. PICK volt \in Volts, pin \in AmperPins : OnTimerComplete(volt, pin)
    BY <1>2 DEF BMNext
  <2> DEFINE v == CalcVoltage(volt, pin)
  <2>2. volt \in Nat /\ pin \in Nat
    BY BatteryAssumption
  <2>3. v \in Int
    BY <2>2, CalcType
  <2>4. /\ OnVoltageMeasured(v) /\ Remember(v)
        /\ voltage' = volt /\ amperPin' = pin /\ beat' = 1 - beat
    BY <2>1 DEF OnTimerComplete
  <2> HIDE DEF v
  <2>5. /\ recent' \in Seq(Int) /\ Len(recent') <= 2
        /\ currentState' # currentState => recent' = <<>>
        /\ currentState' = currentState =>
             \/ Len(recent) = 0 /\ Len(recent') = 1 /\ recent'[1] = v
             \/ Len(recent) = 1 /\ Len(recent') = 2 /\ recent'[1] = recent[1] /\ recent'[2] = v
             \/ Len(recent) = 2 /\ Len(recent') = 2 /\ recent'[1] = recent[2] /\ recent'[2] = v
    BY <2>3, <2>4, RememberCases DEF BatteryInv
  <2>6. CASE \E l \in Level : HandleAttempt(l) /\ SpeaksFor(v, l) /\ l # currentState
                                /\ l # CHARGE_LEVEL
    <3>1. PICK l \in Level : /\ HandleAttempt(l) /\ SpeaksFor(v, l)
                                     /\ l # currentState /\ l # CHARGE_LEVEL
      BY <2>6
    <3>2. /\ matchState' = l
          /\ \/ /\ currentState' = l /\ matchedAttempts' = 0 /\ report' = l
                /\ matchState = l /\ matchedAttempts = 2
             \/ /\ currentState' = currentState /\ report' = NoReport
                /\ matchedAttempts' \in {1, 2}
                /\ matchedAttempts' # 1 => matchState = l /\ matchedAttempts' = matchedAttempts + 1
      BY <3>1, AttemptCases DEF BatteryInv
    <3>3. BMTypeOK'
      BY <2>2, <2>4, <2>5, <3>1, <3>2, BatteryAssumption DEF BatteryInv, BMTypeOK
    <3>4. CountIsOfLatest'
      <4>1. CASE matchedAttempts' = 0
        BY <2>5, <4>1 DEF CountIsOfLatest
      <4>2. CASE matchedAttempts' # 0
        <5> SUFFICES ASSUME currentState' \in {LOW_LEVEL, CRITICAL_LEVEL}
                     PROVE  /\ matchedAttempts' <= Len(recent')
                            /\ \A i \in 1 .. Len(recent') :
                                 i > Len(recent') - matchedAttempts' => SpeaksFor(recent'[i], l)
          BY <3>2 DEF CountIsOfLatest, SpeaksFor, IsNormalized
        <5>1. currentState' = currentState /\ matchedAttempts' \in {1, 2}
          BY <3>2, <4>2
        <5>2. CASE matchedAttempts' = 1
          BY <2>5, <3>1, <5>1, <5>2
        <5>3. CASE matchedAttempts' = 2
          <6>1. matchState = l /\ matchedAttempts = 1
            BY <3>2, <5>1, <5>3 DEF BatteryInv, BMTypeOK
          <6>2. /\ Len(recent) \in {1, 2} /\ SpeaksFor(recent[Len(recent)], l)
            BY <5>1, <6>1, RecentLength DEF BatteryInv, CountIsOfLatest
          <6>3. Len(recent') = 2 /\ recent'[1] = recent[Len(recent)] /\ recent'[2] = v
            BY <2>5, <5>1, <6>2
          <6>4. \A i \in 1 .. 2 : SpeaksFor(recent'[i], l)
            BY <3>1, <6>2, <6>3
          <6> QED BY <5>3, <6>3, <6>4
        <5> QED BY <5>1, <5>2, <5>3
      <4> QED BY <4>1, <4>2
    <3> QED BY <3>3, <3>4 DEF BatteryInv
  <2>7. CASE NoAttempt /\ currentState \notin {LOW_LEVEL, CRITICAL_LEVEL}
    <3>1. BMTypeOK'
      BY <2>2, <2>4, <2>5, <2>7 DEF BatteryInv, BMTypeOK, NoAttempt
    <3>2. CountIsOfLatest'
      BY <2>7 DEF NoAttempt, CountIsOfLatest
    <3> QED BY <3>1, <3>2 DEF BatteryInv
  <2>8. CASE /\ matchedAttempts' = 0 /\ matchState' = currentState
             /\ report' = NoReport /\ UNCHANGED currentState
    <3>1. BMTypeOK'
      BY <2>2, <2>4, <2>5, <2>8, BatteryAssumption DEF BatteryInv, BMTypeOK
    <3>2. CountIsOfLatest'
      BY <2>5, <2>8 DEF CountIsOfLatest
    <3> QED BY <3>1, <3>2 DEF BatteryInv
  <2>9. \A l \in Level :
          (IF currentState = NORMAL_LEVEL THEN l \in {LOW_LEVEL, OVERFLOW_LEVEL}
           ELSE l \in {NORMAL_LEVEL, GetNextState(currentState)}) => l # CHARGE_LEVEL
    BY DEF BatteryInv, BMTypeOK, GetNextState, Level, DEAD_LEVEL, CRITICAL_LEVEL,
        LOW_LEVEL, NORMAL_LEVEL, CHARGE_LEVEL, OVERFLOW_LEVEL
  <2> QED BY <2>3, <2>4, <2>6, <2>7, <2>8, <2>9, StepCases DEF BatteryInv
<1> QED BY <1>1, <1>2

\* Every reachable state is well typed, the level is never CHARGE, and the count
\* is of the latest samples (OnVoltageMeasured, HandleAttempt).
THEOREM CountInvariant == BMSpec => [](BMTypeOK /\ CountIsOfLatest)
<1>1. BMInit => BatteryInv
  BY BatteryInitInv
<1>2. BatteryInv /\ [BMNext]_battery => BatteryInv'
  BY BatteryNextInv
<1>3. BatteryInv => BMTypeOK /\ CountIsOfLatest
  BY DEF BatteryInv
<1> QED BY <1>1, <1>2, <1>3, PTL DEF BMSpec

LEMMA BatteryInvHolds == BMSpec => []BatteryInv
<1>1. BMInit => BatteryInv
  BY BatteryInitInv
<1>2. BatteryInv /\ [BMNext]_battery => BatteryInv'
  BY BatteryNextInv
<1> QED BY <1>1, <1>2, PTL DEF BMSpec

\* The level moves to a neighbour only, and stateCallback hears of each change
\* once (HandleAttempt).
THEOREM LevelSteps == BMSpec => OnlyNeighbours /\ EveryChangeReported
<1> DEFINE Move == currentState' # currentState =>
       /\ currentState = NORMAL_LEVEL   => currentState' \in {LOW_LEVEL, OVERFLOW_LEVEL}
       /\ currentState = LOW_LEVEL      => currentState' \in {CRITICAL_LEVEL, NORMAL_LEVEL}
       /\ currentState = CRITICAL_LEVEL => currentState' \in {DEAD_LEVEL, NORMAL_LEVEL}
       /\ currentState \in {DEAD_LEVEL, OVERFLOW_LEVEL} => currentState' = NORMAL_LEVEL
           Tell == report' = IF currentState' # currentState THEN currentState' ELSE NoReport
<1>1. BatteryInv /\ [BMNext]_battery => [Move]_battery /\ [Tell]_battery
  <2> SUFFICES ASSUME BatteryInv, BMNext PROVE Move /\ Tell
    OBVIOUS
  <2>1. PICK volt \in Volts, pin \in AmperPins : OnTimerComplete(volt, pin)
    BY DEF BMNext
  <2>2. CalcVoltage(volt, pin) \in Int
    BY CalcType, BatteryAssumption
  <2>3. OnVoltageMeasured(CalcVoltage(volt, pin))
    BY <2>1 DEF OnTimerComplete
  <2>4. \/ \E l \in Level : HandleAttempt(l) /\ l # currentState
             /\ IF currentState = NORMAL_LEVEL THEN l \in {LOW_LEVEL, OVERFLOW_LEVEL}
                ELSE l \in {NORMAL_LEVEL, GetNextState(currentState)}
        \/ NoAttempt
        \/ report' = NoReport /\ UNCHANGED currentState
    BY <2>2, <2>3, StepCases DEF BatteryInv
  <2>5. CASE NoAttempt \/ (report' = NoReport /\ UNCHANGED currentState)
    BY <2>5 DEF NoAttempt
  <2>6. ASSUME NEW l \in Level, HandleAttempt(l), l # currentState,
               IF currentState = NORMAL_LEVEL THEN l \in {LOW_LEVEL, OVERFLOW_LEVEL}
               ELSE l \in {NORMAL_LEVEL, GetNextState(currentState)}
        PROVE  Move /\ Tell
    <3>1. \/ currentState' = l /\ report' = l
          \/ currentState' = currentState /\ report' = NoReport
      BY <2>6, AttemptCases DEF BatteryInv
    <3>2. CASE currentState' = currentState
      BY <3>1, <3>2, <2>6
    <3>3. CASE currentState' = l /\ report' = l
      <4>1. Tell
        BY <2>6, <3>3
      <4>2. Move
        BY <2>6, <3>3 DEF GetNextState, DEAD_LEVEL, CRITICAL_LEVEL, LOW_LEVEL,
            NORMAL_LEVEL, CHARGE_LEVEL, OVERFLOW_LEVEL
      <4> QED BY <4>1, <4>2
    <3> QED BY <3>1, <3>2, <3>3
  <2> QED BY <2>4, <2>5, <2>6
<1> QED BY <1>1, BatteryInvHolds, PTL DEF BMSpec, OnlyNeighbours, EveryChangeReported

\* LOW and CRITICAL are left only on three samples in a row, taken at that level
\* and speaking for the new one (OnVoltageMeasured's reset of the count).
THEOREM NoSpikeCounts == BMSpec => ThreeInARow
<1> DEFINE Step == currentState' # currentState /\ currentState \in {LOW_LEVEL, CRITICAL_LEVEL} =>
                     /\ Len(recent) = 2
                     /\ \A v \in {recent[1], recent[2], Sampled'} : SpeaksFor(v, currentState')
<1>1. BatteryInv /\ [BMNext]_battery => [Step]_battery
  <2> SUFFICES ASSUME BatteryInv, BMNext, currentState' # currentState,
                      currentState \in {LOW_LEVEL, CRITICAL_LEVEL}
               PROVE  /\ Len(recent) = 2
                      /\ \A v \in {recent[1], recent[2], Sampled'} : SpeaksFor(v, currentState')
    OBVIOUS
  <2>1. PICK volt \in Volts, pin \in AmperPins : OnTimerComplete(volt, pin)
    BY DEF BMNext
  <2>2. CalcVoltage(volt, pin) \in Int
    BY CalcType, BatteryAssumption
  <2>3. /\ OnVoltageMeasured(CalcVoltage(volt, pin))
        /\ Sampled' = CalcVoltage(volt, pin)
    BY <2>1 DEF OnTimerComplete, Sampled, CalcVoltage
  <2>4. PICK l \in Level : /\ HandleAttempt(l)
                                   /\ SpeaksFor(CalcVoltage(volt, pin), l)
    BY <2>2, <2>3, StepCases DEF BatteryInv, NoAttempt
  <2>5. currentState' = l /\ matchState = l /\ matchedAttempts = 2
    BY <2>4, AttemptCases DEF BatteryInv
  <2>6. Len(recent) = 2 /\ SpeaksFor(recent[1], l) /\ SpeaksFor(recent[2], l)
    BY <2>5, RecentLength DEF BatteryInv, CountIsOfLatest
  <2> QED BY <2>3, <2>4, <2>5, <2>6
<1> QED BY <1>1, BatteryInvHolds, PTL DEF BMSpec, ThreeInARow

-----------------------------------------------------------------------------
(* The phone book.  What is read of an entry follows from how far          *)
(* SplitString gets with one (EntrySplit); that the book holds the first   *)
(* entries, from Rank being a permutation of those read (RankInv); that    *)
(* any line is split as it says, from what is true on the way (ScanAt).    *)

Item == [sortIndex : 0 .. SortMod - 1, phone : Phone]

\* The four symbols that the code tells apart.
LEMMA Distinct ==
  /\ Comma # Quote /\ Comma # Other /\ Comma # Zero
  /\ Quote # Other /\ Quote # Zero /\ Other # Zero
<1>1. ASSUME NEW a, NEW b, NEW c PROVE Cardinality({a, b, c}) # 4
  <2>1. IsFiniteSet({a}) /\ Cardinality({a}) = 1
    BY FS_Singleton
  <2>2. IsFiniteSet({a} \cup {b}) /\ Cardinality({a} \cup {b}) \in 1 .. 2
    BY <2>1, FS_AddElement
  <2>3. Cardinality(({a} \cup {b}) \cup {c}) \in 1 .. 3
    BY <2>2, FS_AddElement
  <2>4. ({a} \cup {b}) \cup {c} = {a, b, c}
    OBVIOUS
  <2> QED BY <2>3, <2>4
<1>2. Cardinality({Comma, Quote, Other, Zero}) = 4
  BY BookAssumption
<1>3. Comma # Quote
  <2>1. Comma = Quote => {Comma, Quote, Other, Zero} = {Quote, Other, Zero}
    OBVIOUS
  <2> QED BY <1>1, <1>2, <2>1
<1>4. Comma # Other
  <2>1. Comma = Other => {Comma, Quote, Other, Zero} = {Quote, Other, Zero}
    OBVIOUS
  <2> QED BY <1>1, <1>2, <2>1
<1>5. Comma # Zero
  <2>1. Comma = Zero => {Comma, Quote, Other, Zero} = {Quote, Other, Zero}
    OBVIOUS
  <2> QED BY <1>1, <1>2, <2>1
<1>6. Quote # Other
  <2>1. Quote = Other => {Comma, Quote, Other, Zero} = {Comma, Other, Zero}
    OBVIOUS
  <2> QED BY <1>1, <1>2, <2>1
<1>7. Quote # Zero
  <2>1. Quote = Zero => {Comma, Quote, Other, Zero} = {Comma, Other, Zero}
    OBVIOUS
  <2> QED BY <1>1, <1>2, <2>1
<1>8. Other # Zero
  <2>1. Other = Zero => {Comma, Quote, Other, Zero} = {Comma, Quote, Zero}
    OBVIOUS
  <2> QED BY <1>1, <1>2, <2>1
<1> QED BY <1>3, <1>4, <1>5, <1>6, <1>7, <1>8

LEMMA NoZero == Zero \notin Symbol
BY Distinct, BookAssumption DEF Symbol

\* The answer to +CPBR symbol by symbol.
LEMMA EntryShape ==
  ASSUME NEW phone \in Phone, NEW name \in Name
  PROVE  /\ name \in Seq(Symbol)
         /\ Entry(phone, name) \in Seq(Symbol)
         /\ Len(Entry(phone, name)) = Len(name) + 10
         /\ Entry(phone, name)[1] = Other
         /\ Entry(phone, name)[2] = Comma
         /\ Entry(phone, name)[3] = Quote
         /\ Entry(phone, name)[4] = phone
         /\ Entry(phone, name)[5] = Quote
         /\ Entry(phone, name)[6] = Comma
         /\ Entry(phone, name)[7] = Other
         /\ Entry(phone, name)[8] = Comma
         /\ Entry(phone, name)[9] = Quote
         /\ \A i \in 1 .. Len(name) : Entry(phone, name)[9 + i] = name[i]
         /\ Entry(phone, name)[Len(name) + 10] = Quote
<1> DEFINE front == <<Other, Comma, Quote, phone, Quote, Comma, Other, Comma, Quote>>
           back == <<Quote>>
<1>1. name \in Seq(Symbol)
  BY BookAssumption
<1>2. phone \in Symbol /\ Other \in Symbol /\ Comma \in Symbol /\ Quote \in Symbol
  BY DEF Symbol
<1>3. front \in Seq(Symbol) /\ Len(front) = 9 /\ back \in Seq(Symbol) /\ Len(back) = 1 /\ back[1] = Quote
  BY <1>2
<1>4. /\ front[1] = Other /\ front[2] = Comma /\ front[3] = Quote /\ front[4] = phone
      /\ front[5] = Quote /\ front[6] = Comma /\ front[7] = Other /\ front[8] = Comma /\ front[9] = Quote
  OBVIOUS
<1>5. Entry(phone, name) = (front \o name) \o back
  BY <1>1, <1>3, ConcatAssociative DEF Entry
<1> HIDE DEF front, back
<1>6. /\ front \o name \in Seq(Symbol) /\ Len(front \o name) = 9 + Len(name)
      /\ \A i \in 1 .. 9 + Len(name) : (front \o name)[i] = IF i <= 9 THEN front[i] ELSE name[i - 9]
  <2>1. /\ front \o name \in Seq(Symbol) /\ Len(front \o name) = Len(front) + Len(name)
        /\ \A i \in 1 .. Len(front) + Len(name) :
             (front \o name)[i] = IF i <= Len(front) THEN front[i] ELSE name[i - Len(front)]
    BY <1>1, <1>3, ConcatProperties, Zenon
  <2> QED BY <1>3, <2>1
<1> DEFINE fn == front \o name
<1>7. /\ fn \o back \in Seq(Symbol) /\ Len(fn \o back) = 10 + Len(name)
      /\ \A i \in 1 .. 10 + Len(name) : 
            (fn \o back)[i] = IF i <= 9 + Len(name) THEN fn[i] ELSE back[i - (9 + Len(name))]
  <2>1. fn \in Seq(Symbol) /\ Len(fn) = 9 + Len(name) /\ Len(name) \in Nat
    BY <1>1, <1>6
  <2> HIDE DEF fn
  <2>2. /\ fn \o back \in Seq(Symbol) /\ Len(fn \o back) = Len(fn) + Len(back)
        /\ \A i \in 1 .. Len(fn) + Len(back) :
             (fn \o back)[i] = IF i <= Len(fn) THEN fn[i] ELSE back[i - Len(fn)]
    BY <2>1, <1>3, ConcatProperties, Zenon
  <2> DEFINE fb == fn \o back
  <2>3. fb \in Seq(Symbol) /\ Len(fb) = Len(fn) + Len(back)
        /\ \A i \in 1 .. Len(fn) + Len(back) :
             fb[i] = IF i <= Len(fn) THEN fn[i] ELSE back[i - Len(fn)]
    BY <2>2
  <2> HIDE DEF fb
  <2>4. fb \in Seq(Symbol) /\ Len(fb) = 10 + Len(name)
        /\ \A i \in 1 .. 10 + Len(name) :
             fb[i] = IF i <= 9 + Len(name) THEN fn[i] ELSE back[i - (9 + Len(name))]
    BY <2>1, <2>3, <1>3
  <2> QED BY <2>4 DEF fb
<1> HIDE DEF fn
<1>8. Len(name) \in Nat
  BY <1>1
<1>9. \A i \in 1 .. 9 : (fn \o back)[i] = front[i]
  BY <1>6, <1>7, <1>8 DEF fn
<1>10. \A i \in 1 .. Len(name) : (fn \o back)[9 + i] = name[i]
  BY <1>6, <1>7, <1>8 DEF fn
<1>11. (fn \o back)[Len(name) + 10] = Quote
  BY <1>3, <1>7, <1>8
<1>12. Entry(phone, name) = fn \o back
  BY <1>5 DEF fn
<1> DEFINE e == Entry(phone, name)
<1>13. /\ e \in Seq(Symbol) /\ Len(e) = Len(name) + 10 /\ \A i \in 1 .. 9 : e[i] = front[i]
       /\ \A i \in 1 .. Len(name) : e[9 + i] = name[i]
       /\ e[Len(name) + 10] = Quote
  <2>1. Len(fn \o back) = Len(name) + 10
    BY <1>7, <1>8
  <2> QED BY <1>7, <1>9, <1>10, <1>11, <1>12, <2>1
<1> HIDE DEF e
<1>14. /\ e[1] = Other /\ e[2] = Comma /\ e[3] = Quote /\ e[4] = phone /\ e[5] = Quote
       /\ e[6] = Comma /\ e[7] = Other /\ e[8] = Comma /\ e[9] = Quote
  BY <1>4, <1>13
<1> QED BY <1>1, <1>13, <1>14 DEF e

\* What every variable may be.
BookTypes ==
  /\ line \in Seq(Symbol \cup {Zero}) /\ whole \in Seq(Symbol) /\ Len(line) = Len(whole)
  /\ pChr \in 1 .. Len(line) + 1
  /\ inQuotation \in BOOLEAN /\ skipEmpty \in BOOLEAN /\ running \in BOOLEAN
  /\ arraySize \in Nat
  /\ subStrArray \in Seq(Nat) /\ Len(subStrArray) <= arraySize
  /\ \A i \in DOMAIN subStrArray : subStrArray[i] \in 1 .. Len(line) + 1
  /\ running => Len(subStrArray) \in 1 .. arraySize - 1
  /\ book \in Seq(Item) /\ read \in Seq(Item)

LEMMA CallsTypes ==
  ASSUME NEW text \in Seq(Symbol), NEW size \in Nat, NEW skip \in BOOLEAN,
         Calls(text, size, skip), BookTypes, UNCHANGED <<book, read>>
  PROVE  BookTypes'
<1>1. text \in Seq(Symbol \cup {Zero}) /\ Len(text) \in Nat
  BY SeqMonotonic
<1>2. subStrArray' \in Seq(Nat) /\ Len(subStrArray') = (IF size = 0 THEN 0 ELSE 1)
      /\ \A i \in DOMAIN subStrArray' : subStrArray'[i] = 1
  BY DEF Calls
<1>3. /\ line' = text /\ whole' = text /\ pChr' = 1 /\ inQuotation' = FALSE
      /\ arraySize' = size /\ skipEmpty' = skip /\ running' = (size > 1)
  BY DEF Calls
<1>4. /\ line' \in Seq(Symbol \cup {Zero}) /\ whole' \in Seq(Symbol) /\ Len(line') = Len(whole')
      /\ pChr' \in 1 .. Len(line') + 1
  BY <1>1, <1>3
<1>5. /\ Len(subStrArray') <= arraySize' /\ (running' => Len(subStrArray') \in 1 .. arraySize' - 1)
      /\ \A i \in DOMAIN subStrArray' : subStrArray'[i] \in 1 .. Len(line') + 1
  <2>1. running' => size > 1
    BY <1>3, Zenon
  <2>2. Len(subStrArray') <= size /\ (size > 1 => Len(subStrArray') \in 1 .. size - 1)
    BY <1>2
  <2>3. 1 \in 1 .. Len(text) + 1
    BY <1>1
  <2>4. \A i \in DOMAIN subStrArray' : subStrArray'[i] \in 1 .. Len(line') + 1
    BY <1>2, <1>3, <2>3
  <2> QED BY <1>3, <2>1, <2>2, <2>4
<1>6. inQuotation' \in BOOLEAN /\ skipEmpty' \in BOOLEAN /\ running' \in BOOLEAN /\ arraySize' \in Nat
  <2>1. (size > 1) \in BOOLEAN
    OBVIOUS
  <2> QED BY <1>3, <2>1, Zenon
<1>7. subStrArray' \in Seq(Nat) /\ book' \in Seq(Item) /\ read' \in Seq(Item)
  BY <1>2 DEF BookTypes
<1> QED BY <1>4, <1>5, <1>6, <1>7, Zenon DEF BookTypes

LEMMA EntryTypes ==
  ASSUME BookTypes, [PBNext]_reading, ~ReadEntry
  PROVE  BookTypes'
<1>1. ASSUME NEW phone \in Phone, NEW name \in Name, ReceiveEntry(phone, name)
      PROVE  BookTypes'
  BY <1>1, EntryShape, CallsTypes DEF ReceiveEntry
<1>2. ASSUME NEW text \in Line, NEW size \in Size, NEW skip \in BOOLEAN, ReceiveLine(text, size, skip)
      PROVE  BookTypes'
  BY <1>2, BookAssumption, CallsTypes DEF ReceiveLine
<1>3. CASE Skip
  <2>1. running /\ pChr' = pChr + 1 /\ inQuotation' \in {inQuotation, ~inQuotation} /\ ~(pChr > Len(line))
        /\ UNCHANGED <<line, subStrArray, arraySize, skipEmpty, running, book, whole, read>>
    BY <1>3 DEF Skip, AtEnd
  <2>2. pChr' \in 1 .. Len(line) + 1
    BY <2>1 DEF BookTypes
  <2>3. inQuotation' \in BOOLEAN
    BY <2>1 DEF BookTypes
  <2> QED BY <2>1, <2>2, <2>3 DEF BookTypes
<1>4. CASE Separate
  <2> DEFINE n == Len(subStrArray)
             kept == IF skipEmpty /\ subStrArray[n] = pChr THEN SubSeq(subStrArray, 1, n - 1) ELSE subStrArray
  <2>1. n \in 1 .. arraySize - 1 /\ pChr \in 1 .. Len(line) /\ n \in Nat /\ Len(line) \in Nat
    BY <1>4 DEF Separate, AtEnd, BookTypes
  <2>2. kept \in Seq(Nat) /\ Len(kept) \in {n - 1, n} /\ \A i \in DOMAIN kept : kept[i] \in 1 .. Len(line) + 1
    <3> DEFINE most == SubSeq(subStrArray, 1, n - 1)
    <3>1. most \in Seq(Nat) /\ Len(most) = n - 1 /\ \A i \in 1 .. n - 1 : most[i] = subStrArray[i]
      <4>1. subStrArray \in Seq(Nat) /\ \A i \in 1 .. n - 1 : subStrArray[i] \in Nat
        BY <2>1 DEF BookTypes
      <4>2. (IF 1 <= n - 1 THEN n - 1 - 1 + 1 ELSE 0) = n - 1
        <5> HIDE DEF n
        <5>1. CASE n = 1
          BY <5>1
        <5>2. CASE n > 1
          BY <5>2, <2>1
        <5> QED BY <5>1, <5>2, <2>1
      <4>3. \A i \in 1 .. n - 1 : i \in 1 .. (n - 1) - 1 + 1 /\ 1 + i - 1 = i
        BY <2>1
      <4>4. 1 \in Int /\ n - 1 \in Int
        BY <2>1
      <4>5. /\ SubSeq(subStrArray, 1, n - 1) \in Seq(Nat)
            /\ Len(SubSeq(subStrArray, 1, n - 1)) = IF 1 <= n - 1 THEN n - 1 - 1 + 1 ELSE 0
            /\ \A i \in 1 .. (n - 1) - 1 + 1 : SubSeq(subStrArray, 1, n - 1)[i] = subStrArray[1 + i - 1]
        BY <4>1, <4>4, SubSeqProperties
      <4> QED BY <4>2, <4>3, <4>5
    <3>2. DOMAIN subStrArray = 1 .. n /\ DOMAIN most = 1 .. n - 1
      BY <3>1, <2>1 DEF BookTypes
    <3> HIDE DEF most
    <3>3. \A i \in DOMAIN most : most[i] \in 1 .. Len(line) + 1
      <4>1. \A i \in DOMAIN subStrArray : subStrArray[i] \in 1 .. Len(line) + 1
        BY DEF BookTypes
      <4> QED BY <3>1, <3>2, <2>1, <4>1
    <3>4. kept \in {most, subStrArray}
      BY DEF most
    <3> HIDE DEF kept
    <3> QED BY <3>1, <3>3, <3>4 DEF BookTypes
  <2>3. subStrArray' = IF pChr = Len(line) THEN kept ELSE Append(kept, pChr + 1)
    BY <1>4 DEF Separate
  <2> HIDE DEF kept
  <2>4. Len(kept) \in Nat
    BY <2>2
  <2>5. /\ subStrArray' \in Seq(Nat)
        /\ Len(subStrArray') = IF pChr = Len(line) THEN Len(kept) ELSE Len(kept) + 1
        /\ \A i \in DOMAIN subStrArray' : subStrArray'[i] \in 1 .. Len(line) + 1
    <3>1. CASE pChr = Len(line)
      BY <3>1, <2>2, <2>3
    <3>2. CASE pChr # Len(line)
      <4>1. Append(kept, pChr + 1) \in Seq(Nat) /\ Len(Append(kept, pChr + 1)) = Len(kept) + 1
            /\ \A i \in 1 .. Len(kept) : Append(kept, pChr + 1)[i] = kept[i]
            /\ Append(kept, pChr + 1)[Len(kept) + 1] = pChr + 1
        BY <2>1, <2>2, AppendProperties
      <4>2. DOMAIN kept = 1 .. Len(kept) /\ DOMAIN Append(kept, pChr + 1) = 1 .. Len(kept) + 1
        BY <2>2, <4>1
      <4>3. subStrArray' = Append(kept, pChr + 1)
        BY <2>3, <3>2
      <4> QED BY <4>1, <4>2, <4>3, <3>2, <2>1, <2>2, <2>4
    <3> QED BY <3>1, <3>2
  <2>6. /\ line' \in Seq(Symbol \cup {Zero}) /\ Len(line') = Len(line)
    <3>1. line' = [line EXCEPT ![pChr] = Zero]
      BY <1>4 DEF Separate
    <3> QED BY <3>1, <2>1, ExceptSeq DEF BookTypes
  <2>7. /\ pChr' = pChr + 1 /\ running' = (pChr # Len(line) /\ Len(subStrArray') < arraySize)
        /\ UNCHANGED <<inQuotation, arraySize, skipEmpty, book, whole, read>>
    BY <1>4 DEF Separate
  <2>8. Len(subStrArray') <= arraySize /\ (running' => Len(subStrArray') \in 1 .. arraySize - 1)
    <3>1. arraySize \in Nat
      BY DEF BookTypes
    <3>2. Len(subStrArray') \in Nat /\ Len(subStrArray') <= arraySize
      <4> HIDE DEF n
      <4>1. n + 1 <= arraySize /\ n \in Nat /\ Len(kept) \in Nat /\ Len(kept) <= n
        BY <3>1, <2>1, <2>2, <2>4
      <4>2. Len(subStrArray') = Len(kept) \/ Len(subStrArray') = Len(kept) + 1
        BY <2>5
      <4> HIDE DEF kept
      <4> QED BY <4>1, <4>2, <3>1
    <3>3. running' => Len(subStrArray') >= 1 /\ Len(subStrArray') < arraySize
      <4>1. running' => pChr # Len(line) /\ Len(subStrArray') < arraySize
        BY <2>7, Zenon
      <4>2. pChr # Len(line) => Len(subStrArray') >= 1
        BY <2>1, <2>2, <2>4, <2>5
      <4> QED BY <4>1, <4>2
    <3> QED BY <3>1, <3>2, <3>3
  <2> QED BY <2>1, <2>5, <2>6, <2>7, <2>8 DEF BookTypes
<1>5. CASE Return
  BY <1>5 DEF Return, BookTypes
<1>6. CASE ClearBook
  BY <1>6 DEF ClearBook, BookTypes, split
<1>7. CASE UNCHANGED reading
  BY <1>7 DEF reading, split, BookTypes
<1> QED BY <1>1, <1>2, <1>3, <1>4, <1>5, <1>6, <1>7 DEF PBNext


\* How far SplitString is with an entry: the three commas in front of the name are
\* outside of quotation marks, the fourth part fills the array, and the name is
\* never looked at.
EntrySplit ==
  /\ arraySize = 4 /\ skipEmpty = FALSE
  /\ pChr \in 1 .. 9
  /\ running => pChr < 9
  /\ ~running => pChr = 9
  /\ inQuotation => pChr \in {4, 5}
  /\ pChr \in {4, 5} => inQuotation
  /\ pChr \in {1, 2} => subStrArray = <<1>>
  /\ pChr \in 3 .. 6 => subStrArray = <<1, 3>>
  /\ pChr \in {7, 8} => subStrArray = <<1, 3, 7>>
  /\ pChr = 9 => subStrArray = <<1, 3, 7, 9>>
  /\ \A i \in 1 .. Len(line) :
       line[i] = IF i \in {2, 6, 8} /\ i < pChr THEN Zero ELSE whole[i]

EntryInv == \A phone \in Phone, name \in Name : whole = Entry(phone, name) => EntrySplit

LEMMA Parts4 ==
  /\ Append(<<1>>, 3) = <<1, 3>>
  /\ Append(<<1, 3>>, 7) = <<1, 3, 7>>
  /\ Append(<<1, 3, 7>>, 9) = <<1, 3, 7, 9>>
<1>1. Append(<<1>>, 3) = <<1, 3>>
  <2> DEFINE a == Append(<<1>>, 3)
             b == <<1, 3>>
  <2>1. /\ a \in Seq(Nat) /\ Len(a) = 2 /\ a[1] = 1 /\ a[2] = 3
    OBVIOUS
  <2>2. /\ b \in Seq(Nat) /\ Len(b) = 2 /\ b[1] = 1 /\ b[2] = 3
    OBVIOUS
  <2> HIDE DEF a, b
  <2>3. \A i \in 1 .. Len(a) : a[i] = b[i]
    BY <2>1, <2>2
  <2>4. a = b
    BY <2>1, <2>2, <2>3, SeqEqual
  <2> QED BY <2>4 DEF a, b
<1>2. Append(<<1, 3>>, 7) = <<1, 3, 7>>
  <2> DEFINE a == Append(<<1, 3>>, 7)
             b == <<1, 3, 7>>
  <2>1. /\ a \in Seq(Nat) /\ Len(a) = 3 /\ a[1] = 1 /\ a[2] = 3 /\ a[3] = 7
    OBVIOUS
  <2>2. /\ b \in Seq(Nat) /\ Len(b) = 3 /\ b[1] = 1 /\ b[2] = 3 /\ b[3] = 7
    OBVIOUS
  <2> HIDE DEF a, b
  <2>3. \A i \in 1 .. Len(a) : a[i] = b[i]
    BY <2>1, <2>2
  <2>4. a = b
    BY <2>1, <2>2, <2>3, SeqEqual
  <2> QED BY <2>4 DEF a, b
<1>3. Append(<<1, 3, 7>>, 9) = <<1, 3, 7, 9>>
  <2> DEFINE a == Append(<<1, 3, 7>>, 9)
             b == <<1, 3, 7, 9>>
  <2>1. /\ a \in Seq(Nat) /\ Len(a) = 4 /\ a[1] = 1 /\ a[2] = 3 /\ a[3] = 7 /\ a[4] = 9
    OBVIOUS
  <2>2. /\ b \in Seq(Nat) /\ Len(b) = 4 /\ b[1] = 1 /\ b[2] = 3 /\ b[3] = 7 /\ b[4] = 9
    OBVIOUS
  <2> HIDE DEF a, b
  <2>3. \A i \in 1 .. Len(a) : a[i] = b[i]
    BY <2>1, <2>2
  <2>4. a = b
    BY <2>1, <2>2, <2>3, SeqEqual
  <2> QED BY <2>4 DEF a, b
<1> QED BY <1>1, <1>2, <1>3

LEMMA EntrySteps ==
  ASSUME BookTypes, EntryInv, [PBNext]_reading
  PROVE  EntryInv'
<1> SUFFICES ASSUME NEW phone \in Phone, NEW name \in Name, whole' = Entry(phone, name)
             PROVE  EntrySplit'
  <2>1. \A phone \in Phone, name \in Name : whole' = Entry(phone, name) => EntrySplit'
    OBVIOUS
  <2> QED BY <2>1 DEF EntryInv, Entry
<1>0. /\ Len(whole') >= 10 /\ whole' \in Seq(Symbol) /\ whole' # <<>>
  <2>1. Len(name) \in Nat /\ Len(whole') = Len(name) + 10
    BY EntryShape
  <2> QED BY <2>1, EntryShape
<1>1. ASSUME NEW p \in Phone, NEW s \in Name, ReceiveEntry(p, s) PROVE EntrySplit'
  <2>1. /\ line' = whole' /\ arraySize' = 4 /\ skipEmpty' = FALSE /\ pChr' = 1
        /\ inQuotation' = FALSE /\ subStrArray' = <<1>> /\ running'
    <3>1. (4 > 1) = TRUE /\ 4 # 0
      OBVIOUS
    <3>2. Calls(Entry(p, s), 4, FALSE)
      BY <1>1 DEF ReceiveEntry
    <3> QED BY <3>1, <3>2, Zenon DEF Calls
  <2> QED BY <2>1 DEF EntrySplit
<1>2. ASSUME NEW text \in Line, NEW size \in Size, NEW skip \in BOOLEAN, ReceiveLine(text, size, skip)
      PROVE  FALSE
  BY <1>2, LineAssumption DEF ReceiveLine, Calls
<1>3. ASSUME UNCHANGED whole PROVE EntrySplit
  BY <1>3 DEF EntryInv
<1>4. ASSUME UNCHANGED whole
      PROVE  /\ whole[1] = Other /\ whole[2] = Comma /\ whole[3] = Quote /\ whole[4] \in Phone
             /\ whole[5] = Quote /\ whole[6] = Comma /\ whole[7] = Other /\ whole[8] = Comma
             /\ Len(whole) >= 10 /\ Len(line) = Len(whole) /\ Len(line) \in Nat
  <2>1. whole = Entry(phone, name)
    BY <1>4
  <2>2. Len(line) = Len(whole) /\ Len(line) \in Nat
    BY DEF BookTypes
  <2>3. whole[4] = phone
    BY <2>1, EntryShape
  <2> QED BY <1>0, <1>4, <2>1, <2>2, <2>3, EntryShape
<1>5. ASSUME UNCHANGED whole, running
      PROVE  /\ pChr \in 1 .. 8 /\ pChr \in 1 .. Len(line) /\ line[pChr] = whole[pChr]
             /\ pChr # Len(line)
  BY <1>3, <1>4, <1>5 DEF EntrySplit
<1>6. Quote # Comma /\ Other # Comma /\ Other # Quote
      /\ \A p \in Phone : p # Comma /\ p # Quote
  BY Distinct, BookAssumption
<1>7. CASE Skip
  <2>1. UNCHANGED <<line, subStrArray, arraySize, skipEmpty, running, whole>> /\ running /\ pChr' = pChr + 1
    BY <1>7 DEF Skip
  <2>2. /\ inQuotation \/ pChr \notin {2, 6, 8}
        /\ pChr \in {3, 5} => (inQuotation' <=> ~inQuotation)
        /\ pChr \notin {3, 5} => (inQuotation' <=> inQuotation)
    <3>1. /\ inQuotation \/ whole[pChr] # Comma
          /\ whole[pChr] = Quote => inQuotation' = ~inQuotation
          /\ whole[pChr] # Quote => inQuotation' = inQuotation
      BY <1>7, <1>5, <2>1 DEF Skip, Here
    <3>2. /\ pChr \in {2, 6, 8} => whole[pChr] = Comma
          /\ pChr \in {3, 5} => whole[pChr] = Quote
          /\ pChr \notin {3, 5} => whole[pChr] # Quote
      BY <1>4, <1>5, <1>6, <2>1
    <3>3. inQuotation \/ pChr \notin {2, 6, 8}
      BY <3>1, <3>2
    <3>4. pChr \in {3, 5} => (inQuotation' <=> ~inQuotation)
      BY <3>1, <3>2, Zenon
    <3>5. pChr \notin {3, 5} => (inQuotation' <=> inQuotation)
      BY <3>1, <3>2, Zenon
    <3> QED BY <3>3, <3>4, <3>5, Zenon
  <2>3. EntrySplit
    BY <1>3, <2>1
  <2>4. pChr \in {1, 3, 4, 5, 7}
    BY <1>5, <2>1, <2>2, <2>3 DEF EntrySplit
  <2>5. /\ pChr' \in {2, 4, 5, 6, 8}
        /\ inQuotation' => pChr' \in {4, 5}
        /\ pChr' \in {4, 5} => inQuotation'
    <3>1. pChr' = pChr + 1
      BY <2>1
    <3>2. (inQuotation => pChr \in {4, 5}) /\ (pChr \in {4, 5} => inQuotation)
      BY <2>3 DEF EntrySplit
    <3>3. CASE pChr \in {3, 5}
      BY <3>1, <3>2, <3>3, <2>2
    <3>4. CASE pChr \in {1, 4, 7}
      BY <3>1, <3>2, <3>4, <2>2
    <3> QED BY <2>4, <3>3, <3>4
  <2> QED BY <2>1, <2>3, <2>4, <2>5 DEF EntrySplit
<1>8. CASE Separate
  <2>1. /\ UNCHANGED <<inQuotation, arraySize, skipEmpty, whole>> /\ running /\ pChr' = pChr + 1
        /\ line' = [line EXCEPT ![pChr] = Zero] /\ whole[pChr] = Comma /\ ~inQuotation
    BY <1>8, <1>5 DEF Separate, Here
  <2>2. EntrySplit
    BY <1>3, <2>1
  <2>3. pChr \in {2, 6, 8}
    BY <1>4, <1>5, <1>6, <2>1
  <2>4. subStrArray' = Append(subStrArray, pChr + 1)
    BY <1>8, <1>5, <2>1, <2>2 DEF Separate, EntrySplit
  <2>5. /\ pChr = 2 => subStrArray' = <<1, 3>>
        /\ pChr = 6 => subStrArray' = <<1, 3, 7>>
        /\ pChr = 8 => subStrArray' = <<1, 3, 7, 9>>
    <3>1. pChr = 2 => subStrArray' = <<1, 3>>
      <4>1. Append(<<1>>, 3) = <<1, 3>>
        BY Parts4
      <4>2. pChr = 2 => subStrArray = <<1>> /\ pChr + 1 = 3
        BY <2>2 DEF EntrySplit
      <4> QED BY <2>4, <4>1, <4>2, Zenon
    <3>2. pChr = 6 => subStrArray' = <<1, 3, 7>>
      <4>1. Append(<<1, 3>>, 7) = <<1, 3, 7>>
        BY Parts4
      <4>2. pChr = 6 => subStrArray = <<1, 3>> /\ pChr + 1 = 7
        BY <2>2 DEF EntrySplit
      <4> QED BY <2>4, <4>1, <4>2, Zenon
    <3>3. pChr = 8 => subStrArray' = <<1, 3, 7, 9>>
      <4>1. Append(<<1, 3, 7>>, 9) = <<1, 3, 7, 9>>
        BY Parts4
      <4>2. pChr = 8 => subStrArray = <<1, 3, 7>> /\ pChr + 1 = 9
        BY <2>2 DEF EntrySplit
      <4> QED BY <2>4, <4>1, <4>2, Zenon
    <3> QED BY <3>1, <3>2, <3>3
  <2>6. running' = (pChr # Len(line) /\ Len(subStrArray') < 4)
    BY <1>8, <2>2 DEF Separate, EntrySplit
  <2>7. /\ pChr \in {2, 6} => running'
        /\ pChr = 8 => ~running'
    <3>1. /\ pChr = 2 => Len(subStrArray') = 2
          /\ pChr = 6 => Len(subStrArray') = 3
          /\ pChr = 8 => Len(subStrArray') = 4
      BY <2>5
    <3>2. running' => Len(subStrArray') < 4
      BY <2>6, Zenon
    <3>3. pChr # Len(line) /\ Len(subStrArray') < 4 => running'
      BY <2>6, Zenon
    <3>4. pChr # Len(line)
      BY <1>5, <2>1
    <3>5. pChr \in {2, 6} => Len(subStrArray') < 4
      <4>1. 2 < 4 /\ 3 < 4
        OBVIOUS
      <4> QED BY <3>1, <4>1, Zenon
    <3>6. pChr = 8 => ~(Len(subStrArray') < 4)
      BY <3>1
    <3> QED BY <3>2, <3>3, <3>4, <3>5, <3>6, Zenon
  <2>8. \A i \in 1 .. Len(line') : line'[i] = IF i \in {2, 6, 8} /\ i < pChr' THEN Zero ELSE whole'[i]
    BY <2>1, <2>2, <2>3, <1>5 DEF EntrySplit, BookTypes
  <2> QED BY <2>1, <2>2, <2>3, <2>5, <2>7, <2>8 DEF EntrySplit
<1>9. CASE Return
  BY <1>9, <1>5 DEF Return, AtEnd, BookTypes
<1>10. CASE ReadEntry
  BY <1>10, <1>0 DEF ReadEntry
<1>11. CASE ClearBook
  BY <1>11, <1>3 DEF ClearBook, split, EntrySplit
<1>12. CASE UNCHANGED reading
  BY <1>12, <1>3 DEF reading, split, EntrySplit
<1> QED BY <1>1, <1>2, <1>7, <1>8, <1>9, <1>10, <1>11, <1>12 DEF PBNext

\* An entry that is split gives its number and its name.
LEMMA SplitGives ==
  ASSUME BookTypes, NEW phone \in Phone, NEW name \in Name,
         ~running, whole = Entry(phone, name), EntrySplit
  PROVE  Len(subStrArray) = 4 /\ Piece(2) = <<phone>> /\ Piece(4) = name
<1>1. /\ whole \in Seq(Symbol) /\ Len(whole) = Len(name) + 10 /\ Len(line) = Len(whole)
      /\ name \in Seq(Symbol) /\ Len(name) \in Nat /\ phone \in Symbol
      /\ whole[3] = Quote /\ whole[4] = phone /\ whole[5] = Quote /\ whole[9] = Quote
      /\ \A i \in 1 .. Len(name) : whole[9 + i] = name[i]
      /\ whole[Len(name) + 10] = Quote
  <2>1. whole \in Seq(Symbol) /\ Len(line) = Len(whole)
    BY DEF BookTypes
  <2>2. phone \in Symbol
    BY DEF Symbol
  <2>3. name \in Seq(Symbol)
    BY EntryShape
  <2> QED BY <2>1, <2>2, <2>3, EntryShape
<1>2. \A i \in 1 .. Len(line) : line[i] = IF i \in {2, 6, 8} THEN Zero ELSE whole[i]
  BY DEF EntrySplit
<1>3. \A i \in 1 .. Len(line) : whole[i] \in Symbol /\ whole[i] # Zero
  BY <1>1, NoZero
<1>4. Len(subStrArray) = 4 /\ subStrArray[2] = 3 /\ subStrArray[4] = 9
  BY DEF EntrySplit
<1>5. \A i \in 1 .. Len(line) : line[i] \in Symbol \cup {Zero}
  BY DEF BookTypes
<1>6. Piece(2) = <<phone>>
  <2> DEFINE ends == {j \in 3 .. Len(line) : line[j] = Zero}
  <2>1. 6 \in ends /\ \A k \in ends : 6 <= k
    BY <1>1, <1>2, <1>3
  <2>2. ends # {} /\ \A j \in ends : (\A k \in ends : j <= k) => j = 6
    BY <2>1
  <2>3. (CHOOSE j \in ends : \A k \in ends : j <= k) = 6
    <3> HIDE DEF ends
    <3> QED BY <2>1, <2>2
  <2>4. Text(3) = SubSeq(line, 3, 5)
    <3>1. 6 - 1 = 5
      OBVIOUS
    <3>2. Text(3) =
          SubSeq(line, 3, IF ends = {} THEN Len(line) ELSE (CHOOSE j \in ends : \A k \in ends : j <= k) - 1)
      BY DEF Text
    <3> HIDE DEF ends
    <3> QED BY <2>2, <2>3, <3>1, <3>2
  <2> DEFINE t == SubSeq(line, 3, 5)
  <2>5. /\ t \in Seq(Symbol \cup {Zero}) /\ Len(t) = 3
        /\ t[1] = Quote /\ t[2] = phone /\ t[3] = Quote
    <3>1. line[3] = Quote /\ line[4] = phone /\ line[5] = Quote
      BY <1>1, <1>2
    <3>2. \A i \in 3 .. 5 : line[i] \in Symbol \cup {Zero}
      BY <1>1, <1>5
    <3>3. /\ t \in Seq(Symbol \cup {Zero}) /\ Len(t) = IF 3 <= 5 THEN 5 - 3 + 1 ELSE 0
          /\ \A i \in 1 .. 5 - 3 + 1 : t[i] = line[3 + i - 1]
      <4>1. 3 \in Int /\ 5 \in Int
        OBVIOUS
      <4> QED BY <3>2, <4>1, SubSeqProperties
    <3> HIDE DEF t
    <3> QED BY <3>1, <3>3
  <2> HIDE DEF t
  <2>6. ShiftQuotations(t) = SubSeq(t, 2, 2)
    BY <2>5 DEF ShiftQuotations
  <2>7. SubSeq(t, 2, 2) = <<phone>>
    <3> DEFINE a == SubSeq(t, 2, 2)
               b == <<phone>>
    <3>1. a \in Seq(Symbol \cup {Zero}) /\ Len(a) = 1 /\ a[1] = phone
      <4>1. 2 \in Int /\ \A i \in 2 .. 2 : t[i] \in Symbol \cup {Zero}
        BY <1>1, <2>5
      <4>2. /\ a \in Seq(Symbol \cup {Zero}) /\ Len(a) = IF 2 <= 2 THEN 2 - 2 + 1 ELSE 0
            /\ \A i \in 1 .. 2 - 2 + 1 : a[i] = t[2 + i - 1]
        BY <4>1, SubSeqProperties
      <4> HIDE DEF a
      <4> QED BY <2>5, <4>2
    <3>2. b \in Seq(Symbol \cup {Zero}) /\ Len(b) = 1 /\ b[1] = phone
      BY <1>1
    <3> HIDE DEF a, b
    <3>3. a = b
      BY <3>1, <3>2, SeqEqual
    <3> QED BY <3>3 DEF a, b
  <2> QED BY <1>4, <2>4, <2>6, <2>7 DEF Piece, t
<1>7. Piece(4) = name
  <2> DEFINE ends == {j \in 9 .. Len(line) : line[j] = Zero}
  <2>1. ends = {}
    BY <1>1, <1>2, <1>3
  <2>2. Text(9) = SubSeq(line, 9, Len(line))
    BY <2>1 DEF Text
  <2> DEFINE t == SubSeq(line, 9, Len(line))
             n == Len(name)
  <2>3. /\ t \in Seq(Symbol \cup {Zero}) /\ Len(t) = n + 2
        /\ \A i \in 1 .. n + 2 : t[i] = whole[8 + i]
    <3>1. \A i \in 9 .. Len(line) : line[i] \in Symbol \cup {Zero}
      BY <1>1, <1>5
    <3>2. 9 \in Int /\ Len(line) \in Int
      BY <1>1
    <3>3. /\ t \in Seq(Symbol \cup {Zero}) /\ Len(t) = IF 9 <= Len(line) THEN Len(line) - 9 + 1 ELSE 0
          /\ \A i \in 1 .. Len(line) - 9 + 1 : t[i] = line[9 + i - 1]
      BY <3>1, <3>2, SubSeqProperties
    <3> HIDE DEF t
    <3>4. Len(t) = n + 2 /\ \A i \in 1 .. n + 2 : t[i] = line[9 + i - 1]
      BY <1>1, <3>3
    <3>5. ASSUME NEW i \in 1 .. n + 2
          PROVE  line[9 + i - 1] = whole[8 + i]
      <4>1. n \in Nat /\ Len(line) = n + 10
        BY <1>1
      <4>2. 9 + i - 1 = 8 + i /\ 8 + i \in 1 .. Len(line) /\ 8 + i > 8
        BY <4>1
      <4> QED BY <1>2, <4>2
    <3> QED BY <3>3, <3>4, <3>5
  <2> HIDE DEF t
  <2>4. t[1] = Quote /\ t[n + 2] = Quote /\ t # <<>> /\ \A i \in 1 .. n : t[1 + i] = name[i]
    <3>1. n + 2 \in 1 .. n + 2 /\ 1 \in 1 .. n + 2 /\ 8 + 1 = 9 /\ 8 + (n + 2) = n + 10
      BY <1>1
    <3>2. t[1] = Quote /\ t[n + 2] = Quote
      <4> HIDE DEF n
      <4>1. t[1] = whole[9] /\ t[n + 2] = whole[n + 10]
        BY <2>3, <3>1
      <4> QED BY <1>1, <4>1 DEF n
    <3>3. \A i \in 1 .. n : 1 + i \in 1 .. n + 2 /\ 8 + (1 + i) = 9 + i
      BY <1>1
    <3>4. \A i \in 1 .. n : t[1 + i] = name[i]
      BY <1>1, <2>3, <3>3
    <3>5. t # <<>>
      BY <1>1, <2>3
    <3> QED BY <3>2, <3>4, <3>5
  <2>5. ShiftQuotations(t) = SubSeq(t, 2, n + 1)
    <3>1. Len(t) = n + 2 /\ (n + 2) - 1 = n + 1
      BY <1>1, <2>3
    <3> QED BY <2>4, <3>1 DEF ShiftQuotations
  <2>6. SubSeq(t, 2, n + 1) = name
    <3> DEFINE a == SubSeq(t, 2, n + 1)
    <3> HIDE DEF n
    <3>1. n \in Nat /\ 2 \in Int /\ n + 1 \in Int
      BY <1>1 DEF n
    <3>2. \A i \in 2 .. n + 1 : t[i] \in Symbol \cup {Zero}
      BY <2>3, <3>1
    <3>3. /\ a \in Seq(Symbol \cup {Zero}) /\ Len(a) = IF 2 <= n + 1 THEN (n + 1) - 2 + 1 ELSE 0
          /\ \A i \in 1 .. (n + 1) - 2 + 1 : a[i] = t[2 + i - 1]
      BY <3>1, <3>2, SubSeqProperties
    <3> HIDE DEF a
    <3>4. Len(a) = n
      <4>1. CASE n = 0
        BY <3>3, <4>1
      <4>2. CASE n > 0
        BY <3>1, <3>3, <4>2
      <4> QED BY <3>1, <4>1, <4>2
    <3>5. \A i \in 1 .. n : a[i] = name[i]
      <4>1. \A i \in 1 .. n : i \in 1 .. (n + 1) - 2 + 1 /\ 2 + i - 1 = 1 + i
        BY <3>1
      <4> QED BY <2>4, <3>3, <4>1
    <3>6. name \in Seq(Symbol \cup {Zero})
      BY <1>1, SeqMonotonic
    <3>7. a = name
      BY <3>3, <3>4, <3>5, <3>6, SeqEqual DEF n
    <3> QED BY <3>7 DEF a
  <2> QED BY <1>4, <2>2, <2>5, <2>6 DEF Piece, t
<1> QED BY <1>4, <1>6, <1>7

\* Sorted insertion: what is in front of the place stays, the rest moves by one.
LEMMA Inserted ==
  ASSUME NEW b \in Seq(Item), NEW item \in Item, NEW p \in 1 .. Len(b) + 1, p = Place(b, item)
  PROVE  /\ AppendEntry(b, item) \in Seq(Item)
         /\ Len(AppendEntry(b, item)) = IF Len(b) + 1 < MAX_PHONES_STORE THEN Len(b) + 1 ELSE MAX_PHONES_STORE
         /\ \A k \in 1 .. Len(AppendEntry(b, item)) :
              /\ k < p => AppendEntry(b, item)[k] = b[k]
              /\ k = p => AppendEntry(b, item)[k] = item
              /\ k > p => AppendEntry(b, item)[k] = b[k - 1]
<1> DEFINE x == SubSeq(b, 1, p - 1)
           y == SubSeq(b, p, Len(b))
           n == Len(b)
<1>1. n \in Nat /\ p \in Int /\ 1 \in Int /\ p - 1 \in Int /\ \A i \in 1 .. n : b[i] \in Item
  OBVIOUS
<1>2. x \in Seq(Item) /\ Len(x) = p - 1 /\ \A i \in 1 .. p - 1 : x[i] = b[i]
  <2>1. \A i \in 1 .. p - 1 : b[i] \in Item
    OBVIOUS
  <2>2. /\ x \in Seq(Item) /\ Len(x) = IF 1 <= p - 1 THEN (p - 1) - 1 + 1 ELSE 0
        /\ \A i \in 1 .. (p - 1) - 1 + 1 : x[i] = b[1 + i - 1]
    BY <1>1, <2>1, SubSeqProperties
  <2> HIDE DEF x
  <2>3. Len(x) = p - 1
    <3>1. CASE p = 1
      BY <2>2, <3>1
    <3>2. CASE p > 1
      BY <1>1, <2>2, <3>2
    <3> QED BY <3>1, <3>2
  <2>4. \A i \in 1 .. p - 1 : i \in 1 .. (p - 1) - 1 + 1 /\ 1 + i - 1 = i
    OBVIOUS
  <2> QED BY <2>2, <2>3, <2>4
<1>3. y \in Seq(Item) /\ Len(y) = n - p + 1 /\ \A i \in 1 .. n - p + 1 : y[i] = b[p + i - 1]
  <2>1. \A i \in p .. n : b[i] \in Item
    OBVIOUS
  <2>2. /\ y \in Seq(Item) /\ Len(y) = IF p <= n THEN n - p + 1 ELSE 0
        /\ \A i \in 1 .. n - p + 1 : y[i] = b[p + i - 1]
    BY <1>1, <2>1, SubSeqProperties
  <2> HIDE DEF x, y, n
  <2>3. Len(y) = n - p + 1
    <3>1. CASE p = n + 1
      BY <1>1, <2>2, <3>1
    <3>2. CASE p <= n
      BY <1>1, <2>2, <3>2
    <3> QED BY <1>1, <3>1, <3>2 DEF n
  <2> QED BY <2>2, <2>3
<1> DEFINE z == x \o <<item>>
           all == z \o y
<1> HIDE DEF x, y
<1>4. /\ z \in Seq(Item) /\ Len(z) = p
      /\ \A i \in 1 .. p - 1 : z[i] = b[i]
      /\ z[p] = item
  BY <1>1, <1>2
<1> HIDE DEF z
<1>5. /\ all \in Seq(Item) /\ Len(all) = n + 1
      /\ \A k \in 1 .. n + 1 :
           /\ k < p => all[k] = b[k]
           /\ k = p => all[k] = item
           /\ k > p => all[k] = b[k - 1]
  <2>1. /\ all \in Seq(Item) /\ Len(all) = Len(z) + Len(y)
        /\ \A i \in 1 .. Len(z) + Len(y) : all[i] = IF i <= Len(z) THEN z[i] ELSE y[i - Len(z)]
    BY <1>3, <1>4, ConcatProperties, Zenon
  <2> HIDE DEF all
  <2>2. Len(all) = n + 1 /\ \A i \in 1 .. n + 1 : all[i] = IF i <= p THEN z[i] ELSE y[i - p]
    BY <1>1, <1>3, <1>4, <2>1
  <2>3. ASSUME NEW k \in 1 .. n + 1, k > p PROVE all[k] = b[k - 1]
    <3>1. all[k] = y[k - p] /\ k - p \in 1 .. n - p + 1 /\ p + (k - p) - 1 = k - 1
      BY <1>1, <2>2, <2>3
    <3> QED BY <1>3, <3>1
  <2>4. ASSUME NEW k \in 1 .. n + 1, k < p PROVE all[k] = b[k]
    BY <1>1, <1>4, <2>2, <2>4
  <2> QED BY <1>1, <1>4, <2>1, <2>2, <2>3, <2>4
<1>6. all = SubSeq(b, 1, p - 1) \o <<item>> \o SubSeq(b, p, Len(b))
  BY DEF all, x, y, z
<1> DEFINE m == IF Len(all) < MAX_PHONES_STORE THEN Len(all) ELSE MAX_PHONES_STORE
<1>7. AppendEntry(b, item) = SubSeq(all, 1, m)
  BY <1>6, Zenon DEF AppendEntry
<1> HIDE DEF all, n
<1>8. m \in Int /\ m \in 1 .. n + 1 /\ m = IF n + 1 < MAX_PHONES_STORE THEN n + 1 ELSE MAX_PHONES_STORE
  BY <1>1, <1>5, BookAssumption
<1> HIDE DEF m
<1>9. \A i \in 1 .. m : all[i] \in Item
  BY <1>5, <1>8, <1>1
<1> DEFINE r == SubSeq(all, 1, m)
<1>10. /\ r \in Seq(Item) /\ Len(r) = IF 1 <= m THEN m - 1 + 1 ELSE 0
       /\ \A i \in 1 .. m - 1 + 1 : r[i] = all[1 + i - 1]
  BY <1>1, <1>8, <1>9, SubSeqProperties
<1> HIDE DEF r
<1>11. r \in Seq(Item) /\ Len(r) = m /\ \A i \in 1 .. m : r[i] = all[i]
  BY <1>1, <1>8, <1>10
<1>12. \A k \in 1 .. Len(r) :
         /\ k < p => r[k] = b[k]
         /\ k = p => r[k] = item
         /\ k > p => r[k] = b[k - 1]
  <2>1. ASSUME NEW k \in 1 .. Len(r)
        PROVE  k \in 1 .. n + 1 /\ r[k] = all[k]
    BY <1>1, <1>8, <1>11
  <2> QED BY <1>5, <2>1
<1> QED BY <1>7, <1>8, <1>11, <1>12 DEF r, n

\* The ranks of what was read are the places in the book: every place up to the
\* number of entries is somebody's rank, which makes Rank a permutation.
RankInv ==
  /\ \A i \in 1 .. Len(read) : Rank(i) \in 1 .. Len(read)
  /\ \A p \in 1 .. Len(read) : \E i \in 1 .. Len(read) : Rank(i) = p
  /\ Len(book) = IF Len(read) < MAX_PHONES_STORE THEN Len(read) ELSE MAX_PHONES_STORE
  /\ \A i \in 1 .. Len(read) : Rank(i) \in 1 .. Len(book) => book[Rank(i)] = read[i]

LEMMA RankSteps ==
  ASSUME BookTypes, RankInv, NEW item \in Item,
         book' = AppendEntry(book, item), read' = Append(read, item)
  PROVE  RankInv' /\ book' \in Seq(Item) /\ read' \in Seq(Item)
<1>0. PICK n \in Nat : n = Len(read)
  BY DEF BookTypes
<1> DEFINE low == {j \in 1 .. n : read[j].sortIndex <= item.sortIndex}
           l == Cardinality(low)
           upTo(i) == {j \in 1 .. n :
                         \/ read[j].sortIndex < read[i].sortIndex
                         \/ read[j].sortIndex = read[i].sortIndex /\ j <= i}
<1>1. /\ n \in Nat /\ DOMAIN read = 1 .. n /\ read \in Seq(Item) /\ book \in Seq(Item)
      /\ Len(book) \in Nat /\ DOMAIN book = 1 .. Len(book)
      /\ item.sortIndex \in Nat
      /\ \A i \in 1 .. n : read[i] \in Item /\ read[i].sortIndex \in Nat
  <2>1. /\ read \in Seq(Item) /\ book \in Seq(Item)
    BY DEF BookTypes
  <2>2. \A x \in Item : x.sortIndex \in Nat
    BY BookAssumption DEF Item
  <2> QED BY <1>0, <2>1, <2>2
<1>2. /\ read' \in Seq(Item) /\ Len(read') = n + 1 /\ DOMAIN read' = 1 .. n + 1
      /\ \A i \in 1 .. n : read'[i] = read[i]
      /\ read'[n + 1] = item
  BY <1>0, <1>1
<1>3. IsFiniteSet(1 .. n)
  BY <1>0, <1>1, FS_Interval
<1>4. IsFiniteSet(low) /\ l \in 0 .. n
  <2>1. IsFiniteSet(low) /\ l <= Cardinality(1 .. n)
    BY <1>3, FS_Subset
  <2>2. Cardinality(1 .. n) = n
    <3>1. Cardinality(1 .. n) = IF 1 > n THEN 0 ELSE n - 1 + 1
      <4>1. 1 \in Int /\ n \in Int
        BY <1>0
      <4> QED BY <4>1, FS_Interval
    <3>2. CASE n = 0
      BY <3>1, <3>2
    <3>3. CASE n > 0
      BY <1>0, <3>1, <3>3
    <3> QED BY <1>0, <3>2, <3>3
  <2> QED BY <2>1, <2>2, <1>1, FS_CardinalityType
<1>5. ASSUME NEW i \in 1 .. n
      PROVE  IsFiniteSet(upTo(i)) /\ Rank(i) = Cardinality(upTo(i)) /\ Rank(i) \in 1 .. n
  BY <1>0, <1>1, <1>3, FS_Subset DEF Rank, RankInv
<1>6. ASSUME NEW i \in 1 .. n
      PROVE  Rank(i)' = IF item.sortIndex < read[i].sortIndex THEN Rank(i) + 1 ELSE Rank(i)
  <2> DEFINE after == {j \in 1 .. n + 1 :
                         \/ read'[j].sortIndex < read'[i].sortIndex
                         \/ read'[j].sortIndex = read'[i].sortIndex /\ j <= i}
  <2>1. Rank(i)' = Cardinality(after)
    BY <1>0, <1>1, <1>2 DEF Rank
  <2>2. CASE item.sortIndex < read[i].sortIndex
    <3>1. after = upTo(i) \cup {n + 1}
      <4>1. n + 1 \in after
        BY <1>0, <1>1, <1>2, <2>2
      <4>2. ASSUME NEW j \in 1 .. n
            PROVE  j \in after <=> j \in upTo(i)
        BY <1>0, <1>2
      <4>3. ASSUME NEW j
            PROVE  j \in 1 .. n + 1 <=> j \in 1 .. n \/ j = n + 1
        BY <1>0
      <4>4. after \subseteq 1 .. n + 1 /\ upTo(i) \subseteq 1 .. n
        BY <1>0, <1>1
      <4> HIDE DEF after
      <4>5. ASSUME NEW j
            PROVE  j \in after <=> j \in upTo(i) \cup {n + 1}
        BY <4>1, <4>2, <4>3, <4>4
      <4> QED BY <4>5
    <3>2. n + 1 \notin upTo(i)
      BY <1>0, <1>1
    <3>3. Cardinality(upTo(i) \cup {n + 1}) = Cardinality(upTo(i)) + 1
      BY <1>5, <3>2, FS_AddElement
    <3> QED BY <1>5, <2>1, <2>2, <3>1, <3>3
  <2>3. CASE ~(item.sortIndex < read[i].sortIndex)
    <3>1. after = upTo(i)
      BY <1>0, <1>1, <1>2, <2>3
    <3> QED BY <1>5, <2>1, <2>3, <3>1
  <2> QED BY <2>2, <2>3
<1>7. Rank(n + 1)' = l + 1
  <2> DEFINE after == {j \in 1 .. n + 1 :
                         \/ read'[j].sortIndex < read'[n + 1].sortIndex
                         \/ read'[j].sortIndex = read'[n + 1].sortIndex /\ j <= n + 1}
  <2>1. Rank(n + 1)' = Cardinality(after)
    BY <1>0, <1>1, <1>2 DEF Rank
  <2>2. after = low \cup {n + 1}
    BY <1>0, <1>1, <1>2
  <2>3. n + 1 \notin low
    BY <1>0, <1>1
  <2> QED BY <1>4, <2>1, <2>2, <2>3, FS_AddElement
<1>8. ASSUME NEW i \in 1 .. n, read[i].sortIndex <= item.sortIndex
      PROVE  Rank(i) <= l
  <2>1. upTo(i) \subseteq low
    BY <1>0, <1>1, <1>8
  <2>2. Cardinality(upTo(i)) <= l
    BY <1>4, <2>1, FS_Subset
  <2> QED BY <1>5, <2>2
<1>9. ASSUME NEW i \in 1 .. n, read[i].sortIndex > item.sortIndex
      PROVE  Rank(i) > l
  <2>1. low \subseteq upTo(i) /\ i \in upTo(i) /\ i \notin low
    BY <1>0, <1>1, <1>9
  <2>2. l <= Cardinality(upTo(i)) /\ (Cardinality(upTo(i)) = l => upTo(i) = low)
    BY <1>5, <2>1, FS_Subset
  <2>3. Cardinality(upTo(i)) # l
    BY <2>1, <2>2
  <2>4. Rank(i) = Cardinality(upTo(i)) /\ Rank(i) \in 1 .. n
    BY <1>5
  <2> HIDE DEF upTo, l
  <2>5. Rank(i) # l /\ l <= Rank(i)
    BY <2>2, <2>3, <2>4
  <2> QED BY <1>0, <1>4, <2>4, <2>5
<1> HIDE DEF l, low, upTo
<1>10. ASSUME NEW i \in 1 .. n
       PROVE  /\ Rank(i) \in 1 .. n
              /\ Rank(i) <= l => Rank(i)' = Rank(i)
              /\ Rank(i) > l => Rank(i)' = Rank(i) + 1
  <2>1. read[i].sortIndex \in Nat /\ item.sortIndex \in Nat /\ Rank(i) \in 1 .. n /\ l \in 0 .. n
    BY <1>0, <1>1, <1>4, <1>5
  <2>2. CASE read[i].sortIndex <= item.sortIndex
    BY <1>6, <1>8, <2>1, <2>2
  <2>3. CASE read[i].sortIndex > item.sortIndex
    BY <1>6, <1>9, <2>1, <2>3
  <2> QED BY <2>1, <2>2, <2>3
<1>11. ASSUME NEW q \in 1 .. n
       PROVE  \E i \in 1 .. n : Rank(i) = q
  BY <1>0, <1>11 DEF RankInv
<1> USE <1>0
<1>12. \A i \in 1 .. n + 1 : Rank(i)' \in 1 .. n + 1
  <2>1. \A i \in 1 .. n : Rank(i)' \in {Rank(i), Rank(i) + 1} /\ Rank(i) \in 1 .. n
    BY <1>4, <1>10
  <2>2. \A i \in 1 .. n : Rank(i)' \in 1 .. n + 1
    BY <2>1
  <2>3. Rank(n + 1)' \in 1 .. n + 1
    BY <1>4, <1>7
  <2>4. \A i \in 1 .. n + 1 : i \in 1 .. n \/ i = n + 1
    OBVIOUS
  <2> QED BY <2>2, <2>3, <2>4
<1>13. ASSUME NEW q \in 1 .. n + 1
       PROVE  \E i \in 1 .. n + 1 : Rank(i)' = q
  <2>1. CASE q <= l
    <3>0. q \in 1 .. n
      BY <1>4, <2>1
    <3>1. PICK i \in 1 .. n : Rank(i) = q
      BY <1>11, <3>0
    <3> QED BY <1>0, <1>1, <1>10, <2>1, <3>1
  <2>2. CASE q = l + 1
    BY <1>0, <1>1, <1>7, <2>2
  <2>3. CASE q > l + 1
    <3>1. q - 1 \in 1 .. n
      BY <1>0, <1>1, <1>4, <2>3
    <3>2. PICK i \in 1 .. n : Rank(i) = q - 1
      BY <1>0, <1>11, <3>1
    <3>3. Rank(i)' = (q - 1) + 1
      <4>1. Rank(i) > l
        BY <1>4, <2>3, <3>2
      <4>2. Rank(i)' = Rank(i) + 1
        BY <1>10, <4>1
      <4> QED BY <3>2, <4>2
    <3> QED BY <1>0, <1>1, <3>2, <3>3
  <2> QED BY <1>4, <2>1, <2>2, <2>3
<1> DEFINE size == Len(book)
           place == IF l < size THEN l + 1 ELSE size + 1
<1>14. size = (IF n < MAX_PHONES_STORE THEN n ELSE MAX_PHONES_STORE) /\ size \in 0 .. n
  BY <1>0, <1>1, BookAssumption DEF RankInv
<1>15. ASSUME NEW q \in 1 .. size
       PROVE  /\ q <= l => ~(book[q].sortIndex > item.sortIndex)
              /\ q > l => book[q].sortIndex > item.sortIndex
  <2>1. PICK i \in 1 .. n : Rank(i) = q
    BY <1>0, <1>1, <1>11, <1>14
  <2>2. book[q] = read[i]
    BY <1>0, <1>1, <1>14, <2>1 DEF RankInv
  <2>3. read[i].sortIndex \in Nat /\ item.sortIndex \in Nat /\ l \in 0 .. n
    BY <1>0, <1>1, <1>4
  <2> QED BY <1>8, <1>9, <2>1, <2>2, <2>3
<1>16. place = Place(book, item) /\ place \in 1 .. size + 1
  <2> DEFINE later == {i \in DOMAIN book : book[i].sortIndex > item.sortIndex}
  <2>1. CASE l < size
    <3>1. l + 1 \in later /\ \A j \in later : l + 1 <= j
      BY <1>0, <1>1, <1>4, <1>15, <2>1
    <3>2. later # {} /\ \A i \in later : (\A j \in later : i <= j) => i = l + 1
      BY <1>0, <1>1, <1>4, <3>1
    <3>3. Place(book, item) = IF later = {} THEN size + 1 ELSE CHOOSE i \in later : \A j \in later : i <= j
      BY DEF Place
    <3> HIDE DEF later
    <3> QED BY <1>0, <1>1, <1>4, <2>1, <3>1, <3>2, <3>3
  <2>2. CASE ~(l < size)
    <3>1. later = {}
      BY <1>0, <1>1, <1>4, <1>15, <2>2
    <3> QED BY <1>0, <1>1, <1>4, <2>2, <3>1 DEF Place
  <2> QED BY <2>1, <2>2
<1>17. /\ book' \in Seq(Item)
       /\ Len(book') = IF size + 1 < MAX_PHONES_STORE THEN size + 1 ELSE MAX_PHONES_STORE
       /\ \A k \in 1 .. Len(book') :
            /\ k < place => book'[k] = book[k]
            /\ k = place => book'[k] = item
            /\ k > place => book'[k] = book[k - 1]
  <2> HIDE DEF place
  <2>1. place \in 1 .. Len(book) + 1 /\ place = Place(book, item)
    BY <1>0, <1>16
  <2> QED BY <1>0, <1>1, <2>1, Inserted
<1>18. Len(book') = (IF n + 1 < MAX_PHONES_STORE THEN n + 1 ELSE MAX_PHONES_STORE)
       /\ Len(book') \in Nat /\ Len(book') <= size + 1
  BY <1>0, <1>1, <1>14, <1>17, BookAssumption
<1>19. ASSUME NEW i \in 1 .. n + 1, Rank(i)' \in 1 .. Len(book')
       PROVE  book'[Rank(i)'] = read'[i]
  <2>1. CASE i = n + 1
    <3>1. Rank(i)' = l + 1
      BY <1>7, <2>1
    <3>2. l + 1 = place
      BY <1>0, <1>1, <1>4, <1>18, <1>19, <3>1
    <3> QED BY <1>2, <1>17, <1>19, <2>1, <3>1, <3>2
  <2>2. CASE i \in 1 .. n /\ Rank(i) <= l
    <3>1. Rank(i)' = Rank(i) /\ Rank(i) \in 1 .. n
      BY <1>0, <1>10, <2>2
    <3>2. CASE Rank(i) <= size
      <4>1. book[Rank(i)] = read[i]
        <5>1. Rank(i) \in 1 .. Len(book) /\ i \in 1 .. Len(read)
          BY <1>1, <2>2, <3>1, <3>2
        <5> QED BY <5>1 DEF RankInv
      <4>2. Rank(i) < place
        BY <1>0, <1>1, <1>4, <2>2, <3>1, <3>2
      <4> QED BY <1>2, <1>17, <1>19, <2>2, <3>1, <4>1, <4>2
    <3>3. CASE Rank(i) > size
      <4>1. Rank(i) = size + 1 /\ size < MAX_PHONES_STORE /\ n = size
        BY <1>0, <1>1, <1>14, <1>17, <1>18, <1>19, <3>1, <3>3, BookAssumption
      <4> QED BY <1>0, <1>1, <3>1, <4>1
    <3> QED BY <1>0, <1>1, <3>1, <3>2, <3>3
  <2>3. CASE i \in 1 .. n /\ Rank(i) > l
    <3>1. Rank(i)' = Rank(i) + 1 /\ Rank(i) \in 1 .. n
      BY <1>0, <1>10, <2>3
    <3>2. Rank(i) <= size
      BY <1>0, <1>1, <1>18, <1>19, <3>1
    <3>3. book[Rank(i)] = read[i]
      <4>1. Rank(i) \in 1 .. Len(book) /\ i \in 1 .. Len(read)
        BY <1>1, <2>3, <3>1, <3>2
      <4> QED BY <4>1 DEF RankInv
    <3>4. Rank(i) + 1 > place
      BY <1>0, <1>1, <1>4, <2>3, <3>1, <3>2
    <3>5. (Rank(i) + 1) - 1 = Rank(i)
      BY <3>1
    <3> QED BY <1>2, <1>17, <1>19, <2>3, <3>1, <3>3, <3>4, <3>5
  <2>4. i \in 1 .. n => Rank(i) \in Nat /\ l \in Nat
    BY <1>4, <1>10
  <2> QED BY <1>0, <1>1, <2>1, <2>2, <2>3, <2>4
<1> QED BY <1>2, <1>12, <1>13, <1>17, <1>18, <1>19, <1>0 DEF RankInv

LEMMA SmallestOf ==
  ASSUME NEW T \in SUBSET Nat, T # {}
  PROVE  \E x \in T : \A y \in T : x <= y
<1> DEFINE R == OpToRel(<, Nat)
<1>1. IsWellFoundedOn(R, Nat)
  BY NatLessThanWellFounded, Zenon
<1>2. \A x, y \in Nat : <<y, x>> \in R <=> y < x
  BY DEF OpToRel
<1> HIDE DEF R
<1>3. PICK x \in T : \A y \in T : ~(<<y, x>> \in R)
  BY <1>1, WFMin
<1>4. ASSUME NEW y \in T PROVE x <= y
  <2>1. x \in Nat /\ y \in Nat /\ ~(y < x)
    BY <1>2, <1>3
  <2> QED BY <2>1
<1> QED BY <1>4

\* An entry that was split changes the book by one item or not at all.
LEMMA EntryIsItem ==
  ASSUME BookTypes, EntryInv, ~running, IsEntry, HandleEntriy
  PROVE  \/ UNCHANGED <<book, read>>
         \/ \E item \in Item : book' = AppendEntry(book, item) /\ read' = Append(read, item)
<1>1. PICK phone \in Phone, name \in Name : whole = Entry(phone, name)
  BY DEF IsEntry
<1>2. Piece(2) = <<phone>> /\ Piece(4) = name
  BY <1>1, SplitGives DEF EntryInv
<1> DEFINE aux == {i \in DOMAIN name : name[i] \in Aux}
<1>3. CASE aux = {}
  BY <1>2, <1>3 DEF HandleEntriy
<1>4. CASE aux # {}
  <2> DEFINE first == CHOOSE i \in aux : \A j \in aux : i <= j
             item == [sortIndex |-> AuxNumber[name[first]] % SortMod, phone |-> phone]
  <2>1. aux \in SUBSET Nat
    BY EntryShape
  <2>2. first \in aux
    <3> HIDE DEF aux
    <3>1. \E i \in aux : \A j \in aux : i <= j
      BY <1>4, <2>1, SmallestOf
    <3> QED BY <3>1
  <2>3. AuxNumber[name[first]] \in Nat
    BY <2>2, BookAssumption
  <2>4. item \in Item
    <3> DEFINE number == AuxNumber[name[first]]
    <3> HIDE DEF first
    <3>1. number % SortMod \in 0 .. SortMod - 1
      <4> HIDE DEF number
      <4>1. number \in Int
        BY <2>3 DEF number
      <4> QED BY <4>1, ModRange, BookAssumption
    <3> QED BY <3>1 DEF Item
  <2>5. book' = AppendEntry(book, item) /\ read' = Append(read, item)
    <3>1. Piece(2)[1] = phone
      BY <1>2
    <3> QED BY <1>2, <1>4, <3>1 DEF HandleEntriy
  <2> QED BY <2>4, <2>5
<1> QED BY <1>3, <1>4

BookInv == BookTypes /\ EntryInv /\ RankInv

LEMMA RankKept ==
  ASSUME RankInv, UNCHANGED <<book, read>>
  PROVE  RankInv'
<1>1. read' = read /\ book' = book
  OBVIOUS
<1>2. ASSUME NEW i PROVE Rank(i)' = Rank(i)
  BY <1>1 DEF Rank
<1>3. \A i \in 1 .. Len(read) : Rank(i)' = Rank(i)
  BY <1>2
<1> QED BY <1>1, <1>3 DEF RankInv

LEMMA NoText ==
  /\ \A T : <<>> \in Seq(T)
  /\ Len(<<>>) = 0 /\ DOMAIN <<>> = {}
OBVIOUS

LEMMA BookInitInv ==
  ASSUME PBInit
  PROVE  BookInv
<1>1. BookTypes
  <2>1. /\ line = <<>> /\ whole = <<>> /\ subStrArray = <<>> /\ book = <<>> /\ read = <<>>
        /\ arraySize = 0 /\ skipEmpty = FALSE /\ pChr = 1 /\ inQuotation = FALSE /\ running = FALSE
    BY DEF PBInit
  <2>2. 1 \in 1 .. Len(line) + 1 /\ Len(subStrArray) <= 0
    BY <2>1, NoText
  <2>3. \A i \in DOMAIN subStrArray : subStrArray[i] \in 1 .. Len(line) + 1
    BY <2>1, NoText
  <2> QED BY <2>1, <2>2, <2>3, NoText, Zenon DEF BookTypes
<1>2. EntryInv
  <2>1. ASSUME NEW phone \in Phone, NEW name \in Name PROVE whole # Entry(phone, name)
    <3>1. Len(whole) = 0
      BY DEF PBInit
    <3>2. Len(Entry(phone, name)) = Len(name) + 10 /\ Len(name) \in Nat
      BY EntryShape
    <3> QED BY <3>1, <3>2
  <2> QED BY <2>1 DEF EntryInv
<1>3. RankInv
  BY BookAssumption DEF PBInit, RankInv
<1> QED BY <1>1, <1>2, <1>3 DEF BookInv

LEMMA BookNextInv ==
  ASSUME BookInv, [PBNext]_reading
  PROVE  BookInv'
<1>1. EntryInv'
  BY EntrySteps DEF BookInv
<1>2. CASE ReadEntry
  <2>1. BookTypes /\ RankInv
    BY DEF BookInv
  <2>2. (RankInv' /\ book' \in Seq(Item) /\ read' \in Seq(Item))
    <3>1. CASE UNCHANGED <<book, read>>
      BY <2>1, <3>1, RankKept DEF BookTypes
    <3>2. ASSUME NEW item \in Item, book' = AppendEntry(book, item), read' = Append(read, item)
          PROVE  RankInv' /\ book' \in Seq(Item) /\ read' \in Seq(Item)
      BY <2>1, <3>2, RankSteps
    <3> QED BY <1>2, <3>1, <3>2, EntryIsItem DEF ReadEntry, BookInv
  <2>3. /\ line' = <<>> /\ whole' = <<>> /\ arraySize' = 0 /\ skipEmpty' = FALSE /\ pChr' = 1
        /\ inQuotation' = FALSE /\ subStrArray' = <<>> /\ running' = running /\ ~running
    BY <1>2 DEF ReadEntry
  <2>4. BookTypes'
    <3>1. 1 \in 1 .. Len(line') + 1 /\ Len(subStrArray') <= 0
      BY <2>3, NoText
    <3>2. \A i \in DOMAIN subStrArray' : subStrArray'[i] \in 1 .. Len(line') + 1
      BY <2>3, NoText
    <3>3. running' = FALSE
      BY <2>1, <2>3, Zenon DEF BookTypes
    <3>4. 0 \in Nat
      OBVIOUS
    <3> QED BY <2>2, <2>3, <3>1, <3>2, <3>3, <3>4, NoText, Zenon DEF BookTypes
  <2> QED BY <1>1, <2>2, <2>4 DEF BookInv
<1>3. CASE ~ReadEntry
  <2>1. BookTypes'
    BY <1>3, EntryTypes DEF BookInv
  <2>2. CASE ClearBook
    <3>1. read' = <<>> /\ book' = <<>>
      BY <2>2 DEF ClearBook
    <3>2. RankInv'
      BY <3>1, BookAssumption DEF RankInv
    <3> QED BY <1>1, <2>1, <3>2 DEF BookInv
  <2>3. CASE ~ClearBook
    <3>1. UNCHANGED <<book, read>>
      BY <1>3, <2>3 DEF PBNext, ReceiveEntry, ReceiveLine, Skip, Separate, Return, reading
    <3>2. RankInv'
      BY <3>1, RankKept DEF BookInv
    <3> QED BY <1>1, <2>1, <3>2 DEF BookInv
  <2> QED BY <2>2, <2>3
<1> QED BY <1>2, <1>3

THEOREM BookInvHolds == PBSpec => []BookInv
<1>1. PBInit => BookInv
  BY BookInitInv
<1>2. BookInv /\ [PBNext]_reading => BookInv'
  BY BookNextInv
<1> QED BY <1>1, <1>2, PTL DEF PBSpec

\* The number and the name of an entry reach the book as they were stored, for every
\* name: the quotation marks and commas in it are behind the last comma SplitString
\* looks for.
THEOREM StoredIsRead == PBSpec => []EntryAsStored
<1>1. BookInv => EntryAsStored
  BY SplitGives DEF BookInv, EntryInv, EntryAsStored
<1> QED BY <1>1, BookInvHolds, PTL

\* Whatever order entries are read in, the book holds the first of them, equal
\* numbers in the order of reading.
THEOREM BookKeepsFirst == PBSpec => []BookIsFirst
<1>1. BookInv => BookIsFirst
  <2> SUFFICES ASSUME BookTypes, RankInv PROVE BookIsFirst
    BY DEF BookInv
  <2>1. DOMAIN read = 1 .. Len(read) /\ DOMAIN book = 1 .. Len(book) /\ Len(read) \in Nat
    BY DEF BookTypes
  <2>2. PBTypeOK
    <3>1. \A i \in DOMAIN book : book[i] \in Item
      BY <2>1 DEF BookTypes
    <3>2. \A i \in DOMAIN book : book[i].sortIndex \in 0 .. SortMod - 1 /\ book[i].phone \in Phone
      BY <3>1 DEF Item
    <3>3. Len(book) <= MAX_PHONES_STORE
      BY <2>1, BookAssumption DEF RankInv
    <3> QED BY <3>2, <3>3 DEF PBTypeOK, BookTypes
  <2> QED BY <2>1, <2>2 DEF BookIsFirst, RankInv
<1> QED BY <1>1, BookInvHolds, PTL

--------------------------------------------------------------------------------
\* The quotation marks in front of position k.
Quotes(k) == Cardinality({j \in 1 .. k - 1 : whole[j] = Quote})

\* SplitString on its way: last is where the part it is in begins; the parts before
\* it that count are in the array, and it itself for now; what was passed is
\* replaced; and a comma at the end is still to come.
ScanAt(last) ==
  /\ last \in Begins /\ last <= pChr
  /\ \A b \in Begins : b <= pChr => b <= last
  /\ subStrArray[Len(subStrArray)] = last
  /\ \A i \in 1 .. Len(subStrArray) : /\ subStrArray[i] \in Begins
                                      /\ subStrArray[i] <= last
                                      /\ Counts(subStrArray[i]) \/ subStrArray[i] = last
  /\ \A b \in Begins : b < last /\ Counts(b) => \E i \in 1 .. Len(subStrArray) : subStrArray[i] = b
  /\ \A i, j \in 1 .. Len(subStrArray) : i < j => subStrArray[i] < subStrArray[j]
  /\ Len(subStrArray) = Before(last) + 1
  /\ inQuotation => Quotes(pChr) % 2 = 1
  /\ ~inQuotation => Quotes(pChr) % 2 = 0
  /\ \A i \in 1 .. Len(whole) : line[i] = IF i \in Separators /\ i < pChr THEN Zero ELSE whole[i]
  /\ Len(whole) \in Separators => pChr <= Len(whole)

SplitInv == SplitIsFields /\ (running => \E last \in Begins : ScanAt(last))

LEMMA Ranges ==
  ASSUME BookTypes
  PROVE  /\ Len(whole) \in Nat /\ DOMAIN whole = 1 .. Len(whole) /\ Len(line) = Len(whole)
         /\ DOMAIN line = 1 .. Len(whole)
         /\ DOMAIN subStrArray = 1 .. Len(subStrArray) /\ Len(subStrArray) \in Nat
         /\ Separators \subseteq 1 .. Len(whole)
         /\ 1 \in Begins /\ Begins \subseteq 1 .. Len(whole) + 1
         /\ \A b \in Begins : b = 1 \/ b <= Len(whole)
         /\ \A k \in Separators : k # Len(whole) => k + 1 \in Begins
         /\ \A b \in Begins : b = 1 \/ (b - 1 \in Separators)
<1>1. /\ Len(whole) \in Nat /\ DOMAIN whole = 1 .. Len(whole) /\ Len(line) = Len(whole)
      /\ DOMAIN line = 1 .. Len(whole)
      /\ DOMAIN subStrArray = 1 .. Len(subStrArray) /\ Len(subStrArray) \in Nat
  BY DEF BookTypes
<1>2. Separators \subseteq 1 .. Len(whole)
  BY <1>1 DEF Separators
<1>3. \A k \in Separators : k \in Nat /\ k + 1 \in Nat /\ k + 1 - 1 = k /\ k \in 1 .. Len(whole)
  BY <1>1, <1>2
<1>4. \A b \in Begins : b = 1 \/ \E k \in Separators : k # Len(whole) /\ b = k + 1
  BY DEF Begins
<1>5. 1 \in Begins /\ \A k \in Separators : k # Len(whole) => k + 1 \in Begins
  BY DEF Begins
<1> HIDE DEF Separators
<1>6. \A b \in Begins :
        b \in 1 .. Len(whole) + 1 /\ (b = 1 \/ b <= Len(whole)) /\ (b = 1 \/ b - 1 \in Separators)
  BY <1>1, <1>3, <1>4
<1> QED BY <1>1, <1>2, <1>5, <1>6

\* The beginnings that count.
Counting == {c \in Begins : Counts(c)}

LEMMA BeforeIs ==
  /\ Counting \subseteq Begins
  /\ \A c \in Begins : c \in Counting <=> Counts(c)
  /\ \A b : Before(b) = Cardinality({c \in Counting : c < b})
<1>1. ASSUME NEW b PROVE {c \in Counting : c < b} = {c \in Begins : c < b /\ Counts(c)}
  BY Zenon DEF Counting
<1>2. Counting \subseteq Begins
  BY Zenon DEF Counting
<1>3. \A c \in Begins : c \in Counting <=> Counts(c)
  BY Zenon DEF Counting
<1> QED BY <1>1, <1>2, <1>3, Zenon DEF Before

LEMMA BeforeGrows ==
  ASSUME BookTypes
  PROVE  /\ \A b \in Nat : IsFiniteSet({c \in Counting : c < b}) /\ Before(b) \in Nat
         /\ \A a, b \in Nat : a <= b => Before(a) <= Before(b)
         /\ \A b \in Nat : b <= 1 => Before(b) = 0
<1>1. Counting \subseteq 1 .. Len(whole) + 1 /\ Len(whole) \in Nat
  BY Ranges, BeforeIs
<1>0. \A c \in Counting : c \in Nat /\ c >= 1
  BY <1>1
<1>2. IsFiniteSet(Counting)
  <2>1. 1 \in Int /\ Len(whole) + 1 \in Int
    BY <1>1
  <2>2. IsFiniteSet(1 .. Len(whole) + 1)
    BY <2>1, FS_Interval
  <2> QED BY <1>1, <2>2, FS_Subset
<1>3. ASSUME NEW b \in Nat
      PROVE  IsFiniteSet({c \in Counting : c < b}) /\ Before(b) \in Nat
  BY <1>2, FS_Subset, FS_CardinalityType, BeforeIs
<1>4. ASSUME NEW a \in Nat, NEW b \in Nat, a <= b
      PROVE  Before(a) <= Before(b)
  <2>1. {c \in Counting : c < a} \subseteq {c \in Counting : c < b}
    BY <1>0, <1>4
  <2> QED BY <1>3, <2>1, FS_Subset, BeforeIs
<1>5. ASSUME NEW b \in Nat, b <= 1 PROVE Before(b) = 0
  <2>1. {c \in Counting : c < b} = {}
    BY <1>0, <1>5
  <2> QED BY <2>1, FS_EmptySet, BeforeIs
<1> QED BY <1>3, <1>4, <1>5

\* From one part to the next.
LEMMA BeforeNext ==
  ASSUME BookTypes, NEW last \in Begins, NEW new \in Nat, last < new,
         \A b \in Begins : b < new => b <= last
  PROVE  /\ Counts(last) => Before(new) = Before(last) + 1
         /\ ~Counts(last) => Before(new) = Before(last)
<1> DEFINE P == {c \in Counting : c < last}
           Q == {c \in Counting : c < new}
<1>1. /\ Begins \subseteq Nat /\ IsFiniteSet(P) /\ Before(last) = Cardinality(P)
      /\ Before(new) = Cardinality(Q)
  <2>1. Begins \subseteq Nat
    BY Ranges
  <2> QED BY <2>1, BeforeGrows, BeforeIs
<1>2. Counting \subseteq Begins /\ (last \in Counting <=> Counts(last))
  BY BeforeIs
<1>0. last \in Nat /\ new \in Nat /\ last < new
      /\ \A c \in Counting : c \in Nat /\ (c < new => c <= last)
  BY <1>1, <1>2
<1>3. ASSUME last \in Counting PROVE Before(new) = Before(last) + 1
  <2>1. Q = P \cup {last} /\ last \notin P
    <3>1. last \notin P /\ last \in Q /\ P \subseteq Q
      <4>1. last \notin P
        BY <1>0
      <4>2. last \in Q
        BY <1>0, <1>3
      <4>3. ASSUME NEW c \in P PROVE c \in Q
        <5>1. c \in Counting /\ c < last /\ c \in Nat
          BY <1>0
        <5> QED BY <1>0, <5>1
      <4> QED BY <4>1, <4>2, <4>3
    <3>2. ASSUME NEW c \in Q PROVE c \in P \/ c = last
      BY <1>0, <3>2
    <3> QED BY <3>1, <3>2
  <2> QED BY <1>1, <2>1, FS_AddElement
<1>4. ASSUME last \notin Counting PROVE Before(new) = Before(last)
  <2>1. Q = P
    BY <1>0, <1>4
  <2> QED BY <1>1, <2>1
<1> QED BY <1>2, <1>3, <1>4, Zenon

LEMMA QuotesNext ==
  ASSUME BookTypes, NEW k \in 1 .. Len(whole)
  PROVE  /\ Quotes(k) \in Nat
         /\ Quotes(k + 1) = IF whole[k] = Quote THEN Quotes(k) + 1 ELSE Quotes(k)
<1> DEFINE P == {j \in 1 .. k - 1 : whole[j] = Quote}
           Q == {j \in 1 .. (k + 1) - 1 : whole[j] = Quote}
<1>0. k \in Nat /\ k >= 1
  BY Ranges
<1>1. IsFiniteSet(P) /\ Quotes(k) = Cardinality(P) /\ Quotes(k + 1) = Cardinality(Q) /\ Cardinality(P) \in Nat
  <2>1. 1 \in Int /\ k - 1 \in Int
    BY <1>0
  <2>2. IsFiniteSet(1 .. k - 1)
    BY <2>1, FS_Interval
  <2> QED BY <2>2, FS_Subset, FS_CardinalityType DEF Quotes
<1>2. CASE whole[k] = Quote
  <2>1. Q = P \cup {k} /\ k \notin P
    BY <1>0, <1>2
  <2> QED BY <1>1, <1>2, <2>1, FS_AddElement
<1>3. CASE whole[k] # Quote
  <2>1. Q = P
    BY <1>0, <1>3
  <2> QED BY <1>1, <1>3, <2>1
<1> QED BY <1>2, <1>3

\* The parts of a line that has room for all.
LEMMA PartsAll ==
  ASSUME BookTypes, NEW last \in Begins, \A b \in Begins : b <= last, Before(last) < arraySize - 1
  PROVE  Parts = {b \in Begins : Counts(b)}
<1>1. Begins \subseteq Nat /\ arraySize \in Nat
  BY Ranges DEF BookTypes
<1>2. ASSUME NEW b \in Begins PROVE Before(b) < arraySize - 1 /\ Before(b) \in Nat
  <2>1. Before(b) <= Before(last) /\ Before(b) \in Nat /\ Before(last) \in Nat
    BY <1>1, BeforeGrows
  <2> QED BY <1>1, <2>1
<1>3. \A b \in Begins : Before(b) < arraySize - 1 /\ Before(b) # arraySize - 1
  BY <1>1, <1>2
<1> QED BY <1>3 DEF Parts

\* The parts of a line when the array is full with the one that begins at new.
LEMMA PartsFull ==
  ASSUME BookTypes, NEW last \in Begins, NEW new \in Begins, last < new,
         \A b \in Begins : b < new => b <= last,
         Before(last) < arraySize - 1, Before(new) = arraySize - 1
  PROVE  Parts = {b \in Begins : b <= last /\ Counts(b)} \cup {new}
<1>1. Begins \subseteq Nat /\ arraySize \in Nat
  BY Ranges DEF BookTypes
<1>2. ASSUME NEW b \in Begins, b < new PROVE Before(b) < arraySize - 1 /\ Before(b) \in Nat
  <2>1. b <= last
    BY <1>2
  <2>2. Before(b) <= Before(last) /\ Before(b) \in Nat /\ Before(last) \in Nat
    BY <1>1, <2>1, BeforeGrows
  <2> QED BY <1>1, <2>2
<1>3. ASSUME NEW b \in Begins, b > new PROVE ~(Before(b) < arraySize - 1)
  <2>1. Before(new) <= Before(b) /\ Before(b) \in Nat
    <3>1. new \in Nat /\ b \in Nat /\ new <= b
      BY <1>1, <1>3
    <3> QED BY <3>1, BeforeGrows
  <2> QED BY <1>1, <2>1
<1>4. ASSUME NEW b \in Parts PROVE b \in {c \in Begins : c <= last /\ Counts(c)} \cup {new}
  <2>0. b \in Begins /\ b \in Nat /\ new \in Nat /\ last \in Nat
    BY <1>1, <1>4 DEF Parts
  <2>1. CASE b > new
    <3>1. ~(Before(b) < arraySize - 1)
      BY <1>3, <2>0, <2>1
    <3>2. Before(new) < arraySize - 1
      BY <1>4, <2>0, <2>1, <3>1 DEF Parts
    <3> QED BY <1>1, <3>2
  <2>2. CASE b < new
    <3>1. Before(b) < arraySize - 1 /\ Before(b) # arraySize - 1
      BY <1>1, <1>2, <2>0, <2>2
    <3>2. Counts(b)
      BY <1>4, <3>1 DEF Parts
    <3>3. b <= last
      BY <2>0, <2>2
    <3> QED BY <2>0, <3>2, <3>3
  <2> QED BY <2>0, <2>1, <2>2
<1>5. ASSUME NEW b \in Begins, b <= last, Counts(b) PROVE b \in Parts
  <2>1. b < new
    BY <1>1, <1>5
  <2>2. Before(b) < arraySize - 1
    BY <1>2, <2>1
  <2> QED BY <1>5, <2>2 DEF Parts
<1>6. new \in Parts
  <2>1. \A c \in Begins : c < new => Before(c) < arraySize - 1
    BY <1>2
  <2> QED BY <2>1 DEF Parts
<1> QED BY <1>4, <1>5, <1>6

\* A line that is to be split, or none.
Fresh ==
  /\ line = whole /\ pChr = 1 /\ inQuotation = FALSE
  /\ subStrArray = IF arraySize = 0 THEN <<>> ELSE <<1>>
  /\ running => arraySize > 1
  /\ ~running => arraySize <= 1

LEMMA FreshSplit == BookTypes /\ Fresh => SplitInv
<1> SUFFICES ASSUME BookTypes, Fresh PROVE SplitInv
  OBVIOUS
<1> DEFINE n == Len(whole)
<1>1. /\ n \in Nat /\ DOMAIN whole = 1 .. n /\ DOMAIN line = 1 .. n /\ line = whole
      /\ Separators \subseteq 1 .. n /\ 1 \in Begins /\ Begins \subseteq 1 .. n + 1
      /\ arraySize \in Nat
  BY Ranges DEF BookTypes, Fresh
<1>2. \A b \in Begins : b \in Nat /\ b >= 1 /\ Before(b) \in Nat /\ Before(1) = 0
  <2>1. \A b \in Begins : b \in Nat /\ b >= 1
    BY <1>1
  <2>2. Before(1) = 0
    BY BeforeGrows
  <2> QED BY <2>1, <2>2, BeforeGrows
<1>3. CASE arraySize = 0
  <2>1. ~running /\ subStrArray = <<>> /\ DOMAIN subStrArray = {} /\ Len(subStrArray) = 0
    BY <1>3, NoText DEF Fresh
  <2>2. Parts = {}
    <3>1. \A b \in Begins : ~(Before(b) < arraySize - 1) /\ Before(b) # arraySize - 1
      BY <1>2, <1>3
    <3> QED BY <3>1 DEF Parts
  <2>3. line = [i \in DOMAIN whole |->
                 IF i \in Separators
                    /\ (Len(subStrArray) < arraySize \/ \E j \in DOMAIN subStrArray : i < subStrArray[j])
                 THEN Zero ELSE whole[i]]
    <3>1. whole = [i \in DOMAIN whole |-> whole[i]]
      BY DEF BookTypes
    <3>2. \A i \in DOMAIN whole :
            ~(Len(subStrArray) < arraySize \/ \E j \in DOMAIN subStrArray : i < subStrArray[j])
      BY <1>3, <2>1
    <3> QED BY <1>1, <3>1, <3>2, Zenon
  <2> QED BY <2>1, <2>2, <2>3 DEF SplitInv, SplitIsFields
<1>4. CASE arraySize > 0
  <2>1. subStrArray = <<1>> /\ DOMAIN subStrArray = {1} /\ Len(subStrArray) = 1 /\ subStrArray[1] = 1
    <3>1. subStrArray = <<1>>
      BY <1>1, <1>4 DEF Fresh
    <3>2. DOMAIN <<1>> = {1} /\ Len(<<1>>) = 1
      OBVIOUS
    <3> QED BY <3>1, <3>2
  <2>2. CASE arraySize = 1
    <3>1. ~running
      BY <2>2 DEF Fresh
    <3>2. Parts = {1}
      <4>1. \A b \in Begins : ~(Before(b) < arraySize - 1)
        BY <1>2, <2>2
      <4>2. Before(1) = arraySize - 1 /\ \A c \in Begins : ~(c < 1)
        BY <1>1, <1>2, <2>2
      <4>3. \A b \in Begins : b # 1 => 1 < b
        BY <1>2
      <4> QED BY <1>1, <4>1, <4>2, <4>3 DEF Parts
    <3>3. line = [i \in DOMAIN whole |->
                   IF i \in Separators
                      /\ (Len(subStrArray) < arraySize \/ \E j \in DOMAIN subStrArray : i < subStrArray[j])
                   THEN Zero ELSE whole[i]]
      <4>1. whole = [i \in DOMAIN whole |-> whole[i]]
        BY DEF BookTypes
      <4>2. \A i \in DOMAIN whole :
              ~(Len(subStrArray) < arraySize \/ \E j \in DOMAIN subStrArray : i < subStrArray[j])
        BY <1>1, <2>1, <2>2
      <4> QED BY <1>1, <4>1, <4>2, Zenon
    <3>4. {subStrArray[i] : i \in DOMAIN subStrArray} = {1}
      BY <2>1
    <3>5. \A i, j \in DOMAIN subStrArray : i < j => subStrArray[i] < subStrArray[j]
      BY <2>1
    <3> QED BY <3>1, <3>2, <3>3, <3>4, <3>5 DEF SplitInv, SplitIsFields
  <2>3. CASE arraySize > 1
    <3>1. running
      BY <1>1, <2>3 DEF Fresh
    <3>2. pChr = 1 /\ ~inQuotation
      BY DEF Fresh
    <3>3. Quotes(pChr) % 2 = 0
      <4>1. {j \in 1 .. 1 - 1 : whole[j] = Quote} = {}
        OBVIOUS
      <4>2. Quotes(1) = 0
        BY <4>1, FS_EmptySet DEF Quotes
      <4> QED BY <3>2, <4>2
    <3>4. \A i \in 1 .. n : line[i] = IF i \in Separators /\ i < pChr THEN Zero ELSE whole[i]
      BY <1>1, <3>2
    <3>5. n \in Separators => pChr <= n
      BY <1>1, <3>2
    <3>6. ScanAt(1)
      BY <1>1, <1>2, <2>1, <3>2, <3>3, <3>4, <3>5 DEF ScanAt
    <3> QED BY <1>1, <3>1, <3>6 DEF SplitInv, SplitIsFields
  <2> QED BY <1>1, <1>4, <2>2, <2>3
<1> QED BY <1>1, <1>3, <1>4

\* A character that separates nothing.
LEMMA SkipSplit ==
  ASSUME BookTypes, BookTypes', SplitInv, Skip
  PROVE  SplitInv'
<1>1. /\ running /\ pChr \in 1 .. Len(whole) /\ line[pChr] = Here /\ pChr' = pChr + 1
      /\ UNCHANGED <<line, subStrArray, arraySize, skipEmpty, running, book, whole, read>>
      /\ Here # Comma \/ inQuotation
      /\ inQuotation' = (IF Here = Quote THEN ~inQuotation ELSE inQuotation)
  BY Ranges DEF Skip, AtEnd, Here, BookTypes
<1>2. PICK last \in Begins : ScanAt(last)
  BY <1>1 DEF SplitInv
<1>3. /\ Len(whole) \in Nat /\ DOMAIN whole = 1 .. Len(whole) /\ pChr \in Nat /\ last \in Nat
      /\ Separators \subseteq 1 .. Len(whole) /\ Begins \subseteq Nat
      /\ \A b \in Begins : b = 1 \/ b - 1 \in Separators
  BY Ranges DEF BookTypes
<1>4. line[pChr] = whole[pChr]
  BY <1>1, <1>2 DEF ScanAt
<1>5. pChr \notin Separators
  <2>1. ASSUME pChr \in Separators PROVE whole[pChr] = Comma /\ Quotes(pChr) % 2 = 0
    BY <2>1 DEF Separators, Quotes
  <2>2. inQuotation => Quotes(pChr) % 2 = 1
    BY <1>2 DEF ScanAt
  <2> QED BY <1>1, <1>4, <2>1, <2>2
<1>6. Separators' = Separators /\ Begins' = Begins
  BY <1>1 DEF Separators, Begins
<1>7. ASSUME NEW b PROVE (Counts(b)' <=> Counts(b)) /\ Before(b)' = Before(b)
  BY <1>1, <1>6, Zenon DEF Counts, Before
<1>8. /\ Quotes(pChr) \in Nat
      /\ Quotes(pChr)' = Cardinality({j \in 1 .. (pChr + 1) - 1 : whole[j] = Quote})
      /\ Quotes(pChr)' = IF whole[pChr] = Quote THEN Quotes(pChr) + 1 ELSE Quotes(pChr)
  BY <1>1, QuotesNext DEF Quotes
<1>9. /\ inQuotation' => Quotes(pChr)' % 2 = 1
      /\ ~inQuotation' => Quotes(pChr)' % 2 = 0
  <2>1. /\ inQuotation => Quotes(pChr) % 2 = 1
        /\ ~inQuotation => Quotes(pChr) % 2 = 0
    BY <1>2 DEF ScanAt
  <2>2. /\ Here = Quote => (inQuotation' <=> ~inQuotation)
        /\ Here # Quote => (inQuotation' <=> inQuotation)
    BY <1>1, Zenon
  <2>3. Here = whole[pChr]
    BY <1>1, <1>4
  <2>4. CASE Here = Quote
    <3>1. Quotes(pChr)' = Quotes(pChr) + 1
      BY <1>8, <2>3, <2>4
    <3>2. /\ Quotes(pChr) % 2 = 1 => (Quotes(pChr) + 1) % 2 = 0
          /\ Quotes(pChr) % 2 = 0 => (Quotes(pChr) + 1) % 2 = 1
      BY <1>8
    <3> QED BY <2>1, <2>2, <2>4, <3>1, <3>2
  <2>5. CASE Here # Quote
    <3>1. Quotes(pChr)' = Quotes(pChr)
      BY <1>8, <2>3, <2>5
    <3> QED BY <2>1, <2>2, <2>5, <3>1
  <2> QED BY <2>4, <2>5
<1>10. \A b \in Begins : b <= pChr + 1 => b <= last
  <2>1. ASSUME NEW b \in Begins, b <= pChr + 1 PROVE b <= last
    <3>1. b # pChr + 1
      BY <1>1, <1>3, <1>5
    <3>2. b <= pChr
      BY <1>3, <2>1, <3>1
    <3> QED BY <1>2, <3>2 DEF ScanAt
  <2> QED BY <2>1
<1>11. \A i \in 1 .. Len(whole) : line[i] = IF i \in Separators /\ i < pChr + 1 THEN Zero ELSE whole[i]
  <2>1. \A i \in Separators : i < pChr + 1 <=> i < pChr
    BY <1>3, <1>5
  <2>2. \A i \in 1 .. Len(whole) : line[i] = IF i \in Separators /\ i < pChr THEN Zero ELSE whole[i]
    BY <1>2 DEF ScanAt
  <2> QED BY <2>1, <2>2, Zenon
<1>12. Len(whole) \in Separators => pChr + 1 <= Len(whole)
  <2>1. Len(whole) \in Separators => pChr # Len(whole)
    BY <1>5
  <2>2. pChr \in Nat /\ Len(whole) \in Nat /\ pChr <= Len(whole)
    BY <1>1, <1>3
  <2>3. pChr # Len(whole) => pChr + 1 <= Len(whole)
    BY <2>2
  <2> QED BY <2>1, <2>3, Zenon
<1>13. ScanAt(last)'
  <2>1. /\ last \in Begins /\ last <= pChr
        /\ subStrArray[Len(subStrArray)] = last
        /\ \A i \in 1 .. Len(subStrArray) : /\ subStrArray[i] \in Begins
                                            /\ subStrArray[i] <= last
                                            /\ Counts(subStrArray[i]) \/ subStrArray[i] = last
        /\ \A b \in Begins : b < last /\ Counts(b) => \E i \in 1 .. Len(subStrArray) : subStrArray[i] = b
        /\ \A i, j \in 1 .. Len(subStrArray) : i < j => subStrArray[i] < subStrArray[j]
        /\ Len(subStrArray) = Before(last) + 1
    BY <1>2 DEF ScanAt
  <2>2. last <= pChr'
    BY <1>1, <1>3, <2>1
  <2>3. \A i \in 1 .. Len(subStrArray) : Counts(subStrArray[i])' <=> Counts(subStrArray[i])
    BY <1>1, <1>6, Zenon DEF Counts
  <2> QED BY <1>1, <1>6, <1>7, <1>9, <1>10, <1>11, <1>12, <2>1, <2>2, <2>3 DEF ScanAt
<1> QED BY <1>1, <1>6, <1>13 DEF SplitInv, SplitIsFields

\* The part a comma ends counts unless it is empty and empty ones are skipped.
LEMMA LastSeparator ==
  ASSUME BookTypes, NEW last \in Begins, ScanAt(last), last \in Separators,
         running, pChr <= Len(whole) + 1
  PROVE  last = pChr
<1>1. /\ Len(whole) \in Nat /\ last \in 1 .. Len(whole) /\ pChr \in Nat
      /\ last # Len(whole) => last + 1 \in Begins
  BY Ranges DEF BookTypes
<1>2. last <= pChr /\ (\A b \in Begins : b <= pChr => b <= last)
      /\ (Len(whole) \in Separators => pChr <= Len(whole))
  BY DEF ScanAt
<1>3. CASE last = Len(whole)
  BY <1>1, <1>2, <1>3
<1>4. CASE last # Len(whole)
  <2>1. ~(last + 1 <= pChr)
    BY <1>1, <1>2, <1>4
  <2> QED BY <1>1, <1>2, <2>1
<1> QED BY <1>3, <1>4

LEMMA ReturnSplit ==
  ASSUME BookTypes, SplitInv, Return
  PROVE  SplitInv'
<1>1. /\ running /\ ~running' /\ pChr = Len(whole) + 1
      /\ UNCHANGED <<line, pChr, inQuotation, subStrArray, arraySize, skipEmpty, whole>>
  <2>1. ~(pChr <= Len(line)) /\ pChr \in 1 .. Len(line) + 1
    BY DEF Return, AtEnd, BookTypes
  <2>2. pChr = Len(whole) + 1
    BY <2>1, Ranges
  <2> QED BY <2>2 DEF Return
<1>2. PICK last \in Begins : ScanAt(last)
  BY <1>1 DEF SplitInv
<1>3. /\ Len(whole) \in Nat /\ DOMAIN whole = 1 .. Len(whole) /\ DOMAIN line = 1 .. Len(whole)
      /\ Len(subStrArray) \in 1 .. arraySize - 1 /\ arraySize \in Nat
      /\ DOMAIN subStrArray = 1 .. Len(subStrArray)
      /\ Begins \subseteq 1 .. Len(whole) + 1 /\ Before(last) \in Nat
  <2>1. Len(subStrArray) \in 1 .. arraySize - 1 /\ arraySize \in Nat
    BY <1>1 DEF BookTypes
  <2>2. last \in Nat
    BY Ranges
  <2> QED BY <2>1, <2>2, Ranges, BeforeGrows
<1>4. last \notin Separators
  <2>1. ASSUME last \in Separators PROVE FALSE
    <3>1. last = pChr
      BY <1>1, <1>2, <1>3, <2>1, LastSeparator
    <3>2. last \in 1 .. Len(whole)
      BY <2>1, Ranges
    <3> QED BY <1>1, <1>3, <3>1, <3>2
  <2> QED BY <2>1
<1>5. Counts(last)
  BY <1>4, Zenon DEF Counts
<1>6. \A b \in Begins : b <= last
  BY <1>1, <1>2, <1>3 DEF ScanAt
<1>7. Parts = {b \in Begins : Counts(b)}
  <2>1. Len(subStrArray) = Before(last) + 1
    BY <1>2 DEF ScanAt
  <2>2. Before(last) < arraySize - 1
    BY <1>3, <2>1
  <2> QED BY <1>6, <2>2, PartsAll
<1>8. {subStrArray[i] : i \in DOMAIN subStrArray} = Parts
  <2>1. ASSUME NEW i \in DOMAIN subStrArray PROVE subStrArray[i] \in Begins /\ Counts(subStrArray[i])
    <3>1. subStrArray[i] \in Begins /\ (Counts(subStrArray[i]) \/ subStrArray[i] = last)
      BY <1>2, <1>3 DEF ScanAt
    <3> QED BY <1>5, <3>1, Zenon
  <2>2. ASSUME NEW b \in Begins, Counts(b) PROVE \E i \in DOMAIN subStrArray : subStrArray[i] = b
    <3>1. CASE b = last
      <4>1. subStrArray[Len(subStrArray)] = last /\ Len(subStrArray) \in DOMAIN subStrArray
        BY <1>2, <1>3 DEF ScanAt
      <4> QED BY <3>1, <4>1
    <3>2. CASE b # last
      <4>1. b < last
        BY <1>3, <1>6, <3>2
      <4>2. \E i \in 1 .. Len(subStrArray) : subStrArray[i] = b
        BY <1>2, <2>2, <4>1 DEF ScanAt
      <4> QED BY <1>3, <4>2
    <3> QED BY <3>1, <3>2
  <2> QED BY <1>7, <2>1, <2>2, Zenon
<1>9. \A i, j \in DOMAIN subStrArray : i < j => subStrArray[i] < subStrArray[j]
  BY <1>2, <1>3 DEF ScanAt
<1>10. line = [i \in DOMAIN whole |->
                 IF i \in Separators
                    /\ (Len(subStrArray) < arraySize \/ \E j \in DOMAIN subStrArray : i < subStrArray[j])
                 THEN Zero ELSE whole[i]]
  <2>1. Len(subStrArray) < arraySize
    BY <1>3
  <2>2. \A i \in 1 .. Len(whole) : line[i] = IF i \in Separators /\ i < pChr THEN Zero ELSE whole[i]
    BY <1>2 DEF ScanAt
  <2>3. \A i \in 1 .. Len(whole) : i < pChr
    BY <1>1, <1>3
  <2>4. line = [i \in DOMAIN line |-> line[i]]
    BY DEF BookTypes
  <2>5. \A i \in DOMAIN whole : line[i] = IF i \in Separators THEN Zero ELSE whole[i]
    BY <1>3, <2>2, <2>3, Zenon
  <2> QED BY <1>3, <2>1, <2>4, <2>5, Zenon
<1>11. /\ {subStrArray'[i] : i \in DOMAIN subStrArray'} = Parts'
       /\ \A i, j \in DOMAIN subStrArray' : i < j => subStrArray'[i] < subStrArray'[j]
       /\ line' = [i \in DOMAIN whole' |->
                 IF i \in Separators'
                    /\ (Len(subStrArray') < arraySize' \/ \E j \in DOMAIN subStrArray' : i < subStrArray'[j])
                 THEN Zero ELSE whole'[i]]
  <2>1. Separators' = Separators /\ Begins' = Begins
    BY <1>1 DEF Separators, Begins
  <2>2. ASSUME NEW b PROVE (Counts(b)' <=> Counts(b)) /\ Before(b)' = Before(b)
    BY <1>1, <2>1, Zenon DEF Counts, Before
  <2>3. Parts' = Parts
    BY <1>1, <2>1, <2>2, Zenon DEF Parts
  <2> QED BY <1>1, <1>8, <1>9, <1>10, <2>1, <2>3, Zenon
<1> QED BY <1>1, <1>11, Zenon DEF SplitInv, SplitIsFields

\* What a comma leaves in the array: the parts so far that count.
Kept == IF skipEmpty /\ subStrArray[Len(subStrArray)] = pChr
        THEN SubSeq(subStrArray, 1, Len(subStrArray) - 1) ELSE subStrArray

LEMMA KeptParts ==
  ASSUME BookTypes, running, NEW last \in Begins, ScanAt(last), pChr \in Separators
  PROVE  /\ Kept \in Seq(Nat) /\ Len(Kept) \in 0 .. arraySize - 1
         /\ \A b \in Nat : last < b /\ (\A c \in Begins : c < b => c <= last) => Before(b) = Len(Kept)
         /\ \A i \in 1 .. Len(Kept) : Kept[i] \in Begins /\ Kept[i] <= last /\ Counts(Kept[i])
         /\ \A b \in Begins : b <= last /\ Counts(b) => \E i \in 1 .. Len(Kept) : Kept[i] = b
         /\ \A i, j \in 1 .. Len(Kept) : i < j => Kept[i] < Kept[j]
         /\ Before(last) < arraySize - 1
<1>1. PICK n \in Nat : n = Len(subStrArray)
  BY Ranges
<1>2. /\ n \in 1 .. arraySize - 1 /\ arraySize \in Nat /\ subStrArray \in Seq(Nat)
      /\ last \in Nat /\ Before(last) \in Nat /\ Begins \subseteq Nat
      /\ pChr <= Len(whole) + 1
  <2>1. /\ n \in 1 .. arraySize - 1 /\ arraySize \in Nat /\ subStrArray \in Seq(Nat)
        /\ pChr <= Len(whole) + 1
    BY <1>1 DEF BookTypes
  <2>2. last \in Nat /\ Begins \subseteq Nat
    BY Ranges
  <2> QED BY <2>1, <2>2, BeforeGrows
<1>3. /\ subStrArray[n] = last /\ n = Before(last) + 1
      /\ \A i \in 1 .. n : /\ subStrArray[i] \in Begins
                           /\ subStrArray[i] <= last
                           /\ Counts(subStrArray[i]) \/ subStrArray[i] = last
      /\ \A b \in Begins : b < last /\ Counts(b) => \E i \in 1 .. n : subStrArray[i] = b
      /\ \A i, j \in 1 .. n : i < j => subStrArray[i] < subStrArray[j]
  BY <1>1 DEF ScanAt
<1>4. Before(last) < arraySize - 1
  BY <1>2, <1>3
<1>5. skipEmpty /\ last = pChr => ~Counts(last)
  BY Zenon DEF Counts
<1>6. ~(skipEmpty /\ last = pChr) => Counts(last)
  <2>1. last \in Separators => last = pChr
    BY <1>2, LastSeparator
  <2> QED BY <2>1, Zenon DEF Counts
<1>7. \A b \in Nat : last < b /\ (\A c \in Begins : c < b => c <= last) =>
        /\ Counts(last) => Before(b) = Before(last) + 1
        /\ ~Counts(last) => Before(b) = Before(last)
  BY BeforeNext
<1>8. CASE Counts(last)
  <2>1. Kept = subStrArray
    BY <1>1, <1>3, <1>5, <1>8, Zenon DEF Kept
  <2>2. \A i \in 1 .. n : Counts(subStrArray[i])
    BY <1>3, <1>8, Zenon
  <2>3. \A b \in Begins : b <= last /\ Counts(b) => \E i \in 1 .. n : subStrArray[i] = b
    <3>1. ASSUME NEW b \in Begins, b <= last, Counts(b) PROVE \E i \in 1 .. n : subStrArray[i] = b
      <4>1. CASE b = last
        BY <1>2, <1>3, <4>1
      <4>2. CASE b # last
        <5>1. b < last
          BY <1>2, <3>1, <4>2
        <5> QED BY <1>3, <3>1, <5>1
      <4> QED BY <4>1, <4>2
    <3> QED BY <3>1
  <2>4. Len(Kept) = n /\ Kept \in Seq(Nat) /\ n \in 0 .. arraySize - 1
    BY <1>1, <1>2, <2>1
  <2> QED BY <1>3, <1>4, <1>7, <1>8, <2>1, <2>2, <2>3, <2>4
<1>9. CASE ~Counts(last)
  <2> DEFINE most == SubSeq(subStrArray, 1, n - 1)
  <2>1. Kept = most
    BY <1>1, <1>3, <1>6, <1>9, Zenon DEF Kept
  <2>2. most \in Seq(Nat) /\ Len(most) = n - 1 /\ \A i \in 1 .. n - 1 : most[i] = subStrArray[i]
    <3>1. /\ 1 \in Int /\ n - 1 \in Int /\ \A i \in 1 .. n - 1 : subStrArray[i] \in Nat
      BY <1>1, <1>2
    <3>2. /\ most \in Seq(Nat) /\ Len(most) = IF 1 <= n - 1 THEN (n - 1) - 1 + 1 ELSE 0
          /\ \A i \in 1 .. (n - 1) - 1 + 1 : most[i] = subStrArray[1 + i - 1]
      BY <3>1, SubSeqProperties
    <3> HIDE DEF most
    <3>3. CASE n = 1
      BY <3>2, <3>3
    <3>4. CASE n > 1
      BY <1>1, <3>2, <3>4
    <3> QED BY <1>2, <3>3, <3>4
  <2> HIDE DEF most
  <2>3. ASSUME NEW i \in 1 .. n - 1 PROVE subStrArray[i] # last /\ Counts(subStrArray[i])
    <3>1. i \in 1 .. n /\ n \in 1 .. n /\ i < n
      BY <1>2
    <3>2. subStrArray[i] < subStrArray[n] /\ subStrArray[i] \in Nat
      BY <1>2, <1>3, <3>1
    <3>3. subStrArray[i] # last
      BY <1>3, <3>2
    <3> QED BY <1>3, <3>1, <3>3, Zenon
  <2>4. \A i \in 1 .. n - 1 : most[i] \in Begins /\ most[i] <= last /\ Counts(most[i])
    <3>1. \A i \in 1 .. n - 1 : i \in 1 .. n
      BY <1>2
    <3> QED BY <1>3, <2>2, <2>3, <3>1
  <2>5. ASSUME NEW b \in Begins, b <= last, Counts(b) PROVE \E i \in 1 .. n - 1 : most[i] = b
    <3>1. b # last
      BY <1>9, <2>5
    <3>2. b < last
      BY <1>2, <2>5, <3>1
    <3>3. PICK i \in 1 .. n : subStrArray[i] = b
      BY <1>3, <2>5, <3>2
    <3>4. i # n
      BY <1>3, <3>1, <3>3
    <3>5. i \in 1 .. n - 1
      BY <1>2, <3>4
    <3> QED BY <2>2, <3>3, <3>5
  <2>6. \A i, j \in 1 .. n - 1 : i < j => most[i] < most[j]
    <3>1. \A i \in 1 .. n - 1 : i \in 1 .. n
      BY <1>2
    <3> QED BY <1>3, <2>2, <3>1
  <2>7. n - 1 = Before(last) /\ n - 1 \in 0 .. arraySize - 1
    BY <1>2, <1>3
  <2>8. Kept \in Seq(Nat) /\ Len(Kept) = n - 1
    BY <2>1, <2>2
  <2> QED BY <1>4, <1>7, <1>9, <2>1, <2>4, <2>5, <2>6, <2>7, <2>8
<1> QED BY <1>8, <1>9

LEMMA SeparateSplit ==
  ASSUME BookTypes, BookTypes', SplitInv, Separate
  PROVE  SplitInv'
<1>1. PICK k \in Nat, l \in Nat, size \in Nat, m \in Nat :
        k = pChr /\ l = Len(whole) /\ size = arraySize /\ m = Len(Kept)
  <2>1. running
    BY DEF Separate
  <2>2. Kept \in Seq(Nat)
    <3>0. subStrArray \in Seq(Nat) /\ Len(subStrArray) \in Nat
      BY DEF BookTypes
    <3>1. \A i \in 1 .. Len(subStrArray) - 1 : subStrArray[i] \in Nat
      BY <3>0, ElementOfSeq
    <3>2. Len(subStrArray) - 1 \in Int /\ 1 \in Int
      BY <3>0
    <3>3. SubSeq(subStrArray, 1, Len(subStrArray) - 1) \in Seq(Nat)
      BY <3>1, <3>2, SubSeqProperties
    <3> QED BY <3>3 DEF Kept, BookTypes
  <2>3. pChr \in Nat /\ Len(whole) \in Nat /\ arraySize \in Nat
    BY DEF BookTypes
  <2>4. Len(Kept) \in Nat
    BY <2>2
  <2> QED BY <2>3, <2>4
<1>2. /\ running /\ k \in 1 .. l /\ line[k] = Comma /\ ~inQuotation
      /\ line' = [line EXCEPT ![k] = Zero] /\ pChr' = k + 1
      /\ subStrArray' = IF k = l THEN Kept ELSE Append(Kept, k + 1)
      /\ UNCHANGED <<inQuotation, arraySize, skipEmpty, whole>>
  <2>1. Len(line) = l
    BY <1>1 DEF BookTypes
  <2>2. k \in 1 .. l
    BY <1>1, <2>1 DEF Separate, AtEnd, BookTypes
  <2> QED BY <1>1, <2>1, <2>2 DEF Separate, Here, Kept
<1>3. /\ running' => k # l /\ Len(subStrArray') < size
      /\ k # l /\ Len(subStrArray') < size => running'
  <2>1. Len(line) = l
    BY <1>1 DEF BookTypes
  <2>2. running' = (k # l /\ Len(subStrArray') < size)
    BY <1>1, <2>1 DEF Separate
  <2> QED BY <2>2, Zenon
<1>4. PICK last \in Begins : ScanAt(last)
  BY <1>2 DEF SplitInv
<1>5. line[k] = whole[k]
  <2>1. line[k] = IF k \in Separators /\ k < k THEN Zero ELSE whole[k]
    BY <1>1, <1>2, <1>4 DEF ScanAt
  <2>2. ~(k < k)
    BY <1>1
  <2> QED BY <2>1, <2>2, Zenon
<1>6. k \in Separators
  <2>1. Quotes(k) % 2 = 0
    BY <1>1, <1>2, <1>4 DEF ScanAt
  <2>2. k \in DOMAIN whole
    BY <1>1, <1>2, Ranges
  <2> QED BY <1>2, <1>5, <2>1, <2>2 DEF Separators, Quotes
<1>7. /\ Kept \in Seq(Nat) /\ m \in 0 .. size - 1
      /\ \A b \in Nat : last < b /\ (\A c \in Begins : c < b => c <= last) => Before(b) = m
      /\ \A i \in 1 .. m : Kept[i] \in Begins /\ Kept[i] <= last /\ Counts(Kept[i])
      /\ \A b \in Begins : b <= last /\ Counts(b) => \E i \in 1 .. m : Kept[i] = b
      /\ \A i, j \in 1 .. m : i < j => Kept[i] < Kept[j]
      /\ Before(last) < size - 1
  BY <1>1, <1>2, <1>4, <1>6, KeptParts
<1>8. /\ last \in Nat /\ last <= k /\ Begins \subseteq Nat
      /\ \A b \in Begins : b <= k => b <= last
      /\ \A b \in Begins : b = 1 \/ b <= l
      /\ DOMAIN whole = 1 .. l /\ DOMAIN line = 1 .. l /\ DOMAIN line' = 1 .. l
  <2>1. /\ last <= k /\ \A b \in Begins : b <= k => b <= last
    BY <1>1, <1>4 DEF ScanAt
  <2>2. DOMAIN line' = DOMAIN line
    BY <1>2
  <2> QED BY <1>1, <2>1, <2>2, Ranges
<1>9. Separators' = Separators /\ Begins' = Begins
  BY <1>2 DEF Separators, Begins
<1>10. ASSUME NEW b PROVE (Counts(b)' <=> Counts(b)) /\ Before(b)' = Before(b)
  BY <1>2, <1>9, Zenon DEF Counts, Before
<1>11. Parts' = Parts
  BY <1>2, <1>9, <1>10, Zenon DEF Parts
<1>12. \A i \in 1 .. l : line'[i] = IF i \in Separators /\ i < k + 1 THEN Zero ELSE whole[i]
  <2>1. ASSUME NEW i \in 1 .. l PROVE line'[i] = IF i \in Separators /\ i < k + 1 THEN Zero ELSE whole[i]
    <3>1. line[i] = IF i \in Separators /\ i < k THEN Zero ELSE whole[i]
      BY <1>1, <1>4 DEF ScanAt
    <3>2. line'[i] = IF i = k THEN Zero ELSE line[i]
      BY <1>2, <1>8
    <3>3. i = k => i < k + 1
      BY <1>1
    <3>4. i # k => (i < k + 1 <=> i < k)
      BY <1>1
    <3> QED BY <1>6, <3>1, <3>2, <3>3, <3>4, Zenon
  <2> QED BY <2>1
<1>13. line' = [i \in 1 .. l |-> line'[i]]
  BY <1>8 DEF BookTypes
<1>14. CASE k = l
  <2>1. ~running' /\ subStrArray' = Kept /\ Len(subStrArray') = m /\ DOMAIN subStrArray' = 1 .. m
    BY <1>1, <1>2, <1>3, <1>7, <1>14
  <2>2. \A b \in Begins : b <= last
    <3>1. \A b \in Begins : b <= k
      BY <1>2, <1>8, <1>14
    <3> QED BY <1>8, <3>1
  <2>3. Parts = {b \in Begins : Counts(b)}
    BY <1>1, <1>7, <2>2, PartsAll
  <2>4. {subStrArray'[i] : i \in DOMAIN subStrArray'} = Parts'
    <3>1. \A i \in 1 .. m : Kept[i] \in Begins /\ Counts(Kept[i])
      BY <1>7
    <3>2. \A b \in Begins : Counts(b) => \E i \in 1 .. m : Kept[i] = b
      BY <1>7, <2>2
    <3> QED BY <1>11, <2>1, <2>3, <3>1, <3>2, Zenon
  <2>5. \A i, j \in DOMAIN subStrArray' : i < j => subStrArray'[i] < subStrArray'[j]
    BY <1>7, <2>1
  <2>6. line' = [i \in DOMAIN whole' |->
                 IF i \in Separators'
                    /\ (Len(subStrArray') < arraySize' \/ \E j \in DOMAIN subStrArray' : i < subStrArray'[j])
                 THEN Zero ELSE whole'[i]]
    <3>1. Len(subStrArray') < arraySize'
      BY <1>1, <1>2, <1>7, <2>1
    <3>2. \A i \in 1 .. l : i < k + 1
      BY <1>1, <1>14
    <3>3. \A i \in 1 .. l : line'[i] = IF i \in Separators THEN Zero ELSE whole[i]
      BY <1>12, <3>2, Zenon
    <3> QED BY <1>2, <1>8, <1>9, <1>13, <3>1, <3>3, Zenon
  <2> QED BY <2>1, <2>4, <2>5, <2>6, Zenon DEF SplitInv, SplitIsFields
<1>15. CASE k # l
  <2>1. /\ subStrArray' = Append(Kept, k + 1) /\ subStrArray' \in Seq(Nat)
        /\ Len(subStrArray') = m + 1 /\ DOMAIN subStrArray' = 1 .. m + 1
        /\ \A i \in 1 .. m : subStrArray'[i] = Kept[i]
        /\ subStrArray'[m + 1] = k + 1
    BY <1>1, <1>2, <1>7, <1>15, AppendProperties
  <2>2. k + 1 \in Begins /\ last < k + 1 /\ \A b \in Begins : b < k + 1 => b <= last
    <3>1. k + 1 \in Begins
      BY <1>1, <1>6, <1>15, Ranges
    <3>2. last < k + 1
      BY <1>1, <1>8
    <3>3. ASSUME NEW b \in Begins, b < k + 1 PROVE b <= last
      <4>1. b <= k
        BY <1>1, <1>8, <3>3
      <4> QED BY <1>8, <4>1
    <3> QED BY <3>1, <3>2, <3>3
  <2>3. Before(k + 1) = m
    <3>1. k + 1 \in Nat
      BY <1>1
    <3> QED BY <1>7, <2>2, <3>1
  <2>4. \A i, j \in 1 .. m + 1 : i < j => subStrArray'[i] < subStrArray'[j]
    <3>1. ASSUME NEW i \in 1 .. m + 1, NEW j \in 1 .. m + 1, i < j
          PROVE  subStrArray'[i] < subStrArray'[j]
      <4>1. i \in 1 .. m /\ (j \in 1 .. m \/ j = m + 1)
        BY <1>1, <3>1
      <4>2. CASE j \in 1 .. m
        BY <1>7, <2>1, <3>1, <4>1, <4>2
      <4>3. CASE j = m + 1
        <5>1. Kept[i] <= last /\ Kept[i] \in Nat
          BY <1>7, <1>8, <4>1
        <5> QED BY <1>8, <2>1, <2>2, <4>1, <4>3, <5>1
      <4> QED BY <4>1, <4>2, <4>3
    <3> QED BY <3>1
  <2>5. \A i \in 1 .. m + 1 : /\ subStrArray'[i] \in Begins /\ subStrArray'[i] <= k + 1
                              /\ Counts(subStrArray'[i]) \/ subStrArray'[i] = k + 1
    <3>1. ASSUME NEW i \in 1 .. m
          PROVE  subStrArray'[i] \in Begins /\ subStrArray'[i] <= k + 1 /\ Counts(subStrArray'[i])
      <4>1. subStrArray'[i] = Kept[i] /\ Kept[i] \in Begins /\ Kept[i] <= last /\ Counts(Kept[i])
        BY <1>7, <2>1
      <4>2. Kept[i] <= k + 1
        <5>1. Kept[i] \in Nat /\ last \in Nat /\ k \in Nat /\ last < k + 1
          BY <1>1, <1>8, <2>2, <4>1
        <5> QED BY <4>1, <5>1
      <4> QED BY <4>1, <4>2, Zenon
    <3>2. k + 1 <= k + 1 /\ \A i \in 1 .. m + 1 : i \in 1 .. m \/ i = m + 1
      BY <1>1
    <3> QED BY <2>1, <2>2, <3>1, <3>2, Zenon
  <2>6. \A b \in Begins : b < k + 1 /\ Counts(b) => \E i \in 1 .. m + 1 : subStrArray'[i] = b
    <3>1. ASSUME NEW b \in Begins, b < k + 1, Counts(b) PROVE \E i \in 1 .. m + 1 : subStrArray'[i] = b
      <4>1. PICK i \in 1 .. m : Kept[i] = b
        BY <1>7, <2>2, <3>1
      <4>2. i \in 1 .. m + 1
        BY <1>1
      <4> QED BY <2>1, <4>1, <4>2
    <3> QED BY <3>1, Zenon
  <2>7. CASE m + 1 < size
    <3>1. running' /\ ~inQuotation'
      BY <1>2, <1>3, <1>15, <2>1, <2>7
    <3>2. Quotes(pChr)' % 2 = 0
      <4>1. Quotes(pChr)' = Cardinality({j \in 1 .. (k + 1) - 1 : whole[j] = Quote})
        BY <1>2 DEF Quotes
      <4>2. Quotes(k + 1) = Quotes(k)
        <5>1. whole[k] # Quote
          BY <1>2, <1>5, Distinct
        <5> QED BY <1>1, <1>2, <5>1, QuotesNext
      <4>3. Quotes(k) % 2 = 0
        BY <1>1, <1>2, <1>4 DEF ScanAt
      <4> QED BY <4>1, <4>2, <4>3 DEF Quotes
    <3>3. l \in Separators => k + 1 <= l
      BY <1>1, <1>2, <1>15
    <3>4. \A i \in 1 .. m + 1 : Counts(subStrArray[i])' \/ subStrArray'[i] = k + 1
      BY <1>2, <1>9, <2>5, Zenon DEF Counts
    <3>5. \A b \in Begins' : b < k + 1 /\ Counts(b)' => \E i \in 1 .. m + 1 : subStrArray'[i] = b
      BY <1>9, <1>10, <2>6, Zenon
    <3>6. Len(subStrArray') = Before(k + 1)' + 1
      BY <1>10, <2>1, <2>3
    <3>7. /\ k + 1 \in Begins' /\ k + 1 <= pChr' /\ Len(whole') = l
          /\ \A b \in Begins' : b <= pChr' => b <= k + 1
          /\ subStrArray'[Len(subStrArray')] = k + 1
      BY <1>1, <1>2, <1>9, <2>1, <2>2
    <3>8. /\ \A i \in 1 .. l : line'[i] = IF i \in Separators' /\ i < pChr' THEN Zero ELSE whole'[i]
          /\ l \in Separators' => pChr' <= l
      BY <1>2, <1>9, <1>12, <3>3, Zenon
    <3>9. \A i \in 1 .. m + 1 : subStrArray'[i] \in Begins' /\ subStrArray'[i] <= k + 1
      BY <1>9, <2>5
    <3>10. ScanAt(k + 1)'
      BY <2>1, <2>4, <3>1, <3>2, <3>4, <3>5, <3>6, <3>7, <3>8, <3>9, Zenon DEF ScanAt
    <3> QED BY <3>1, <3>7, <3>10 DEF SplitInv, SplitIsFields
  <2>8. CASE ~(m + 1 < size)
    <3>1. m = size - 1 /\ ~running'
      BY <1>1, <1>3, <1>7, <2>1, <2>8
    <3>2. Parts = {b \in Begins : b <= last /\ Counts(b)} \cup {k + 1}
      BY <1>1, <1>7, <2>2, <2>3, <3>1, PartsFull
    <3>3. {subStrArray'[i] : i \in DOMAIN subStrArray'} = Parts'
      <4>1. ASSUME NEW i \in 1 .. m + 1 PROVE subStrArray'[i] \in Parts
        <5>1. CASE i \in 1 .. m
          BY <1>7, <2>1, <3>2, <5>1, Zenon
        <5>2. CASE i = m + 1
          BY <2>1, <3>2, <5>2
        <5> QED BY <1>1, <5>1, <5>2
      <4>2. ASSUME NEW b \in Parts PROVE \E i \in 1 .. m + 1 : subStrArray'[i] = b
        <5>1. CASE b = k + 1
          BY <1>1, <2>1, <5>1
        <5>2. CASE b \in Begins /\ b <= last /\ Counts(b)
          <6>1. PICK i \in 1 .. m : Kept[i] = b
            BY <1>7, <5>2
          <6>2. i \in 1 .. m + 1
            BY <1>1
          <6> QED BY <2>1, <6>1, <6>2
        <5> QED BY <3>2, <4>2, <5>1, <5>2, Zenon
      <4> QED BY <1>11, <2>1, <4>1, <4>2
    <3>4. \A i, j \in DOMAIN subStrArray' : i < j => subStrArray'[i] < subStrArray'[j]
      BY <2>1, <2>4
    <3>5. line' = [i \in DOMAIN whole' |->
                 IF i \in Separators'
                    /\ (Len(subStrArray') < arraySize' \/ \E j \in DOMAIN subStrArray' : i < subStrArray'[j])
                 THEN Zero ELSE whole'[i]]
      <4>1. ~(Len(subStrArray') < arraySize')
        BY <1>1, <1>2, <2>1, <2>8
      <4>2. ASSUME NEW i \in 1 .. l
            PROVE  (\E j \in DOMAIN subStrArray' : i < subStrArray'[j]) <=> i < k + 1
        <5>1. ASSUME NEW j \in 1 .. m + 1, i < subStrArray'[j] PROVE i < k + 1
          <6>1. subStrArray'[j] <= k + 1 /\ subStrArray'[j] \in Nat
            BY <1>8, <2>5
          <6> QED BY <1>1, <5>1, <6>1
        <5>2. m + 1 \in 1 .. m + 1
          BY <1>1
        <5> QED BY <2>1, <5>1, <5>2
      <4>3. \A i \in 1 .. l : line'[i] =
              IF i \in Separators
                 /\ (Len(subStrArray') < arraySize' \/ \E j \in DOMAIN subStrArray' : i < subStrArray'[j])
              THEN Zero ELSE whole[i]
        BY <1>12, <4>1, <4>2, Zenon
      <4> QED BY <1>2, <1>8, <1>9, <1>13, <4>3, Zenon
    <3> QED BY <3>1, <3>3, <3>4, <3>5, Zenon DEF SplitInv, SplitIsFields
  <2> QED BY <2>7, <2>8
<1> QED BY <1>14, <1>15

LEMMA SplitSteps ==
  ASSUME BookTypes, BookTypes', SplitInv, [PBNext]_reading
  PROVE  SplitInv'
<1>1. ASSUME Fresh' PROVE SplitInv'
  <2>1. BookTypes' /\ Fresh' => SplitInv'
    BY FreshSplit, PTL
  <2> QED BY <1>1, <2>1
<1>2. ASSUME NEW text, NEW size \in Nat, NEW skip, Calls(text, size, skip) PROVE SplitInv'
  <2>1. /\ line' = whole' /\ pChr' = 1 /\ inQuotation' = FALSE
        /\ subStrArray' = IF arraySize' = 0 THEN <<>> ELSE <<1>>
    BY <1>2 DEF Calls
  <2>2. (running' => size > 1) /\ (size > 1 => running')
    BY <1>2, Zenon DEF Calls
  <2>3. arraySize' = size /\ (~(size > 1) => size <= 1)
    BY <1>2 DEF Calls
  <2>4. Fresh'
    BY <2>1, <2>2, <2>3, Zenon DEF Fresh
  <2> QED BY <1>1, <2>4
<1>3. ASSUME NEW phone \in Phone, NEW name \in Name, ReceiveEntry(phone, name) PROVE SplitInv'
  <2>1. Calls(Entry(phone, name), 4, FALSE) /\ 4 \in Nat
    BY <1>3 DEF ReceiveEntry
  <2> QED BY <1>2, <2>1
<1>4. ASSUME NEW text \in Line, NEW size \in Size, NEW skip \in BOOLEAN, ReceiveLine(text, size, skip)
      PROVE  SplitInv'
  <2>1. Calls(text, size, skip) /\ size \in Nat
    BY <1>4, BookAssumption DEF ReceiveLine
  <2> QED BY <1>2, <2>1
<1>5. CASE Skip
  BY <1>5, SkipSplit
<1>6. CASE Separate
  BY <1>6, SeparateSplit
<1>7. CASE Return
  BY <1>7, ReturnSplit
<1>8. CASE ReadEntry
  <2>1. /\ line' = whole' /\ pChr' = 1 /\ inQuotation' = FALSE /\ subStrArray' = <<>> /\ arraySize' = 0
        /\ ~running /\ running' = running /\ 0 <= 1
    BY <1>8 DEF ReadEntry
  <2>2. Fresh'
    BY <2>1, Zenon DEF Fresh
  <2> QED BY <1>1, <2>2
<1>9. ASSUME UNCHANGED <<line, split, arraySize, skipEmpty, whole>> PROVE SplitInv'
  <2>1. UNCHANGED <<line, pChr, inQuotation, subStrArray, running, arraySize, skipEmpty, whole>>
    BY <1>9 DEF split
  <2>2. Separators' = Separators /\ Begins' = Begins
    BY <2>1 DEF Separators, Begins
  <2>3. ASSUME NEW b PROVE (Counts(b)' <=> Counts(b)) /\ Before(b)' = Before(b)
    BY <2>1, <2>2, Zenon DEF Counts, Before
  <2>4. Parts' = Parts
    BY <2>1, <2>2, <2>3, Zenon DEF Parts
  <2>5. SplitIsFields'
    <3>1. ASSUME ~running'
          PROVE  /\ {subStrArray[i] : i \in DOMAIN subStrArray} = Parts
                 /\ \A i, j \in DOMAIN subStrArray : i < j => subStrArray[i] < subStrArray[j]
                 /\ line = [i \in DOMAIN whole |->
                      IF i \in Separators
                         /\ (Len(subStrArray) < arraySize \/ \E j \in DOMAIN subStrArray : i < subStrArray[j])
                      THEN Zero ELSE whole[i]]
      BY <2>1, <3>1, Zenon DEF SplitInv, SplitIsFields
    <3>2. /\ line' = line /\ subStrArray' = subStrArray /\ whole' = whole /\ arraySize' = arraySize
      BY <2>1
    <3>3. ASSUME ~running' PROVE {subStrArray'[i] : i \in DOMAIN subStrArray'} = Parts'
      <4>1. {subStrArray'[i] : i \in DOMAIN subStrArray'} = {subStrArray[i] : i \in DOMAIN subStrArray}
        BY <3>2
      <4> QED BY <2>4, <3>1, <3>3, <4>1
    <3>4. ASSUME ~running'
          PROVE  \A i, j \in DOMAIN subStrArray' : i < j => subStrArray'[i] < subStrArray'[j]
      <4>1. \A i, j \in DOMAIN subStrArray : i < j => subStrArray[i] < subStrArray[j]
        BY <3>1, <3>4
      <4> QED BY <3>2, <4>1, Zenon
    <3>5. ASSUME ~running'
          PROVE  line' = [i \in DOMAIN whole' |->
                   IF i \in Separators'
                      /\ (Len(subStrArray') < arraySize' \/ \E j \in DOMAIN subStrArray' : i < subStrArray'[j])
                   THEN Zero ELSE whole'[i]]
      <4>1. line = [i \in DOMAIN whole |->
                      IF i \in Separators
                         /\ (Len(subStrArray) < arraySize \/ \E j \in DOMAIN subStrArray : i < subStrArray[j])
                      THEN Zero ELSE whole[i]]
        BY <3>1, <3>5
      <4> QED BY <2>2, <3>2, <4>1, Zenon
    <3> QED BY <3>3, <3>4, <3>5, Zenon DEF SplitIsFields
  <2>6. running' => \E last \in Begins' : ScanAt(last)'
    <3>1. ASSUME running' PROVE \E last \in Begins' : ScanAt(last)'
      <4>1. PICK last \in Begins : ScanAt(last)
        BY <2>1, <3>1 DEF SplitInv
      <4>2. Quotes(pChr)' = Quotes(pChr)
        BY <2>1 DEF Quotes
      <4>3. \A i : Counts(subStrArray[i])' <=> Counts(subStrArray[i])
        BY <2>1, <2>2, Zenon DEF Counts
      <4>4. ScanAt(last)'
        BY <2>1, <2>2, <2>3, <4>1, <4>2, <4>3, Zenon DEF ScanAt
      <4> QED BY <2>2, <4>1, <4>4
    <3> QED BY <3>1
  <2> QED BY <2>5, <2>6 DEF SplitInv
<1>10. CASE ClearBook
  BY <1>9, <1>10 DEF ClearBook
<1>11. CASE UNCHANGED reading
  BY <1>9, <1>11 DEF reading
<1> QED BY <1>3, <1>4, <1>5, <1>6, <1>7, <1>8, <1>10, <1>11 DEF PBNext

\* SplitString finds the parts that a definition by quotation marks and commas finds,
\* for every line, every array and both ways of dealing with empty parts.
THEOREM SplitFindsFields == PBSpec => []SplitIsFields
<1>1. PBInit => BookTypes /\ SplitInv
  <2>1. PBInit => BookTypes /\ Fresh
    <3> SUFFICES ASSUME PBInit PROVE BookTypes /\ Fresh
      OBVIOUS
    <3>1. BookTypes
      BY BookInitInv DEF BookInv
    <3>2. Fresh
      BY DEF PBInit, Fresh
    <3> QED BY <3>1, <3>2
  <2> QED BY <2>1, FreshSplit
<1>2. BookTypes /\ BookTypes' /\ SplitInv /\ [PBNext]_reading => SplitInv'
  BY SplitSteps
<1>3. PBSpec => []BookTypes
  <2>1. BookInv => BookTypes
    BY DEF BookInv
  <2> QED BY <2>1, BookInvHolds, PTL
<1>4. SplitInv => SplitIsFields
  BY DEF SplitInv
<1> QED BY <1>1, <1>2, <1>3, <1>4, PTL DEF PBSpec

================================================================================
