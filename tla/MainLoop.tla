------------------------------- MODULE MainLoop -------------------------------
(***************************************************************************)
(* What the main loop drives besides the modem and the heater: the clock   *)
(* (TimeManager) and the user's Bluetooth link (BluetoothSerialHandler).   *)
(* The clock is a count of seconds and the value micros() had at the last  *)
(* of them; micros() wraps.  A user asks for the status and gets three     *)
(* parts, TEMP, BAT and DEV, the later two paced by statsTimer.  The       *)
(* link's state pin is followed by an interrupt, which may come between    *)
(* any two steps of the loop, and between the two reads of the pin that    *)
(* one BluetoothSerialHandler::Loop makes.                                 *)
(*                                                                         *)
(* Timer::Loop is taken by what TimerService promises of it: a timer that  *)
(* runs completes in the end.  The modem's handler is where main.cpp:116   *)
(* has it, commented out; it is the one caller of UpdateSystemTime.        *)
(***************************************************************************)
EXTENDS Integers, FiniteSets

CONSTANTS
  MICROS_IN_SECOND,  (* ticks of a second                                   *)
  ClockMod,          (* the range of micros(), 2^32 us                      *)
  NetTime,           (* the times the network may tell, in seconds          *)
  MaxFrame,          (* bound: ticks one round of the loop may last         *)
  Horizon,           (* bound: ticks of a run                               *)
  MaxUpdates,        (* bound: how often the network tells the time         *)
  MaxClients         (* bound: how many users connect in a run              *)

ASSUME MainLoopAssumption ==
  /\ MICROS_IN_SECOND \in Nat \ {0} /\ ClockMod \in Nat
  /\ MICROS_IN_SECOND + MaxFrame <= ClockMod
  /\ NetTime \subseteq Nat
  /\ MaxFrame \in Nat /\ Horizon \in Nat /\ MaxUpdates \in Nat
  /\ MaxClients \in Nat \ {0}

VARIABLES
  pc,                (* the next call: timers, look, take, late             *)
  micros,            (* micros()                                            *)
  syncMicroTS, currentTimeStamp, launchTimeStamp,
  btPinState, isDebugEnabled,
  statsTimer,        (* NONE, or the part the running timer will send       *)
  elapsed,           (* history: ticks since the start                      *)
  frame,             (* history: ticks of this round of the loop            *)
  setTo, age,        (* history: the time last told, and ticks since        *)
  updates,           (* history: how often it was told                      *)
  client,            (* history: the user connected now or last             *)
  asker,             (* history: who was connected when the chain began     *)
  given,             (* history: who got a part of this chain               *)
  missed             (* history: a change of the link was not seen during   *)
                     (* this chain                                          *)

clock == <<syncMicroTS, currentTimeStamp, launchTimeStamp, setTo, updates>>
time  == <<clock, micros, elapsed, age>>
link  == <<btPinState, client>>
chain == <<statsTimer, asker, given>>
vars  == <<pc, time, frame, link, isDebugEnabled, chain, missed>>

Part == {"TEMP", "BAT", "DEV"}

-----------------------------------------------------------------------------
(* The clock *)

\* (microsTS - syncMicroTS) / MICROS_IN_SECOND, in 32 bits.
SecondsSinceUpdate ==
  ((micros - syncMicroTS) % ClockMod) \div MICROS_IN_SECOND

GetUtcTime == currentTimeStamp + SecondsSinceUpdate
GetOnlineSeconds == GetUtcTime - launchTimeStamp

Init ==
  /\ pc = "timers"
  /\ micros = 0 /\ syncMicroTS = 0
  /\ currentTimeStamp = 0 /\ launchTimeStamp = 0
  /\ btPinState \in BOOLEAN /\ isDebugEnabled = FALSE
  /\ statsTimer = "NONE"
  /\ elapsed = 0 /\ frame = 0 /\ setTo = 0 /\ age = 0 /\ updates = 0
  /\ client = IF btPinState THEN 1 ELSE 0
  /\ asker = client /\ given = {} /\ missed = FALSE

\* Time passes, in whatever the loop is doing.
Tick ==
  /\ frame < MaxFrame /\ elapsed < Horizon
  /\ micros' = (micros + 1) % ClockMod
  /\ elapsed' = elapsed + 1 /\ age' = age + 1 /\ frame' = frame + 1
  /\ UNCHANGED <<pc, clock, link, isDebugEnabled, chain, missed>>

\* Mutant of SetTime: the start is not moved with the clock.
SetTimeAlone(t) ==
  /\ syncMicroTS' = micros
  /\ currentTimeStamp' = t
  /\ UNCHANGED launchTimeStamp

\* UpdateSystemTime: the clock is t from now on, and the start as long ago.
SetTime(t) ==
  /\ syncMicroTS' = micros
  /\ currentTimeStamp' = t
  /\ launchTimeStamp' = launchTimeStamp + (t - currentTimeStamp)

\* The modem answered +CCLK, in its own loop.
UpdateSystemTime ==
  /\ pc = "look" /\ updates < MaxUpdates
  /\ \E t \in NetTime : SetTime(t) /\ setTo' = t
  /\ age' = 0 /\ updates' = updates + 1
  /\ UNCHANGED <<pc, micros, elapsed, frame, link, isDebugEnabled, chain,
                 missed>>

\* Mutant of MoveSync: the part of a second that has passed is dropped.
MoveSyncToNow(seconds) == IF seconds > 0 THEN micros ELSE syncMicroTS

\* The last full second, as a value of micros().
MoveSync(seconds) ==
  (syncMicroTS + seconds * MICROS_IN_SECOND) % ClockMod

\* TimeManager::LateLoop, the last call of the round.
LateLoop ==
  /\ pc = "late"
  /\ currentTimeStamp' = currentTimeStamp + SecondsSinceUpdate
  /\ syncMicroTS' = MoveSync(SecondsSinceUpdate)
  /\ pc' = "timers" /\ frame' = 0
  /\ UNCHANGED <<launchTimeStamp, setTo, updates, micros, elapsed, age, link,
                 isDebugEnabled, chain, missed>>

-----------------------------------------------------------------------------
(* The link *)

\* What Loop does not see: a user who comes while it has the last one
\* connected, and one who goes between its two reads of the pin.
Unseen == isDebugEnabled /\ (btPinState => pc = "take")

\* btState, the interrupt of the state pin: the user comes or goes.
BtState ==
  /\ btPinState \/ client < MaxClients
  /\ btPinState' = ~btPinState
  /\ client' = IF btPinState THEN client ELSE client + 1
  /\ missed' = (missed \/ Unseen)
  /\ UNCHANGED <<pc, time, frame, isDebugEnabled, chain>>

\* The timer SendStat leaves behind, for the part after this one.
NextPart ==
  [p \in Part |-> IF p = "TEMP" THEN "BAT"
                  ELSE IF p = "BAT" THEN "DEV" ELSE "NONE"]

\* SendStat: to whoever is connected now, if the handler thinks one is.
SendStat(part, enabled) ==
  /\ statsTimer' = IF enabled THEN NextPart[part] ELSE "NONE"
  /\ asker' = IF part = "TEMP" THEN client ELSE asker
  /\ given' = (IF part = "TEMP" THEN {} ELSE given)
              \union (IF enabled /\ btPinState THEN {client} ELSE {})

\* Timer::Loop, in which statsTimer completes.
StatsTimerCompletes ==
  /\ pc = "timers" /\ statsTimer # "NONE"
  /\ SendStat(statsTimer, isDebugEnabled)
  /\ pc' = "look"
  /\ UNCHANGED <<time, frame, link, isDebugEnabled, missed>>

\* Timer::Loop, in which it does not.
TimersLoop ==
  /\ pc = "timers" /\ pc' = "look"
  /\ UNCHANGED <<time, frame, link, isDebugEnabled, chain, missed>>

\* Mutant of LookStops: the timer goes on when the user leaves.
LookStopsNothing == UNCHANGED statsTimer

\* StopStatsTimer, when the handler sees its user gone.
LookStops ==
  statsTimer' = IF isDebugEnabled /\ ~btPinState THEN "NONE" ELSE statsTimer

\* Loop reads the pin and compares.
Look ==
  /\ pc = "look" /\ pc' = "take"
  /\ LookStops
  /\ UNCHANGED <<time, frame, link, isDebugEnabled, asker, given, missed>>

\* Loop reads the pin again and keeps it, and reads a line of the user's, if
\* one has come: +STATS begins a chain when none runs.  Other lines go to
\* handleSerialCommand, which only writes.
Take ==
  /\ pc = "take" /\ pc' = "late"
  /\ isDebugEnabled' = btPinState
  /\ \/ UNCHANGED <<chain, missed>>
     \/ /\ statsTimer = "NONE"
        /\ SendStat("TEMP", btPinState)
        /\ missed' = FALSE
  /\ UNCHANGED <<time, frame, link>>

Next ==
  \/ Tick \/ UpdateSystemTime \/ LateLoop
  \/ BtState
  \/ StatsTimerCompletes \/ TimersLoop \/ Look \/ Take

Spec == Init /\ [][Next]_vars

-----------------------------------------------------------------------------
\* Every field has a value the program can give it.
TypeOK ==
  /\ pc \in {"timers", "look", "take", "late"}
  /\ micros \in 0..(ClockMod - 1) /\ syncMicroTS \in 0..(ClockMod - 1)
  /\ currentTimeStamp \in Nat /\ launchTimeStamp \in Int
  /\ btPinState \in BOOLEAN /\ isDebugEnabled \in BOOLEAN
  /\ missed \in BOOLEAN
  /\ statsTimer \in {"NONE", "BAT", "DEV"}
  /\ elapsed \in 0..Horizon /\ frame \in 0..MaxFrame
  /\ setTo \in NetTime \union {0} /\ age \in 0..elapsed
  /\ updates \in 0..MaxUpdates
  /\ client \in 0..MaxClients /\ (btPinState => client # 0)
  /\ asker \in 0..client
  /\ given \subseteq 1..client

\* GetUtcTime (TimeManager.cpp:42-50) is, at every point of the loop and
\* however often micros() has wrapped, the time last told and the whole
\* seconds since: no part of a second is lost or counted twice.
UtcFollows == GetUtcTime = setTo + age \div MICROS_IN_SECOND

\* GetOnlineSeconds (TimeManager.cpp:47-50) is the time since the start, but
\* for what each UpdateSystemTime loses: the start moves from a
\* currentTimeStamp that LateLoop has not yet brought up to date.
OnlineIsElapsed ==
  /\ GetOnlineSeconds * MICROS_IN_SECOND <= elapsed
  /\ elapsed < (GetOnlineSeconds + 1) * MICROS_IN_SECOND
               + updates * (MICROS_IN_SECOND - 1 + MaxFrame)

\* The parts of one status (BluetoothSerialHandler.cpp:37-59) go to one user,
\* the one who was there when it began, unless a change of the link fell
\* between two rounds, or between the two reads of the pin in one.
OneClientPerChain == given \subseteq {asker} \/ missed

=============================================================================
