---------------------------- MODULE BatteryMonitor ----------------------------
(***************************************************************************)
(* The battery watch (src/BatteryMonitor.cpp): once a second it measures   *)
(* voltage and current and moves a level down, back to normal or to        *)
(* overflow once three samples agree, telling main.cpp of every change.    *)
(*                                                                         *)
(* Voltages are in mV, currents in mA.  measureTimer is restarted by its   *)
(* own completion and nobody else stops it, so a step is one completion:   *)
(* the two measurements, OnVoltageMeasured and the restart.                *)
(***************************************************************************)
EXTENDS Integers, Sequences

CONSTANTS
  Volts,        (* voltages the divider may show                            *)
  AmperPins,    (* voltages the current sensor's pin may have               *)
  matchRequire  (* how many samples must agree                              *)

ASSUME BatteryAssumption ==
  /\ Volts \subseteq Nat
  /\ AmperPins \subseteq Nat
  /\ matchRequire = 3

VARIABLES
  currentState,     (* the level                                            *)
  matchState,       (* the level the last samples speak for                 *)
  matchedAttempts,  (* how many did                                         *)
  voltage,          (* voltMeter.Voltage() of the last sample               *)
  amperPin,         (* amperMeter's pinValue of the last sample             *)
  recent,           (* history: the last two CalcVoltage()s at this level   *)
  report,           (* history: what stateCallback got in this step         *)
  beat              (* parity of the samples: no sample is a stutter        *)

battery == <<currentState, matchState, matchedAttempts, voltage, amperPin, recent, report, beat>>

DEAD_LEVEL     == 0
CRITICAL_LEVEL == 1
LOW_LEVEL      == 2
NORMAL_LEVEL   == 3
CHARGE_LEVEL   == 4
OVERFLOW_LEVEL == 5
Level == DEAD_LEVEL .. OVERFLOW_LEVEL
NoReport == 6

GetStateVoltage == [l \in Level |->
  CASE l = DEAD_LEVEL     -> 10500
    [] l = CRITICAL_LEVEL -> 11800
    [] l = LOW_LEVEL      -> 12000
    [] l = NORMAL_LEVEL   -> 12500
    [] l = CHARGE_LEVEL   -> 14500
    [] l = OVERFLOW_LEVEL -> 15500]

\* AmperMeter::Ampers, (pinValue - 2.5) / 6.25, in mA.
Ampers(pin) == ((pin - 2500) * 1000) \div 6250

\* The voltage corrected by 0.1 V per ampere, unless the corrected one is normal
\* or above: then the measured one, which may be lower again.
CalcVoltage(v, pin) ==
  LET calculated == v + Ampers(pin) \div 10
  IN  IF calculated >= GetStateVoltage[NORMAL_LEVEL] THEN v ELSE calculated

IsNormalized(v) == v >= GetStateVoltage[NORMAL_LEVEL] /\ v < GetStateVoltage[CHARGE_LEVEL]

GetNextState(l) == IF l \in {OVERFLOW_LEVEL, DEAD_LEVEL} THEN l ELSE l - 1

-----------------------------------------------------------------------------
BMInit ==
  /\ currentState = NORMAL_LEVEL
  /\ matchState = NORMAL_LEVEL
  /\ matchedAttempts = 0
  /\ voltage = 0 /\ amperPin = 0
  /\ recent = <<>>
  /\ report = NoReport
  /\ beat = 0

\* What the sample of voltage v leaves in the histories.
Remember(v) ==
  recent' = IF currentState' # currentState THEN <<>>
            ELSE IF Len(recent) < 2 THEN Append(recent, v) ELSE <<recent[2], v>>

\* HandleAttempt: one more sample for level l; with matchRequire of them l is
\* the level, and stateCallback is told.
HandleAttempt(l) ==
  LET attempts == IF matchState # l THEN 1 ELSE matchedAttempts + 1
  IN  /\ matchState' = l
      /\ IF attempts >= matchRequire
         THEN currentState' = l /\ matchedAttempts' = 0 /\ report' = l
         ELSE matchedAttempts' = attempts /\ report' = NoReport /\ UNCHANGED currentState

NoAttempt ==
  /\ report' = NoReport
  /\ UNCHANGED <<currentState, matchState, matchedAttempts>>

\* Mutant of AtTheEnd: OVERFLOW and DEAD are final.
AtTheEndForEver(v) ==
  /\ GetNextState(currentState) = currentState
  /\ NoAttempt

\* OnVoltageMeasured from DEAD and OVERFLOW: only normality counts, and a sample
\* that is not normal leaves the count as it is.
AtTheEnd(v) ==
  /\ GetNextState(currentState) = currentState
  /\ IF IsNormalized(v) THEN HandleAttempt(NORMAL_LEVEL) ELSE NoAttempt

\* From NORMAL: likewise for overflow and low.
AtNormal(v) ==
  /\ currentState = NORMAL_LEVEL
  /\ IF v >= GetStateVoltage[OVERFLOW_LEVEL] THEN HandleAttempt(OVERFLOW_LEVEL)
     ELSE IF v <= GetStateVoltage[LOW_LEVEL] THEN HandleAttempt(LOW_LEVEL)
     ELSE NoAttempt

\* Mutant of OnTheWayDown: a sample that speaks for nothing keeps the count.
OnTheWayDownKeepsCount(v) ==
  /\ GetNextState(currentState) # currentState /\ currentState # NORMAL_LEVEL
  /\ IF v <= GetStateVoltage[GetNextState(currentState)] THEN HandleAttempt(GetNextState(currentState))
     ELSE IF IsNormalized(v) THEN HandleAttempt(NORMAL_LEVEL)
     ELSE NoAttempt

\* From LOW and CRITICAL: one level down, or back to normal, and any other
\* sample starts the count again.
OnTheWayDown(v) ==
  /\ GetNextState(currentState) # currentState /\ currentState # NORMAL_LEVEL
  /\ IF v <= GetStateVoltage[GetNextState(currentState)] THEN HandleAttempt(GetNextState(currentState))
     ELSE IF IsNormalized(v) THEN HandleAttempt(NORMAL_LEVEL)
     ELSE /\ matchedAttempts' = 0
          /\ matchState' = currentState
          /\ report' = NoReport
          /\ UNCHANGED currentState

OnVoltageMeasured(v) == AtTheEnd(v) \/ AtNormal(v) \/ OnTheWayDown(v)

\* OnTimerComplete of measureTimer.
OnTimerComplete(volt, pin) ==
  /\ voltage' = volt
  /\ amperPin' = pin
  /\ OnVoltageMeasured(CalcVoltage(volt, pin))
  /\ Remember(CalcVoltage(volt, pin))
  /\ beat' = 1 - beat

BMNext == \E volt \in Volts, pin \in AmperPins : OnTimerComplete(volt, pin)

BMSpec == BMInit /\ [][BMNext]_battery

\* The timer is started again by every completion and Timer::Loop never ends.
BMFairSpec == BMSpec /\ WF_battery(BMNext)

-----------------------------------------------------------------------------
\* A sample of CalcVoltage() v speaks for level l.
SpeaksFor(v, l) ==
  CASE l = NORMAL_LEVEL   -> IsNormalized(v)
    [] l = OVERFLOW_LEVEL -> v >= GetStateVoltage[l]
    [] OTHER              -> v <= GetStateVoltage[l]

Sampled == CalcVoltage(voltage, amperPin)

BMTypeOK ==
  /\ currentState \in Level \ {CHARGE_LEVEL}
  /\ matchState \in Level
  /\ matchedAttempts \in 0 .. matchRequire - 1
  /\ voltage \in Nat
  /\ amperPin \in Nat
  /\ recent \in Seq(Int)
  /\ Len(recent) <= 2
  /\ report \in Level \cup {NoReport}
  /\ beat \in {0, 1}

\* The count is honest: samples counted for another level than the present one
\* are the latest ones, when the level is one of those that start it again
\* (OnVoltageMeasured's last branch and HandleAttempt's first).
CountIsOfLatest ==
  currentState \in {LOW_LEVEL, CRITICAL_LEVEL} =>
    /\ matchedAttempts <= Len(recent)
    /\ \A i \in 1 .. Len(recent) :
         i > Len(recent) - matchedAttempts => SpeaksFor(recent[i], matchState)

\* The level moves one step down, back to normal, or from normal to overflow; it
\* is never CHARGE, and never skips a level however deep the voltage falls.
OnlyNeighbours ==
  [][currentState' # currentState =>
       /\ currentState = NORMAL_LEVEL   => currentState' \in {LOW_LEVEL, OVERFLOW_LEVEL}
       /\ currentState = LOW_LEVEL      => currentState' \in {CRITICAL_LEVEL, NORMAL_LEVEL}
       /\ currentState = CRITICAL_LEVEL => currentState' \in {DEAD_LEVEL, NORMAL_LEVEL}
       /\ currentState \in {DEAD_LEVEL, OVERFLOW_LEVEL} => currentState' = NORMAL_LEVEL]_battery

\* LOW and CRITICAL are left only after three samples in a row, all taken at
\* that level, that speak for the new one: no single spike counts, and the
\* samples that led to the level do not count again.
ThreeInARow ==
  [][currentState' # currentState /\ currentState \in {LOW_LEVEL, CRITICAL_LEVEL} =>
       /\ Len(recent) = 2
       /\ \A v \in {recent[1], recent[2], Sampled'} : SpeaksFor(v, currentState')]_battery

\* stateCallback hears of every change of level and of nothing else.
EveryChangeReported ==
  [][report' = IF currentState' # currentState THEN currentState' ELSE NoReport]_battery

\* A voltage that stays brings the level there, step by step: a normal one to
\* NORMAL from every level, a dead one to DEAD, unless the level is held at OVERFLOW,
\* which is left through a normal voltage only.
LevelIsFound ==
  /\ <>[]IsNormalized(Sampled) => <>[](currentState = NORMAL_LEVEL)
  /\ <>[](Sampled <= GetStateVoltage[DEAD_LEVEL])
       => <>[](currentState \in {DEAD_LEVEL, OVERFLOW_LEVEL})

===============================================================================
