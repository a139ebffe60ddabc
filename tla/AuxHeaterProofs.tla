--------------------------- MODULE AuxHeaterProofs ---------------------------
(***************************************************************************)
(* What the heater's command line guarantees for every number of attempts, *)
(* every wait and every length of a frame.  IInv is the conjunction of the *)
(* invariants TLC checks: it is inductive as it stands, and two of the     *)
(* action properties follow from it step by step.  The pause of a STOP     *)
(* needs what flowTimer and the clock make up together, PauseInv.          *)
(***************************************************************************)
EXTENDS AuxHeater, TLAPS

IInv == TypeOK /\ LineOwnsTimer /\ OneCommandPerRun /\ LastRequestDecides

\* The operations keep waits and gaps in their range.
LEMMA Waits ==
  ASSUME NEW c \in Command
  PROVE  Wait[c] \in Nat /\ Block[c] \in Nat
BY AuxAssumption DEF Wait, Block, Command

\* Putting a command on the line establishes the invariant whatever ran before.
LEMMA AcceptKeeps ==
  ASSUME NEW c \in Command, NEW cb \in Callback, NEW s \in Nat,
         Accept(c, cb, s),
         told' \in Callback,
         awaitState' = "NONE",
         asked' = [cmd |-> c, cb |-> cb]
  PROVE  IInv'
<1>1. TypeOK'
  <2>1. /\ cmdState' = c /\ cmdAttempt' = 1 /\ armed' = TRUE
        /\ remain' \in Nat /\ since' \in Nat /\ gap' = 0 /\ wire' = <<c>>
    BY Waits DEF Accept, Transmit
  <2>2. 1 \in 0 .. AUX_MAX_ATTEMPTS /\ 0 \in 0 .. MaxGap
    BY AuxAssumption DEF MaxGap
  <2> QED BY <2>1, <2>2 DEF TypeOK, Accept, Transmit
<1>2. LineOwnsTimer'
  BY DEF Accept, Transmit, LineOwnsTimer, IsBusy
<1>3. OneCommandPerRun'
  BY DEF Accept, Transmit, OneCommandPerRun
<1>4. LastRequestDecides'
  BY DEF Accept, Transmit, LastRequestDecides, IsBusy
<1> QED BY <1>1, <1>2, <1>3, <1>4 DEF IInv

\* A request keeps the invariant, on a free line and on a busy one.
LEMMA HandleCMDKeeps ==
  ASSUME IInv, NEW c \in Command, NEW cb \in Callback, HandleCMD(c, cb)
  PROVE  IInv'
<1>1. CASE IsBusy
  <2>1. Enqueue(c, cb) /\ UNCHANGED <<cmdState, cmdAttempt, flow, wire, gap>> /\ told' = "NULL"
    BY <1>1 DEF HandleCMD
  <2>2. TypeOK'
    BY <2>1 DEF IInv, TypeOK, Enqueue, flow, Callback
  <2>3. LineOwnsTimer'
    BY <1>1, <2>1 DEF IInv, LineOwnsTimer, Enqueue, flow, IsBusy
  <2>4. OneCommandPerRun'
    BY <2>1 DEF IInv, OneCommandPerRun
  <2>5. LastRequestDecides'
    BY <1>1, <2>1 DEF IInv, LastRequestDecides, Enqueue, IsBusy, Command
  <2> QED BY <2>2, <2>3, <2>4, <2>5 DEF IInv
<1>2. CASE ~IsBusy
  <2>1. /\ Accept(c, cb, since) /\ asked' = [cmd |-> c, cb |-> cb]
        /\ awaitState' = awaitState /\ told' = "NULL"
    BY <1>2 DEF HandleCMD
  <2>2. since \in Nat /\ awaitState = "NONE"
    BY <1>2 DEF IInv, TypeOK, LineOwnsTimer
  <2> QED BY <2>1, <2>2, AcceptKeeps DEF Callback
<1> QED BY <1>1, <1>2

\* The completion of flowTimer keeps the invariant: one more frame, the command
\* that waits, or a free line.
LEMMA CompletesKeeps ==
  ASSUME IInv, FrameCompletes
  PROVE  IInv'
<1> USE DEF FrameCompletes, OnTimerComplete
<1>1. IsBusy /\ cmdState \in Command
  BY DEF IInv, LineOwnsTimer, IsBusy
<1>2. CASE cmdAttempt >= AUX_MAX_ATTEMPTS /\ awaitState # "NONE"
  <2>1. /\ Accept(awaitState, actionCallback, 0) /\ awaitState' = "NONE"
        /\ told' = "NULL" /\ asked' = asked
    BY <1>2 DEF HandleResult
  <2>2. awaitState \in Command /\ actionCallback \in Callback
    BY <1>2 DEF IInv, TypeOK
  <2>3. asked = [cmd |-> awaitState, cb |-> actionCallback]
    BY <1>1, <1>2 DEF IInv, TypeOK, LastRequestDecides
  <2> QED BY <2>1, <2>2, <2>3, AcceptKeeps DEF Callback
<1>3. CASE cmdAttempt >= AUX_MAX_ATTEMPTS /\ awaitState = "NONE"
  <2>1. /\ cmdState' = "NONE" /\ cmdAttempt' = 0 /\ actionCallback' = "NULL"
        /\ told' = actionCallback /\ wire' = <<>>
        /\ armed' = FALSE /\ remain' = 0 /\ since' = 0
        /\ UNCHANGED <<awaitState, gap, asked>>
    BY <1>3 DEF HandleResult
  <2>2. TypeOK'
    <3>1. cmdAttempt' \in 0 .. AUX_MAX_ATTEMPTS
      BY <2>1, AuxAssumption
    <3> HIDE DEF FrameCompletes, OnTimerComplete
    <3>2. remain' \in Nat /\ since' \in Nat /\ armed' \in BOOLEAN
      BY <2>1
    <3>3. <<>> \in Seq(Command)
      OBVIOUS
    <3>4. TypeOK
      BY DEF IInv
    <3> QED BY <2>1, <3>1, <3>2, <3>3, <3>4 DEF TypeOK, Callback, MaxGap, Command
  <2>3. ~IsBusy'
    BY <2>1 DEF IsBusy, Command
  <2>4. LineOwnsTimer' /\ LastRequestDecides'
    BY <1>3, <2>1, <2>3 DEF LineOwnsTimer, LastRequestDecides
  <2>5. OneCommandPerRun'
    BY <2>1 DEF OneCommandPerRun
  <2> QED BY <2>2, <2>4, <2>5 DEF IInv
<1>4. CASE ~ (cmdAttempt >= AUX_MAX_ATTEMPTS)
  <2>1. /\ cmdAttempt' = cmdAttempt + 1 /\ armed' = TRUE /\ gap' = 0
        /\ remain' = Wait[cmdState] /\ since' = 0 + Block[cmdState]
        /\ wire' = Append(wire, cmdState) /\ told' = "NULL"
        /\ UNCHANGED <<cmdState, awaitState, actionCallback, asked>>
    BY <1>4 DEF Transmit
  <2>2. TypeOK'
    <3>1. cmdAttempt' \in 0 .. AUX_MAX_ATTEMPTS
      BY <1>4, <2>1, AuxAssumption DEF IInv, TypeOK
    <3>2. remain' \in Nat /\ since' \in Nat
      BY <1>1, <2>1, Waits
    <3>3. gap' \in 0 .. MaxGap
      BY <2>1, AuxAssumption DEF MaxGap
    <3>4. wire' \in Seq(Command)
      BY <1>1, <2>1 DEF IInv, TypeOK
    <3> QED BY <2>1, <3>1, <3>2, <3>3, <3>4 DEF IInv, TypeOK, Callback
  <2>3. LineOwnsTimer' /\ LastRequestDecides'
    BY <1>1, <2>1 DEF IInv, LineOwnsTimer, LastRequestDecides, IsBusy
  <2>4. OneCommandPerRun'
    BY <1>1, <2>1 DEF IInv, TypeOK, OneCommandPerRun
  <2> QED BY <2>2, <2>3, <2>4 DEF IInv
<1> QED
  <2>1. cmdAttempt >= AUX_MAX_ATTEMPTS \/ ~ (cmdAttempt >= AUX_MAX_ATTEMPTS)
    OBVIOUS
  <2> QED BY <1>2, <1>3, <1>4, <2>1

LEMMA InitInv ==
  ASSUME Init
  PROVE  IInv
<1>1. TypeOK
  <2>1. gap \in 0 .. MaxGap /\ cmdAttempt \in 0 .. AUX_MAX_ATTEMPTS
    BY AuxAssumption DEF Init, MaxGap
  <2>2. wire \in Seq(Command)
    BY DEF Init
  <2> QED BY <2>1, <2>2 DEF Init, TypeOK, Callback
<1>2. LineOwnsTimer /\ OneCommandPerRun /\ LastRequestDecides
  BY DEF Init, LineOwnsTimer, OneCommandPerRun, LastRequestDecides, IsBusy, Command
<1> QED BY <1>1, <1>2 DEF IInv

LEMMA NextInv ==
  ASSUME IInv, [Next]_vars
  PROVE  IInv'
<1>1. CASE Users
  <2>1. \E c \in Command, cb \in Callback : HandleCMD(c, cb)
    BY <1>1 DEF Users, HandleSMSCommand, HandleDtmfCommand, Command, Callback
  <2> QED BY <2>1, HandleCMDKeeps
<1>2. CASE FrameCompletes
  BY <1>2, CompletesKeeps
<1>3. CASE FramePasses
  <2>1. remain' \in Nat
    BY <1>3 DEF FramePasses, IInv, TypeOK
  <2> QED BY <1>3, <2>1 DEF FramePasses, cmd, IInv, TypeOK, Callback, LineOwnsTimer,
                            OneCommandPerRun, LastRequestDecides, IsBusy
<1>4. CASE Tick
  <2>1. gap' \in 0 .. MaxGap
    BY <1>4, AuxAssumption DEF Tick, IInv, TypeOK, Capped, MaxGap
  <2> QED BY <1>4, <2>1 DEF Tick, cmd, IInv, TypeOK, Callback, LineOwnsTimer,
                            OneCommandPerRun, LastRequestDecides, IsBusy
<1>5. CASE UNCHANGED vars
  BY <1>5 DEF vars, cmd, flow, ghost, IInv, TypeOK, LineOwnsTimer,
              OneCommandPerRun, LastRequestDecides, IsBusy
<1> QED BY <1>1, <1>2, <1>3, <1>4, <1>5 DEF Next, Loop

\* Every reachable state is well typed, the timer runs exactly while the line is
\* busy, a run is one command, and the last request decides: for every number of
\* attempts and all waits (HandleCMD, HandleResult, OnTimerComplete).
THEOREM LineInvariant == Spec => [](TypeOK /\ LineOwnsTimer /\ OneCommandPerRun /\ LastRequestDecides)
<1>1. Init => IInv
  BY InitInv
<1>2. IInv /\ [Next]_vars => IInv'
  BY NextInv
<1>3. IInv => TypeOK /\ LineOwnsTimer /\ OneCommandPerRun /\ LastRequestDecides
  BY DEF IInv
<1> QED BY <1>1, <1>2, <1>3, PTL DEF Spec

LEMMA InvHolds == Spec => []IInv
<1>1. Init => IInv
  BY InitInv
<1>2. IInv /\ [Next]_vars => IInv'
  BY NextInv
<1> QED BY <1>1, <1>2, PTL DEF Spec

\* No request, however timed, cuts a run short or lengthens it: what leaves the
\* line was written AUX_MAX_ATTEMPTS times (OnTimerComplete against HandleCMD).
THEOREM RunsComplete == Spec => RunsAreComplete
<1> DEFINE Step == (cmdState' # cmdState \/ Len(wire') < Len(wire)) /\ IsBusy
                     => wire = [i \in 1 .. AUX_MAX_ATTEMPTS |-> cmdState]
<1>1. IInv /\ [Next]_vars => [Step]_vars
  <2> SUFFICES ASSUME IInv, Next, IsBusy, cmdState' # cmdState \/ Len(wire') < Len(wire)
               PROVE  wire = [i \in 1 .. AUX_MAX_ATTEMPTS |-> cmdState]
    OBVIOUS
  <2>1. ~Users
    BY DEF Users, HandleSMSCommand, HandleDtmfCommand, HandleCMD
  <2>2. ~FramePasses /\ ~Tick
    BY DEF FramePasses, Tick, cmd
  <2>3. FrameCompletes
    BY <2>1, <2>2 DEF Next, Loop
  <2>4. cmdAttempt >= AUX_MAX_ATTEMPTS
    <3> SUFFICES ASSUME ~ (cmdAttempt >= AUX_MAX_ATTEMPTS) PROVE FALSE
      OBVIOUS
    <3>1. cmdState' = cmdState /\ wire' = Append(wire, cmdState)
      BY <2>3 DEF FrameCompletes, OnTimerComplete
    <3>2. wire \in Seq(Command) /\ cmdState \in Command
      BY DEF IInv, TypeOK, IsBusy
    <3> QED BY <3>1, <3>2
  <2>5. wire \in Seq(Command) /\ Len(wire) = AUX_MAX_ATTEMPTS
    BY <2>4, AuxAssumption DEF IInv, TypeOK, OneCommandPerRun
  <2> QED BY <2>5 DEF IInv, OneCommandPerRun
<1> QED BY <1>1, InvHolds, PTL DEF Spec, RunsAreComplete

\* The callback of the last request is called exactly when the line becomes
\* free, and no other time (HandleResult, HandleCMD).
THEOREM ToldOnce == Spec => ToldOnceAtTheEnd
<1> DEFINE Step == told' = IF IsBusy /\ cmdState' = "NONE" THEN asked.cb ELSE "NULL"
<1>1. IInv /\ [Next]_vars => [Step]_vars
  <2> SUFFICES ASSUME IInv, Next PROVE Step
    OBVIOUS
  <2>1. CASE Users
    <3>1. PICK c \in Command, cb \in Callback : HandleCMD(c, cb)
      BY <2>1 DEF Users, HandleSMSCommand, HandleDtmfCommand, Command, Callback
    <3> QED BY <3>1 DEF HandleCMD, Accept, IsBusy, Command
  <2>2. CASE FrameCompletes
    <3>1. IsBusy
      BY <2>2 DEF IInv, LineOwnsTimer, FrameCompletes
    <3>2. CASE cmdAttempt >= AUX_MAX_ATTEMPTS /\ awaitState # "NONE"
      <4>1. cmdState' = awaitState /\ told' = "NULL"
        BY <2>2, <3>2 DEF FrameCompletes, OnTimerComplete, HandleResult, Accept
      <4> QED BY <3>2, <4>1
    <3>3. CASE cmdAttempt >= AUX_MAX_ATTEMPTS /\ awaitState = "NONE"
      <4>1. told' = actionCallback /\ cmdState' = "NONE"
        BY <2>2, <3>3 DEF FrameCompletes, OnTimerComplete, HandleResult
      <4> QED BY <3>1, <4>1 DEF IInv, LastRequestDecides
    <3>4. CASE ~ (cmdAttempt >= AUX_MAX_ATTEMPTS)
      BY <2>2, <3>1, <3>4 DEF FrameCompletes, OnTimerComplete, IsBusy, Command
    <3> QED BY <3>2, <3>3, <3>4
  <2>3. CASE FramePasses
    BY <2>3 DEF FramePasses, cmd, IsBusy, Command
  <2>4. CASE Tick
    BY <2>4 DEF Tick, cmd, IsBusy, Command
  <2> QED BY <2>1, <2>2, <2>3, <2>4 DEF Next, Loop
<1> QED BY <1>1, InvHolds, PTL DEF Spec, ToldOnceAtTheEnd

-----------------------------------------------------------------------------
(* The pause between two frames of a STOP.                                 *)

\* The pause the frame that comes next is promised.
Promised == IF cmdAttempt = 1 THEN StopWait - MaxFrame ELSE StopWait

\* flowTimer and the clock together never fall short of the pause: what has passed
\* and what flowTimer still waits make it up.  A first frame may be written late
\* in a frame of the main loop, which flowTimer is charged in full; that frame is
\* no longer than MaxFrame as long as the line is free.
PauseInv ==
  /\ ~IsBusy => since <= MaxFrame
  /\ cmdState = "STOP" => gap = MaxGap \/ gap + (remain - since) >= Promised

LEMMA StopWaits ==
  ASSUME NEW c \in Command, c = "STOP"
  PROVE  Wait[c] = StopWait /\ Block[c] = 0
BY DEF Wait, Block, Command

LEMMA NextPause ==
  ASSUME IInv, PauseInv, [Next]_vars
  PROVE  PauseInv'
<1>0. /\ StopWait \in Nat /\ MaxFrame \in Nat /\ MaxGap \in Nat /\ AUX_MAX_ATTEMPTS \in Nat
      /\ gap \in Nat /\ remain \in Nat /\ since \in Nat /\ cmdAttempt \in Nat
  BY AuxAssumption DEF IInv, TypeOK, MaxGap
<1>1. ASSUME NEW c \in Command, NEW cb \in Callback, NEW s \in Nat, s <= MaxFrame, Accept(c, cb, s)
      PROVE  PauseInv'
  <2>1. cmdState' = c /\ cmdAttempt' = 1 /\ remain' = Wait[c] /\ since' = s + Block[c] /\ gap' = 0
    BY <1>1 DEF Accept, Transmit
  <2>2. IsBusy'
    BY <2>1 DEF IsBusy
  <2>3. ASSUME c = "STOP" PROVE gap' + (remain' - since') >= Promised'
    BY <1>0, <1>1, <2>1, <2>3, StopWaits DEF Promised
  <2> QED
    BY <2>1, <2>2, <2>3 DEF PauseInv
<1>2. CASE Users
  <2>1. PICK c \in Command, cb \in Callback : HandleCMD(c, cb)
    BY <1>2 DEF Users, HandleSMSCommand, HandleDtmfCommand, Command, Callback
  <2>2. CASE IsBusy
    BY <2>1, <2>2 DEF HandleCMD, flow, PauseInv, IsBusy, Promised
  <2>3. CASE ~IsBusy
    BY <1>0, <1>1, <2>1, <2>3 DEF HandleCMD, PauseInv
  <2> QED
    BY <2>2, <2>3
<1>3. CASE FrameCompletes
  <2>1. cmdState \in Command /\ actionCallback \in Callback
    BY <1>3 DEF FrameCompletes, IInv, TypeOK, LineOwnsTimer, IsBusy
  <2>2. CASE cmdAttempt >= AUX_MAX_ATTEMPTS /\ awaitState # "NONE"
    <3>1. Accept(awaitState, actionCallback, 0) /\ awaitState \in Command
      BY <1>3, <2>2 DEF FrameCompletes, OnTimerComplete, HandleResult, IInv, TypeOK
    <3> QED
      BY <1>0, <1>1, <2>1, <3>1
  <2>3. CASE cmdAttempt >= AUX_MAX_ATTEMPTS /\ awaitState = "NONE"
    <3>1. cmdState' = "NONE" /\ since' = 0
      BY <1>3, <2>3 DEF FrameCompletes, OnTimerComplete, HandleResult
    <3> QED
      BY <1>0, <3>1 DEF PauseInv
  <2>4. CASE ~ (cmdAttempt >= AUX_MAX_ATTEMPTS)
    <3>1. /\ cmdState' = cmdState /\ cmdAttempt' = cmdAttempt + 1 /\ gap' = 0
          /\ remain' = Wait[cmdState] /\ since' = 0 + Block[cmdState]
      BY <1>3, <2>4 DEF FrameCompletes, OnTimerComplete, Transmit
    <3>2. IsBusy'
      BY <2>1, <3>1 DEF IsBusy
    <3>3. ASSUME cmdState = "STOP" PROVE gap' + (remain' - since') >= Promised'
      BY <1>0, <2>1, <3>1, <3>3, StopWaits DEF Promised
    <3> QED
      BY <3>1, <3>2, <3>3 DEF PauseInv
  <2> QED
    BY <2>2, <2>3, <2>4
<1>4. CASE FramePasses
  <2>1. /\ cmdState' = cmdState /\ cmdAttempt' = cmdAttempt /\ gap' = gap /\ since' = 0
        /\ remain' = IF armed THEN remain - since ELSE remain
    BY <1>4 DEF FramePasses, cmd
  <2>2. IsBusy' = IsBusy
    BY <2>1 DEF IsBusy
  <2>3. cmdState = "STOP" => armed
    BY DEF IInv, LineOwnsTimer, IsBusy, Command
  <2> QED
    BY <1>0, <2>1, <2>2, <2>3 DEF PauseInv, Promised
<1>5. CASE Tick
  <2>1. /\ cmdState' = cmdState /\ cmdAttempt' = cmdAttempt /\ remain' = remain
        /\ since < MaxFrame /\ since' = since + 1
        /\ gap' = IF gap + 1 > MaxGap THEN MaxGap ELSE gap + 1
    BY <1>5 DEF Tick, cmd, Capped
  <2>2. IsBusy' = IsBusy
    BY <2>1 DEF IsBusy
  <2>3. gap <= MaxGap
    BY AuxAssumption DEF IInv, TypeOK, MaxGap
  <2> QED
    BY <1>0, <2>1, <2>2, <2>3 DEF PauseInv, Promised
<1>6. CASE UNCHANGED vars
  BY <1>6 DEF vars, cmd, flow, ghost, PauseInv, Promised, IsBusy
<1> QED
  BY <1>2, <1>3, <1>4, <1>5, <1>6 DEF Next, Loop

\* Between two frames of a STOP the line is silent for StopWait, but for the part
\* of a frame of the main loop that had passed when the first was written
\* (StopCMD, OnTimerComplete, and Timer::Loop, which charges whole frames).
THEOREM StopPause == Spec => StopPauseKept
<1> DEFINE Step == cmdState = "STOP" /\ Len(wire') > Len(wire) /\ wire # <<>>
                     => gap >= IF Len(wire) = 1 THEN StopWait - MaxFrame ELSE StopWait
<1>1. IInv /\ PauseInv /\ [Next]_vars => [Step]_vars
  <2> SUFFICES ASSUME IInv, PauseInv, Next, cmdState = "STOP", Len(wire') > Len(wire), wire # <<>>
               PROVE  gap >= IF Len(wire) = 1 THEN StopWait - MaxFrame ELSE StopWait
    OBVIOUS
  <2>0. /\ wire \in Seq(Command) /\ Len(wire) = cmdAttempt /\ Len(wire) \in Nat /\ Len(wire) > 0
        /\ IsBusy /\ gap \in Nat /\ remain \in Nat /\ since \in Nat
        /\ StopWait \in Nat /\ MaxFrame \in Nat /\ LaunchWait \in Nat
    BY AuxAssumption DEF IInv, TypeOK, OneCommandPerRun, IsBusy, Command, MaxGap
  <2>1. ~Users
    BY <2>0 DEF Users, HandleSMSCommand, HandleDtmfCommand, HandleCMD
  <2>2. ~FramePasses /\ ~Tick
    BY <2>0 DEF FramePasses, Tick
  <2>3. remain <= since
    BY <2>1, <2>2 DEF Next, Loop, FrameCompletes
  <2>4. gap = MaxGap \/ gap + (remain - since) >= Promised
    BY DEF PauseInv
  <2> QED
    BY <2>0, <2>3, <2>4 DEF Promised, MaxGap
<1>2. Init => PauseInv
  BY AuxAssumption DEF Init, PauseInv
<1>3. IInv /\ PauseInv /\ [Next]_vars => PauseInv'
  BY NextPause
<1> QED
  BY <1>1, <1>2, <1>3, InvHolds, PTL DEF Spec, StopPauseKept

=============================================================================
