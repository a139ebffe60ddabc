------------------------------ MODULE AuxHeater ------------------------------
(***************************************************************************)
(* The heater's command line (src/AuxHeaterSerial.cpp) and the two entry   *)
(* points of src/main.cpp that feed it, the text message and the phone     *)
(* key.  A command is written to the heater three times, spaced by         *)
(* flowTimer; one more command may wait behind it; whoever asked last is   *)
(* told when the line is free again.                                       *)
(*                                                                         *)
(* One step is one call: a handler of main.cpp, or one Timer::Loop with    *)
(* everything the completed timer calls.  Time is counted in ticks; the    *)
(* timer pays a whole loop frame at a time, as in TimerList.               *)
(***************************************************************************)
EXTENDS Integers, Sequences

CONSTANTS
  AUX_MAX_ATTEMPTS,  (* how often a command is written                      *)
  LaunchWait,        (* ticks flowTimer waits after a LAUNCH (162124 us)    *)
  StopWait,          (* the same after a STOP (152016 us)                   *)
  LaunchBlock,       (* ticks LaunchCMD blocks in delay (359 ms)            *)
  MaxFrame           (* bound: ticks one main-loop frame may last           *)

ASSUME AuxAssumption ==
  /\ AUX_MAX_ATTEMPTS \in Nat \ {0}
  /\ LaunchWait \in Nat \ {0}
  /\ StopWait \in Nat \ {0}
  /\ LaunchBlock \in Nat
  /\ MaxFrame \in Nat \ {0}

VARIABLES
  cmdState,        (* the command on the line: NONE, LAUNCH or STOP         *)
  awaitState,      (* the command that waits behind it                      *)
  cmdAttempt,      (* how often cmdState was written                        *)
  actionCallback,  (* NULL, or "notify": handleHeaterComplete               *)
  armed,           (* flowTimer # 0                                         *)
  remain,          (* what is left of flowTimer                             *)
  since,           (* ticks since Timer::Loop last took the time            *)
  wire,            (* history: the frames written since the last completion *)
  gap,             (* history: ticks since the last frame, up to MaxGap     *)
  asked,           (* history: the last request HandleCMD took              *)
  told             (* history: the callback this step called                *)

flow  == <<armed, remain, since>>
cmd   == <<cmdState, awaitState, cmdAttempt, actionCallback>>
ghost == <<wire, gap, asked, told>>
vars  == <<cmd, flow, ghost>>

Command == {"LAUNCH", "STOP"}
Callback == {"NULL", "notify"}

Wait == [c \in Command |-> IF c = "LAUNCH" THEN LaunchWait ELSE StopWait]

\* Ticks the main loop stands still while c is written.
Block == [c \in Command |-> IF c = "LAUNCH" THEN LaunchBlock ELSE 0]

MaxGap == LaunchWait + StopWait
Capped(t) == IF t > MaxGap THEN MaxGap ELSE t

IsBusy == cmdState \in Command

-----------------------------------------------------------------------------
Init ==
  /\ cmdState = "NONE" /\ awaitState = "NONE"
  /\ cmdAttempt = 0
  /\ actionCallback = "NULL"
  /\ armed = FALSE /\ remain = 0
  /\ since = 0
  /\ wire = <<>>
  /\ gap = MaxGap
  /\ asked = [cmd |-> "NONE", cb |-> "NULL"]
  /\ told = "NULL"

\* LaunchCMD and StopCMD, called s ticks into the frame: write c once more,
\* standing still meanwhile, and start flowTimer anew.
Transmit(c, attempts, s) ==
  /\ cmdAttempt' = attempts + 1
  /\ armed' = TRUE
  /\ remain' = Wait[c]
  /\ since' = s + Block[c]
  /\ gap' = 0

\* HandleCMD on a free line: c goes out at once, for callback cb.
Accept(c, cb, s) ==
  /\ cmdState' = c
  /\ actionCallback' = cb
  /\ Transmit(c, 0, s)
  /\ wire' = <<c>>

\* Mutant of Enqueue: the callback stays the one of the running command.
EnqueueKeepsCallback(c, cb) ==
  IF cmdState # c
  THEN /\ awaitState' = c
       /\ asked' = [cmd |-> c, cb |-> cb]
       /\ UNCHANGED actionCallback
  ELSE UNCHANGED <<awaitState, actionCallback, asked>>

\* HandleCMD on a busy line: the other command waits, replacing what waited,
\* and takes over the callback; the command on the line is ignored.
Enqueue(c, cb) ==
  IF cmdState # c
  THEN /\ awaitState' = c
       /\ actionCallback' = cb
       /\ asked' = [cmd |-> c, cb |-> cb]
  ELSE UNCHANGED <<awaitState, actionCallback, asked>>

\* Mutant of HandleCMD: the other command cuts in.
HandleCMDCutsIn(c, cb) ==
  /\ cmdState # c
  /\ Accept(c, cb, since)
  /\ asked' = [cmd |-> c, cb |-> cb]
  /\ told' = "NULL"
  /\ awaitState' = "NONE"

\* HandleCMD: at once on a free line, else through Enqueue.
HandleCMD(c, cb) ==
  /\ IF IsBusy
     THEN /\ Enqueue(c, cb)
          /\ UNCHANGED <<cmdState, cmdAttempt, flow, wire, gap>>
     ELSE /\ Accept(c, cb, since)
          /\ asked' = [cmd |-> c, cb |-> cb]
          /\ UNCHANGED awaitState
  /\ told' = "NULL"

\* handleSMSCommand: an "on" of the last minute, an "off" of the last five.
HandleSMSCommand(text, minutes) ==
  \/ text = "on" /\ minutes <= 1 /\ HandleCMD("LAUNCH", "notify")
  \/ text = "off" /\ minutes <= 5 /\ HandleCMD("STOP", "notify")

\* handleDtmfCommand: the keys of a call, nobody to notify.
HandleDtmfCommand(code) ==
  \/ code = "1" /\ HandleCMD("LAUNCH", "NULL")
  \/ code = "0" /\ HandleCMD("STOP", "NULL")

\* Mutant of HandleResult: the callback is called before the waiting command, too.
HandleResultTellsEarly ==
  IF awaitState # "NONE"
  THEN /\ awaitState' = "NONE"
       /\ Accept(awaitState, actionCallback, 0)
       /\ told' = actionCallback
  ELSE /\ cmdState' = "NONE"
       /\ cmdAttempt' = 0
       /\ actionCallback' = "NULL"
       /\ told' = actionCallback
       /\ wire' = <<>>
       /\ armed' = FALSE /\ remain' = 0 /\ since' = 0
       /\ UNCHANGED <<awaitState, gap>>

\* Mutant of HandleResult: the command that waits is forgotten about.
HandleResultLeavesWaiting ==
  /\ cmdState' = "NONE"
  /\ cmdAttempt' = 0
  /\ actionCallback' = "NULL"
  /\ told' = actionCallback
  /\ wire' = <<>>
  /\ armed' = FALSE /\ remain' = 0 /\ since' = 0
  /\ UNCHANGED <<awaitState, gap>>

\* HandleResult: the command that waits goes out; with none, the line is free
\* and the callback is called, once.
HandleResult ==
  IF awaitState # "NONE"
  THEN /\ awaitState' = "NONE"
       /\ Accept(awaitState, actionCallback, 0)
       /\ told' = "NULL"
  ELSE /\ cmdState' = "NONE"
       /\ cmdAttempt' = 0
       /\ actionCallback' = "NULL"
       /\ told' = actionCallback
       /\ wire' = <<>>
       /\ armed' = FALSE /\ remain' = 0 /\ since' = 0
       /\ UNCHANGED <<awaitState, gap>>

\* OnTimerComplete.  (Its default case needs a timer that runs while no command
\* does: LineOwnsTimer excludes it.)
OnTimerComplete ==
  IF cmdAttempt >= AUX_MAX_ATTEMPTS
  THEN HandleResult
  ELSE /\ Transmit(cmdState, cmdAttempt, 0)
       /\ wire' = Append(wire, cmdState)
       /\ told' = "NULL"
       /\ UNCHANGED <<cmdState, awaitState, actionCallback>>

\* Timer::Loop charges the frame to flowTimer and completes it when it is over.
FrameCompletes ==
  /\ armed /\ remain <= since
  /\ OnTimerComplete
  /\ UNCHANGED asked

\* Mutant of FramePasses: the frame is charged again by the next one.
FramePassesTwice ==
  /\ armed => remain > since
  /\ remain' = IF armed THEN remain - since ELSE remain
  /\ told' = "NULL"
  /\ UNCHANGED <<cmd, armed, since, wire, gap, asked>>

\* Timer::Loop when flowTimer has time left: it pays the frame.
FramePasses ==
  /\ armed => remain > since
  /\ remain' = IF armed THEN remain - since ELSE remain
  /\ since' = 0
  /\ told' = "NULL"
  /\ UNCHANGED <<cmd, armed, wire, gap, asked>>

Tick ==
  /\ since < MaxFrame
  /\ since' = since + 1
  /\ gap' = Capped(gap + 1)
  /\ told' = "NULL"
  /\ UNCHANGED <<cmd, armed, remain, wire, asked>>

Users ==
  \/ \E text \in {"on", "off"}, minutes \in {0, 1, 5, 6} : HandleSMSCommand(text, minutes)
  \/ \E code \in {"0", "1"} : HandleDtmfCommand(code)

Loop == FrameCompletes \/ FramePasses

Next == Users \/ Loop \/ Tick

Spec == Init /\ [][Next]_vars

\* loop() runs Timer::Loop for ever while the clock goes on; users need do nothing.
Fairness == WF_vars(Loop) /\ WF_vars(Tick)

FairSpec == Spec /\ Fairness

-----------------------------------------------------------------------------
TypeOK ==
  /\ cmdState \in Command \cup {"NONE"}
  /\ awaitState \in Command \cup {"NONE"}
  /\ cmdAttempt \in 0 .. AUX_MAX_ATTEMPTS
  /\ actionCallback \in Callback
  /\ armed \in BOOLEAN
  /\ remain \in Nat
  /\ since \in Nat
  /\ wire \in Seq(Command)
  /\ gap \in 0 .. MaxGap
  /\ asked \in [cmd : Command \cup {"NONE"}, cb : Callback]
  /\ told \in Callback

\* The line is never stuck and never fires on its own: flowTimer runs exactly
\* while a command is on the line, and only a busy line has a command waiting,
\* the other one (HandleCMD, HandleResult and OnTimerComplete together).
LineOwnsTimer ==
  /\ armed <=> IsBusy
  /\ awaitState # "NONE" => IsBusy /\ awaitState # cmdState

\* A run on the wire is one command, never mixed with the one that waits, and
\* cmdAttempt counts its frames (LaunchCMD, StopCMD, OnTimerComplete).
OneCommandPerRun ==
  /\ Len(wire) = cmdAttempt
  /\ \A i \in 1 .. Len(wire) : wire[i] = cmdState

\* Whatever was sent meanwhile, the request HandleCMD took last decides: it
\* waits, or it is on the line, and its callback is the one that will be called.
LastRequestDecides ==
  IsBusy =>
    /\ asked.cmd = IF awaitState # "NONE" THEN awaitState ELSE cmdState
    /\ asked.cb = actionCallback

\* A command leaves the line only after AUX_MAX_ATTEMPTS frames: no request,
\* however timed, cuts a run short or lengthens it.
RunsAreComplete ==
  [][(cmdState' # cmdState \/ Len(wire') < Len(wire)) /\ IsBusy
       => wire = [i \in 1 .. AUX_MAX_ATTEMPTS |-> cmdState]]_vars

\* The callback is called exactly when the line becomes free, and it is the
\* callback of the request taken last: one that was replaced is never called,
\* and none is called twice (HandleResult clears actionCallback first).
ToldOnceAtTheEnd ==
  [][told' = IF IsBusy /\ cmdState' = "NONE" THEN asked.cb ELSE "NULL"]_vars

\* A command that waits gets the line, whatever the users do: the run before it ends.
WaitingCommandRuns == \A c \in Command : awaitState = c ~> cmdState = c
\* The pause after a STOP frame is kept, but for the part of the frame of the
\* main loop that had passed when the first of them was written.
StopPauseKept ==
  [][cmdState = "STOP" /\ Len(wire') > Len(wire) /\ wire # <<>>
       => gap >= IF Len(wire) = 1 THEN StopWait - MaxFrame ELSE StopWait]_vars

=============================================================================
