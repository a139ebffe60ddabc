------------------------------- MODULE GsmModem -------------------------------
(***************************************************************************)
(* The engine every modem handler of lib/async-GSM runs on: one command at *)
(* a time over the serial line (GSMSerialModem.cpp, BaseSerialHandler.cpp, *)
(* SerialCharResponseHandler.cpp), the stack of commands that wait, and    *)
(* the boot of the modem (BaseGSMHandler.cpp).                             *)
(*                                                                         *)
(* The modem is the environment: it may send any line at any time, or      *)
(* nothing.  Timers are kept by id, as the code keeps them, because the    *)
(* code compares and stops by id alone; TimerService gives the smallest    *)
(* free id again and again.  A timer may complete at any time.             *)
(***************************************************************************)
EXTENDS Integers, Sequences, FiniteSets

CONSTANTS
  Command,                 (* command objects the handlers above create     *)
  OUT_MESSAGE_STACK_SIZE,  (* capacity of commandStack                      *)
  MaxTimer,                (* bound: timer ids that are ever in use         *)
  MaxOther,                (* bound: timers of other components             *)
  MaxRx,                   (* bound: pieces that wait in the serial buffer  *)
  MaxStarts                (* bound: how often StartModem is called         *)

ASSUME ModemAssumption ==
  /\ OUT_MESSAGE_STACK_SIZE \in Nat \ {0}
  /\ MaxOther \in Nat
  /\ MaxTimer \in Nat /\ MaxTimer >= MaxOther + 3
  /\ MaxRx \in Nat \ {0}
  /\ MaxStarts \in Nat \ {0}
  /\ {"NONE", "AT", "IPR"} \cap Command = {}

VARIABLES
  baudRate,        (* "auto", or "fast": > MODEM_MAX_AUTO_BAUD_RATE         *)
  modemBootState,  (* IDLE, CONNECTING, SPEED_CHAGE, RECONNECTING, COMPLETED, ERROR *)
  commandStack,    (* commands that wait, the next one first                *)
  pendingCMD,      (* the command on the line, "NONE", or a boot command    *)
  buffer,          (* bufferLength # 0: a line has begun                    *)
  rx,              (* what serial->available() still holds                  *)
  timers,          (* running: owner of each id; connectionTimer,           *)
                   (* eventBufferTimeout and responseTimeoutTimer: ids;     *)
                   (* harmed: history, another's timer was stopped          *)
  phase,           (* "idle", or "tail": the rest of Loop is to run         *)
  changed,         (* local of Loop: prevBuffAmount # bufferLength          *)
  started,         (* how often StartModem was called                       *)
  failed           (* history: the connection timer has completed           *)

serial == <<buffer, rx>>
locals == <<phase, changed>>
vars == <<baudRate, modemBootState, commandStack, pendingCMD, serial, timers, locals, started, failed>>

BootState == {"IDLE", "CONNECTING", "SPEED_CHAGE", "RECONNECTING", "COMPLETED", "ERROR"}
AnyCommand == Command \cup {"AT", "IPR"}

\* What the line may bring: a part of a line, or the end of one, named after the
\* whole line it ends: "empty" stands for the echo "AT..." too, "ERROR" for ABORTED
\* and for an overflow, "data" for every other line.
Line == {"empty", "OK", "ERROR", "data"}
BaudRate == {"auto", "fast"}

Piece == Line \cup {"part"}

TimerId == 1 .. MaxTimer

-----------------------------------------------------------------------------
(* The three timers of the handler, on a value t of timers.                *)

FreeId(t) == CHOOSE i \in TimerId :
  t.running[i] = "free" /\ \A j \in TimerId : t.running[j] = "free" => i <= j

\* Mutant of Forget: OnTimerStop knows the connection timer only.
ForgetConnectionOnly(t, i) ==
  IF t.connection = i THEN [t EXCEPT !.connection = 0] ELSE t

\* OnTimerStop of BaseGSMHandler, then GSMSerialModem, then BaseSerialHandler:
\* the first field that holds the id is set to 0.
Forget(t, i) ==
  IF t.connection = i THEN [t EXCEPT !.connection = 0]
  ELSE IF t.event = i THEN [t EXCEPT !.event = 0]
  ELSE IF t.response = i THEN [t EXCEPT !.response = 0]
  ELSE t

\* Timer::Stop(i), whoever the timer belongs to.
StopId(t, i) ==
  IF i = 0 THEN t
  ELSE CASE t.running[i] = "free"  -> t
         [] t.running[i] = "gsm"   -> Forget([t EXCEPT !.running[i] = "free"], i)
         [] t.running[i] = "other" -> [t EXCEPT !.running[i] = "free", !.harmed = TRUE]

StartConnection(t) == [t EXCEPT !.running[FreeId(t)] = "gsm", !.connection = FreeId(t)]
StartEvent(t)      == [t EXCEPT !.running[FreeId(t)] = "gsm", !.event = FreeId(t)]

StopTimeoutTimer(t) == [StopId(t, t.response) EXCEPT !.response = 0]

StartTimeoutTimer(t) ==
  LET u == StopTimeoutTimer(t)
  IN  [u EXCEPT !.running[FreeId(u)] = "gsm", !.response = FreeId(u)]

-----------------------------------------------------------------------------
Init ==
  /\ baudRate = "auto"
  /\ modemBootState = "IDLE"
  /\ commandStack = <<>>
  /\ pendingCMD = "NONE"
  /\ buffer = FALSE /\ rx = <<>>
  /\ timers = [running |-> [i \in TimerId |-> "free"],
               connection |-> 0, event |-> 0, response |-> 0, harmed |-> FALSE]
  /\ phase = "idle" /\ changed = FALSE
  /\ started = 0
  /\ failed = FALSE

\* Send(c) by the boot, once the buffers are empty: refused, and c lost, while
\* responseTimeoutTimer is set, all that is left of IsBusy.
BootSend(c, t) ==
  IF t.response = 0
  THEN pendingCMD' = c /\ timers' = StartTimeoutTimer(t)
  ELSE pendingCMD' = "NONE" /\ timers' = t

\* Mutant of StartModem: no connection timer is started.
StartModemUnarmed(baud) ==
  LET flushed == StopId(timers, timers.event)
      stopped == StopId(flushed, flushed.connection)
  IN  /\ started < MaxStarts
      /\ started' = started + 1
      /\ baudRate' = baud
      /\ modemBootState' = "CONNECTING"
      /\ commandStack' = <<>>
      /\ buffer' = FALSE /\ rx' = <<>>
      /\ BootSend("AT", stopped)
      /\ UNCHANGED <<locals, failed>>

\* StartModem: Flush, the hardware reset, a new connection timer, the first AT.
StartModem(baud) ==
  LET flushed == StopId(timers, timers.event)
      stopped == StopId(flushed, flushed.connection)
  IN  /\ started < MaxStarts
      /\ started' = started + 1
      /\ baudRate' = baud
      /\ modemBootState' = "CONNECTING"
      /\ commandStack' = <<>>
      /\ buffer' = FALSE /\ rx' = <<>>
      /\ BootSend("AT", StartConnection(stopped))
      /\ UNCHANGED <<locals, failed>>

Fresh(c) == c # pendingCMD /\ \A i \in 1 .. Len(commandStack) : commandStack[i] # c

\* AddCommand and ForceCommand: a full stack refuses, and the command is deleted.
AddCommand(c) ==
  /\ Fresh(c)
  /\ Len(commandStack) < OUT_MESSAGE_STACK_SIZE
  /\ commandStack' = Append(commandStack, c)
  /\ UNCHANGED <<baudRate, modemBootState, pendingCMD, serial, timers, locals, started, failed>>

ForceCommand(c) ==
  /\ Fresh(c)
  /\ Len(commandStack) < OUT_MESSAGE_STACK_SIZE
  /\ commandStack' = <<c>> \o commandStack
  /\ UNCHANGED <<baudRate, modemBootState, pendingCMD, serial, timers, locals, started, failed>>

-----------------------------------------------------------------------------
(* OnModemResponse.  In each case the buffer is empty when the handler     *)
(* returns (ResetBuffer), the command has been deleted if type is final,   *)
(* and t is timers as the caller left them; rest is what is left of rx.    *)

\* CONNECTING: OK ends it, or goes on to the speed; a timeout sends AT again.
OnConnecting(type, t, rest) ==
  CASE type = "OK" ->
         /\ rx' = <<>>
         /\ IF baudRate = "fast"
            THEN modemBootState' = "SPEED_CHAGE" /\ BootSend("IPR", StopId(t, t.connection))
            ELSE /\ modemBootState' = "COMPLETED"
                 /\ pendingCMD' = "NONE" /\ timers' = StopId(t, t.connection)
    [] type = "TIMEOUT" ->
         /\ rx' = <<>>
         /\ BootSend("AT", t)
         /\ UNCHANGED modemBootState
    [] OTHER ->
         /\ rx' = rest
         /\ timers' = t
         /\ UNCHANGED modemBootState

\* SPEED_CHAGE: OK switches the line over; nothing else is handled.
OnSpeedChange(type, t, rest) ==
  IF type = "OK"
  THEN /\ modemBootState' = "RECONNECTING"
       /\ rx' = <<>>
       /\ BootSend("AT", StartConnection(StopId(t, t.connection)))
  ELSE /\ rx' = rest
       /\ timers' = t
       /\ UNCHANGED modemBootState

\* RECONNECTING: OK completes the boot; a timeout sends AT again.
OnReconnecting(type, t, rest) ==
  CASE type = "OK" ->
         /\ rx' = rest
         /\ modemBootState' = "COMPLETED"
         /\ pendingCMD' = "NONE"
         /\ timers' = StopId(t, t.connection)
    [] type = "TIMEOUT" ->
         /\ rx' = <<>>
         /\ BootSend("AT", t)
         /\ UNCHANGED modemBootState
    [] OTHER ->
         /\ rx' = rest
         /\ timers' = t
         /\ UNCHANGED modemBootState

Boots(type) ==
  \/ modemBootState \in {"CONNECTING", "RECONNECTING"} /\ type \in {"OK", "TIMEOUT"}
  \/ modemBootState = "SPEED_CHAGE" /\ type = "OK"

\* left is what pendingCMD is unless the boot sends another command.
OnModemResponse(type, left, t, rest) ==
  /\ buffer' = FALSE
  /\ Boots(type) \/ pendingCMD' = left
  /\ CASE modemBootState = "CONNECTING"   -> OnConnecting(type, t, rest)
       [] modemBootState = "SPEED_CHAGE"  -> OnSpeedChange(type, t, rest)
       [] modemBootState = "RECONNECTING" -> OnReconnecting(type, t, rest)
       [] OTHER -> rx' = rest /\ timers' = t /\ UNCHANGED modemBootState

\* ResponseDetectedInternal: the timeout is stopped first.  An empty line and an
\* echo are then ignored; a line that is no answer starts the timeout again.
OnLine(line, rest) ==
  LET t == StopTimeoutTimer(timers)
  IN  IF line = "empty"
      THEN /\ buffer' = FALSE /\ rx' = rest
           /\ timers' = t
           /\ UNCHANGED <<modemBootState, pendingCMD>>
      ELSE IF pendingCMD = "NONE" THEN OnModemResponse("EVENT", "NONE", t, rest)
      ELSE IF line = "data" THEN OnModemResponse("DATA", pendingCMD, StartTimeoutTimer(t), rest)
      ELSE OnModemResponse(line, "NONE", t, rest)

\* The first end of a line in rx.
LineAt(k) == rx[k] \in Line /\ \A j \in 1 .. k - 1 : rx[j] = "part"

\* Loop, first half: SerialCharResponseHandler::Loop reads up to the end of a
\* line, or everything there is.  What was in the buffer belongs to that line.
LoopRead ==
  /\ phase = "idle"
  /\ phase' = "tail"
  /\ \/ /\ \A k \in 1 .. Len(rx) : rx[k] = "part"
        /\ buffer' = (buffer \/ rx # <<>>)
        /\ rx' = <<>>
        /\ changed' = (rx # <<>>)
        /\ UNCHANGED <<modemBootState, pendingCMD, timers>>
     \/ \E k \in 1 .. Len(rx) :
          /\ LineAt(k)
          /\ OnLine(rx[k], SubSeq(rx, k + 1, Len(rx)))
          /\ changed' = buffer
  /\ UNCHANGED <<baudRate, commandStack, started, failed>>

\* Mutant of EventTimer: the timer is stopped after it has been started.
EventTimerStopped ==
  IF pendingCMD # "NONE" \/ changed THEN StopId(timers, timers.event)
  ELSE IF buffer THEN timers ELSE StopId(timers, timers.event)

\* Loop, second half, after the callbacks the first half made: the timer of a
\* line that has begun outside a command, then the next command.
EventTimer ==
  IF pendingCMD # "NONE" THEN StopId(timers, timers.event)
  ELSE IF changed
       THEN LET t == StopId(timers, timers.event)
            IN  IF buffer THEN StartEvent(t) ELSE t
       ELSE IF buffer THEN timers ELSE StopId(timers, timers.event)

IsBusy(t) == pendingCMD # "NONE" \/ buffer \/ rx # <<>> \/ t.response # 0

\* Mutant of LoopTail: the command leaves the stack before Send can refuse it.
LoopTailDrops ==
  /\ phase = "tail"
  /\ phase' = "idle" /\ changed' = FALSE
  /\ IF modemBootState = "COMPLETED" /\ commandStack # <<>>
     THEN /\ commandStack' = Tail(commandStack)
          /\ IF IsBusy(EventTimer)
             THEN timers' = EventTimer /\ UNCHANGED pendingCMD
             ELSE pendingCMD' = Head(commandStack) /\ timers' = StartTimeoutTimer(EventTimer)
     ELSE /\ timers' = EventTimer
          /\ UNCHANGED <<pendingCMD, commandStack>>
  /\ UNCHANGED <<baudRate, modemBootState, serial, started, failed>>

LoopTail ==
  /\ phase = "tail"
  /\ phase' = "idle" /\ changed' = FALSE
  /\ IF ~IsBusy(EventTimer) /\ modemBootState = "COMPLETED" /\ commandStack # <<>>
     THEN /\ pendingCMD' = Head(commandStack)
          /\ commandStack' = Tail(commandStack)
          /\ timers' = StartTimeoutTimer(EventTimer)
     ELSE /\ timers' = EventTimer
          /\ UNCHANGED <<pendingCMD, commandStack>>
  /\ UNCHANGED <<baudRate, modemBootState, serial, started, failed>>

\* The "> " that asks for the text of a message answers like a line of data,
\* although it has no end; only the timeout is not stopped but started anew.
Prompt ==
  /\ phase = "tail" /\ changed /\ buffer
  /\ pendingCMD \in Command
  /\ buffer' = FALSE
  /\ timers' = StartTimeoutTimer(timers)
  /\ UNCHANGED <<baudRate, modemBootState, commandStack, pendingCMD, rx, locals, started, failed>>

-----------------------------------------------------------------------------
(* OnTimerComplete(i): the fields are compared in the order of the         *)
(* classes, the connection timer first.                                    *)

ConnectionFails(i) ==
  /\ timers.connection = i
  /\ modemBootState' = "ERROR"
  /\ buffer' = FALSE
  /\ timers' = [timers EXCEPT !.running[i] = "free"]
  /\ failed' = TRUE
  /\ UNCHANGED <<pendingCMD, rx>>

EventTimesOut(i) ==
  /\ timers.connection # i /\ timers.event = i
  /\ buffer' = FALSE
  /\ timers' = [timers EXCEPT !.running[i] = "free", !.event = 0]
  /\ UNCHANGED <<modemBootState, pendingCMD, rx, failed>>

ResponseTimesOut(i) ==
  /\ timers.connection # i /\ timers.event # i /\ timers.response = i
  /\ LET t == [timers EXCEPT !.running[i] = "free", !.response = 0]
     IN  IF pendingCMD = "NONE" THEN OnModemResponse("EVENT", "NONE", t, rx)
         ELSE OnModemResponse("TIMEOUT", "NONE", t, rx)
  /\ UNCHANGED failed

TimerCompletes(i) ==
  /\ phase = "idle"
  /\ timers.running[i] = "gsm"
  /\ ConnectionFails(i) \/ EventTimesOut(i) \/ ResponseTimesOut(i)
  /\ UNCHANGED <<baudRate, commandStack, locals, started>>

\* Other components start timers, which complete or are stopped by them.
OtherStarts ==
  /\ phase = "idle"
  /\ Cardinality({i \in TimerId : timers.running[i] = "other"}) < MaxOther
  /\ timers' = [timers EXCEPT !.running[FreeId(timers)] = "other"]
  /\ UNCHANGED <<baudRate, modemBootState, commandStack, pendingCMD, serial, locals, started, failed>>

OtherEnds(i) ==
  /\ phase = "idle"
  /\ timers.running[i] = "other"
  /\ timers' = [timers EXCEPT !.running[i] = "free"]
  /\ UNCHANGED <<baudRate, modemBootState, commandStack, pendingCMD, serial, locals, started, failed>>

\* The modem sends a piece, whenever it likes.
Receive(p) ==
  /\ Len(rx) < MaxRx
  /\ rx' = Append(rx, p)
  /\ UNCHANGED <<baudRate, modemBootState, commandStack, pendingCMD, buffer, timers, locals, started, failed>>

Loop == LoopRead \/ LoopTail

Clients == (\E baud \in BaudRate : StartModem(baud)) \/ \E c \in Command : AddCommand(c) \/ ForceCommand(c)

World == OtherStarts \/ (\E i \in TimerId : OtherEnds(i)) \/ \E p \in Piece : Receive(p)

Next == Loop \/ Prompt \/ Clients \/ World \/ \E i \in TimerId : TimerCompletes(i)

Spec == Init /\ [][Next]_vars

\* The main loop calls Loop and Timer::Loop by turns for ever, so a timer that is
\* not stopped completes although Loop has its turns in between: hence SF.  The
\* modem and the clients need do nothing.
Fairness == WF_vars(Loop) /\ \A i \in TimerId : SF_vars(TimerCompletes(i))

FairSpec == Spec /\ Fairness

-----------------------------------------------------------------------------
TypeOK ==
  /\ baudRate \in BaudRate
  /\ modemBootState \in BootState
  /\ commandStack \in Seq(Command) /\ Len(commandStack) <= OUT_MESSAGE_STACK_SIZE
  /\ pendingCMD \in AnyCommand \cup {"NONE"}
  /\ buffer \in BOOLEAN
  /\ rx \in Seq(Piece)
  /\ timers \in [running : [TimerId -> {"free", "gsm", "other"}],
                 connection : 0 .. MaxTimer, event : 0 .. MaxTimer, response : 0 .. MaxTimer,
                 harmed : BOOLEAN]
  /\ phase \in {"idle", "tail"}
  /\ changed \in BOOLEAN
  /\ started \in 0 .. MaxStarts
  /\ failed \in BOOLEAN

Held == {timers.connection, timers.event, timers.response} \ {0}

\* Until a connection has failed, the ids the handler holds are the ids of its
\* running timers, each in one field (OnTimerComplete, OnTimerStop, Stop, Start
\* in all three classes): it neither loses a timer nor keeps a dead id, and so has
\* stopped nobody else's.  A connection that failed leaves its id in connectionTimer,
\* and StartModem stops it when somebody else has it.  (Every variable keeps its type.)
IdsAreTimers ==
  /\ TypeOK
  /\ ~failed =>
       /\ Held = {i \in TimerId : timers.running[i] = "gsm"}
       /\ \A f, g \in {"connection", "event", "response"} :
            timers[f] = timers[g] /\ timers[f] # 0 => f = g
       /\ ~timers.harmed

\* Half a line never blocks the commands for good: outside a command it has a
\* timer that throws it away (GSMSerialModem::Loop).
HalfLineIsTimed ==
  ~failed /\ buffer /\ pendingCMD = "NONE" /\ phase = "idle" => timers.event # 0

\* The modem is asked one thing at a time, and what leaves the stack is asked:
\* Loop's test and the one in Send agree, so no command is dropped between them.
NothingDropped ==
  [][commandStack' # commandStack /\ Len(commandStack') < Len(commandStack) /\ started' = started
       => pendingCMD = "NONE" /\ <<pendingCMD'>> \o commandStack' = commandStack]_vars

\* The boot of the modem comes to an end, or reaches the change of speed, as long
\* as no connection failed before.
BootEnds ==
  \A s \in {"CONNECTING", "RECONNECTING"} :
    modemBootState = s /\ ~failed ~> modemBootState # s

=============================================================================
