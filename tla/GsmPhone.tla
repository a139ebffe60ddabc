------------------------------- MODULE GsmPhone -------------------------------
(***************************************************************************)
(* The phone of the heater: GSMSerialHandler and UbloxGSMHandler.  It sets *)
(* the modem up in steps, reads the phone book, takes texts and calls of   *)
(* those in it, and calls the sender of a text back when the heater has    *)
(* done what the text asked for, hanging up when it rings.                 *)
(*                                                                         *)
(* There is no queue of commands: WriteGsmSerial writes over what is       *)
(* pending, an answer is known only by the state the handler is in, and    *)
(* every line that comes stops the timeout.                                *)
(*                                                                         *)
(* UbloxGSMHandler.h:43 starts in INITIALIZATION and is commented out; :44 *)
(* starts in LOCKED, and main.cpp:116 leaves the handler out of the loop.  *)
(* The module has both starts and takes the handler to be in the loop.     *)
(***************************************************************************)
EXTENDS Integers, Sequences, FiniteSets

CONSTANTS
  FlowStart,            (* where the flow may start                         *)
  SMS_CALL_HANGUP_SIZE, (* capacity of the stack of senders to call         *)
  MaxOwed               (* bound: commands the modem takes before it answers *)

ASSUME PhoneAssumption ==
  /\ FlowStart \subseteq {"INITIALIZATION", "LOCKED"}
  /\ SMS_CALL_HANGUP_SIZE \in Nat \ {0} /\ MaxOwed \in Nat \ {0}

VARIABLES
  flowState, flowTimer,
  pending,         (* reqCmd is not NULL                                    *)
  timeout,         (* responseTimeoutTimer runs                             *)
  smsState, smsSender,
  callState,
  callTimer,       (* none, DIAL, HANGUP, ANSWER                            *)
  callHangupStack, (* how many senders wait to be called                    *)
  registered,      (* cRegState is 1 or 5, while a step will look at it      *)
  simPinState,     (* as answered, until the step looks at it               *)
  response,        (* <<>>: NULL, or the state and the caller of a call     *)
  book,            (* the friend's number is in the phone book              *)
  modem,           (* cmds: taken and not answered; mid: the first of them  *)
                   (* has had its data; call, who: the call it has; text:  a *)
                   (* text follows                                          *)
  acked,           (* history: commands of the flow that were acknowledged  *)
  lost             (* history: "step": a step was taken for an answer that  *)
                   (* is not its own; "answer": an answer to a step is lost; *)
                   (* "call": a call, or a command, a timer or a +CLCC of    *)
                   (* one, came to nothing or outlived it                    *)

flow == <<flowState, flowTimer, registered, simPinState, book, acked>>
sms == <<smsState, smsSender, callHangupStack>>
call == <<callState, callTimer>>
vars == <<flow, pending, timeout, sms, call, response, modem, lost>>

FlowCommand ==
  [INITIALIZATION |-> "AT", ENABLE_CREG_EVENT |-> "CREG=1", ENABLE_UCALLSTAT_EVENT |-> "UCALLSTAT",
   ENABLE_DTMF_EVENT |-> "UDTMFD", SIM_PIN_STATE |-> "CPIN?", SIM_LOGIN |-> "CPIN",
   CHECK_REG_NETWORK |-> "CREG?", SYNC_TIME |-> "CCLK?", TIME_REQUEST |-> "CCLK?",
   READ_PHONE_BOOK |-> "CPBR"]
StepState == DOMAIN FlowCommand
UbloxFlowState == StepState \cup {"WAIT_REG_NETWORK", "READY", "LOCKED"}
Command == {FlowCommand[s] : s \in StepState} \cup {"CLCC", "H", "A", "D", "CMGS"}
GSMSMSState == {"NONE", "RECEIVE_AUTH", "RECEIVE_NOT_AUTH", "SEND_BEGIN", "SEND_FLOW"}
GSMCallState == {"ACTIVE", "DIALING", "ALERTING", "INCOMING", "DISCONNECT"}

\* What the modem has: a call that was answered is ANSWERED until it says ACTIVE, one
\* that was hung up ENDED until it says DISCONNECT.
ModemCall == {"none", "INCOMING", "ANSWERED", "DIALING", "ALERTING", "IN", "OUT", "ENDED"}
Silent == [cmds |-> <<>>, mid |-> FALSE, call |-> "none", who |-> "us", text |-> FALSE]

-----------------------------------------------------------------------------
Init ==
  /\ flowState \in FlowStart /\ flowTimer = TRUE
  /\ registered = FALSE /\ simPinState = "UNKNOWN" /\ book = FALSE /\ acked = {}
  /\ pending = FALSE /\ timeout = FALSE
  /\ smsState = "NONE" /\ smsSender = FALSE /\ callHangupStack = 0
  /\ callState = "DISCONNECT" /\ callTimer = "none"
  /\ response = <<>>
  /\ modem = Silent
  /\ lost = {}

IsBusy ==
  timeout \/ pending \/ smsState # "NONE" \/ callState # "DISCONNECT" \/ callTimer # "none"

\* Mutant: anyone, once the phone book is read.
IsAuthorizedAny(who) == book

IsAuthorized(who) == book /\ who = "friend"

\* WriteGsmSerial(c) when the modem is m: it ignores what it cannot take.
Write(c, m) ==
  /\ pending' = (c # "AT")
  /\ timeout' = TRUE
  /\ modem' = IF Len(m.cmds) < MaxOwed THEN [m EXCEPT !.cmds = Append(@, c)] ELSE m

\* A line that makes nothing be written: it stops the timeout.
NoWrite(stays, m) ==
  /\ pending' = stays
  /\ timeout' = FALSE
  /\ modem' = m

Owes(c) == \E i \in DOMAIN modem.cmds : modem.cmds[i] = c
Ignored == timeout' /\ Len(modem'.cmds) = MaxOwed /\ modem'.cmds = modem.cmds

\* What is lost with a step, and what is over.
Lost(more) ==
  lost' = (lost \cup more) \
    ((IF flowTimer' \/ flowState' \notin StepState THEN {"answer"} ELSE {})
     \cup (IF modem'.call = "none" /\ callState' = "DISCONNECT" /\ callTimer' = "none" /\ response' = <<>>
          THEN {"call"} ELSE {}))

-----------------------------------------------------------------------------
(* The flow                                                                *)

\* StartFlowTimer at the end of a handler.
Goes(next) == flowState' = next /\ flowTimer' = TRUE
Stops(next) == flowState' = next /\ flowTimer' = flowTimer
Keeps(connected) ==
  registered' = (connected /\ flowState' \in StepState \ {"SYNC_TIME", "TIME_REQUEST", "READ_PHONE_BOOK"})

\* Mutant: one step too far.
FlowOKSkips ==
  CASE flowState = "INITIALIZATION"         -> Goes("ENABLE_UCALLSTAT_EVENT")
    [] flowState = "ENABLE_UCALLSTAT_EVENT" -> Goes("ENABLE_DTMF_EVENT")
    [] flowState = "ENABLE_DTMF_EVENT"      -> Goes("SIM_PIN_STATE")
    [] flowState = "SIM_PIN_STATE"          -> Goes("CHECK_REG_NETWORK")
    [] flowState = "CHECK_REG_NETWORK"      -> Goes("TIME_REQUEST")
    [] flowState = "TIME_REQUEST"           -> Goes("READ_PHONE_BOOK")
    [] OTHER                                -> Goes("READY")

\* OK: the step is done, whatever the OK was for.
FlowOK ==
  CASE flowState = "INITIALIZATION"         -> Goes("ENABLE_CREG_EVENT")
    [] flowState = "ENABLE_CREG_EVENT"      -> Goes("ENABLE_UCALLSTAT_EVENT")
    [] flowState = "ENABLE_UCALLSTAT_EVENT" -> Goes("ENABLE_DTMF_EVENT")
    [] flowState = "ENABLE_DTMF_EVENT"      -> Goes("SIM_PIN_STATE")
    [] flowState = "SIM_PIN_STATE" ->
         CASE simPinState = "PIN"   -> Goes("SIM_LOGIN")
           [] simPinState = "READY" -> Goes("CHECK_REG_NETWORK")
           [] OTHER                 -> Stops("LOCKED")
    [] flowState = "SIM_LOGIN"              -> Goes("WAIT_REG_NETWORK")
    [] flowState = "CHECK_REG_NETWORK" ->
         Goes(IF registered THEN "TIME_REQUEST" ELSE flowState)
    [] flowState = "SYNC_TIME"              -> Stops("READY")
    [] flowState = "TIME_REQUEST"           -> Goes("READ_PHONE_BOOK")
    [] flowState = "READ_PHONE_BOOK"        -> Goes("READY")
    [] flowState = "READY"                  -> Stops("READY")
    [] OTHER                                -> Goes(flowState)

\* Mutant: stays to try again, and does not.
FlowErrorStays ==
  IF flowState = "INITIALIZATION" THEN Stops(flowState)
  ELSE IF flowState \in {"SIM_PIN_STATE", "SIM_LOGIN"} THEN Stops("LOCKED")
  ELSE Goes("READY")

\* An error or a timeout.
FlowError ==
  CASE flowState = "INITIALIZATION" -> Goes(flowState)
    [] flowState \in {"SIM_PIN_STATE", "SIM_LOGIN"} -> Stops("LOCKED")
    [] OTHER -> Goes("READY")

OnNetworkStateUpdated(connected) ==
  /\ CASE flowState = "READY" -> Goes(IF connected THEN "SYNC_TIME" ELSE flowState)
       [] flowState = "WAIT_REG_NETWORK" -> Goes(IF connected THEN "TIME_REQUEST" ELSE flowState)
       [] OTHER -> Stops(flowState)
  /\ Keeps(connected)

\* AT is written with a NULL, which OnCMDRequest compares with "D": at address 0 there
\* may be an empty text, which every text begins with.
OnFlowTimer ==
  /\ flowTimer /\ flowTimer' = FALSE
  /\ UNCHANGED <<flowState, registered, simPinState, acked, sms, callTimer, response>>
  /\ IF flowState \in StepState
     THEN /\ Write(FlowCommand[flowState], modem)
          /\ callState' \in {callState} \cup IF flowState = "INITIALIZATION" THEN {"DIALING"} ELSE {}
          /\ book' = (book /\ flowState # "READ_PHONE_BOOK")
          /\ Lost((IF Ignored THEN {"answer"} ELSE {}) \cup IF callState' # callState THEN {"call"} ELSE {})
     ELSE UNCHANGED <<pending, timeout, modem, callState, book, lost>>

\* No line came: the flow takes it for an error.
OnTimeout ==
  /\ timeout /\ NoWrite(FALSE, modem)
  /\ FlowError
  /\ acked' = IF flowState \in {"READY", "SYNC_TIME"} THEN acked ELSE {}
  /\ Keeps(registered)
  /\ UNCHANGED <<simPinState, book, sms, call, response>>
  /\ Lost(IF flowState \in {"READY", "SYNC_TIME"} THEN {} ELSE {"step"})

-----------------------------------------------------------------------------
(* Calls                                                                   *)

\* Mutant: a call that rings is left to ring.
UpdateCallStateRings(s, who, stays, m) ==
  /\ callState' = s
  /\ IF s = "INCOMING"
     THEN callTimer' = IF IsAuthorized(who) THEN "ANSWER" ELSE "HANGUP"
     ELSE UNCHANGED callTimer
  /\ IF s = "ACTIVE" /\ who = "us" THEN Write("H", m) ELSE NoWrite(stays, m)

\* UpdateCallState when the modem is m.
UpdateCallState(s, who, stays, m) ==
  /\ callState' = s
  /\ CASE s = "ALERTING" -> callTimer' = "HANGUP" /\ NoWrite(stays, m)
       [] s = "INCOMING" ->
            /\ callTimer' = IF IsAuthorized(who) THEN "ANSWER" ELSE "HANGUP"
            /\ NoWrite(stays, m)
       [] s = "ACTIVE" /\ who = "us" -> callTimer' = "none" /\ Write("H", m)
       [] OTHER -> UNCHANGED callTimer /\ NoWrite(stays, m)

\* DialCMD with n senders in the stack and a call timer: nothing, when the handler is busy.
DialCMD(n, timer) ==
  IF timeout \/ pending \/ smsState # "NONE" \/ callState # "DISCONNECT" \/ timer # "none" \/ n = 0
  THEN callHangupStack' = n /\ UNCHANGED <<pending, timeout, callState, modem>>
  ELSE callHangupStack' = n - 1 /\ Write("D", modem) /\ callState' = "DIALING"

OnCallTimer ==
  /\ callTimer # "none" /\ callTimer' = "none"
  /\ \/ callTimer = "DIAL" /\ DialCMD(callHangupStack, "none")
     \/ callTimer = "HANGUP" /\ Write("H", modem) /\ UNCHANGED <<callHangupStack, callState>>
     \/ callTimer = "ANSWER" /\ Write("A", modem) /\ UNCHANGED <<callHangupStack, callState>>
  /\ UNCHANGED <<flow, smsState, smsSender, response>>
  /\ Lost(IF Ignored THEN {"call"} ELSE {})

\* The heater is done (handleHeaterComplete): the sender of the last text is called.
NotifyByCallHangUp ==
  /\ smsSender /\ callHangupStack < SMS_CALL_HANGUP_SIZE
  /\ DialCMD(callHangupStack + 1, callTimer)
  /\ UNCHANGED <<flow, smsState, smsSender, callTimer, response>>
  /\ Lost(IF Ignored THEN {"call"} ELSE {})

\* To the first in the phone book: without one, GetPrimaryPhone's NULL is read through.
SendSMSMessage ==
  /\ book /\ ~IsBusy
  /\ Write("CMGS", modem)
  /\ smsState' = "SEND_BEGIN"
  /\ UNCHANGED <<flow, smsSender, callHangupStack, call, response, lost>>

-----------------------------------------------------------------------------
(* Answers                                                                 *)

\* Any line but a text's, while a prompt is waited for: the text is written.
Swallows(m, more) ==
  /\ smsState = "SEND_BEGIN"
  /\ smsState' = "SEND_FLOW"
  /\ pending' = FALSE /\ timeout' = TRUE /\ modem' = m
  /\ UNCHANGED <<flow, smsSender, callHangupStack, call, response>>
  /\ Lost(more)

Heard == smsState # "SEND_BEGIN"

\* The modem's call after the answer to c.
CallAfter(c, ok) ==
  CASE ok /\ c = "A" -> "ANSWERED"
    [] ok /\ c = "D" -> "DIALING"
    [] ok /\ c = "H" /\ modem.call # "none" -> "ENDED"
    [] OTHER -> modem.call

Answered(ok) ==
  [modem EXCEPT !.cmds = Tail(@), !.mid = FALSE, !.call = CallAfter(Head(modem.cmds), ok)]

\* The modem grants what it can; a query is answered after its data.
CanGrant(c) ==
  CASE c = "A" -> modem.call = "INCOMING"
    [] c = "D" -> modem.call = "none"
    [] c \in {"CPIN?", "CREG?", "CPBR", "CMGS"} -> modem.mid
    [] OTHER -> TRUE

Setup == StepState \ {"SYNC_TIME"}
Needed == Setup \ {"SIM_LOGIN", "CHECK_REG_NETWORK"}

\* What a final answer that is swallowed leaves behind.
AnswerLost ==
  (IF flowState \in StepState THEN {"answer"} ELSE {}) \cup (IF response # <<>> THEN {"call"} ELSE {})

ModemOK ==
  /\ modem.cmds # <<>> /\ ~modem.text
  /\ CanGrant(Head(modem.cmds))
  /\ LET c == Head(modem.cmds)
         other == flowState \in Setup /\ c # FlowCommand[flowState]
     IN \/ Swallows(Answered(TRUE), AnswerLost)
        \/ /\ Heard
           /\ FlowOK
           /\ simPinState' = IF flowState = "SIM_PIN_STATE" THEN "UNKNOWN" ELSE simPinState
           /\ acked' = IF other \/ "step" \in lost THEN {} ELSE acked \cup ({flowState} \cap Needed)
           /\ IF flowState = "READY" /\ response # <<>>
              THEN UpdateCallState(response[1], response[2], FALSE, Answered(TRUE)) /\ response' = <<>>
              ELSE NoWrite(FALSE, Answered(TRUE)) /\ UNCHANGED <<call, response>>
           /\ Keeps(registered)
           /\ UNCHANGED <<book, sms>>
           /\ Lost((IF other THEN {"step"} ELSE {})
                   \cup (IF response' # <<>> THEN {"call"} ELSE {})
                   \cup (IF response # response' /\ (modem.call = "none" \/ "call" \in lost) THEN {"call"} ELSE {}))

ModemError ==
  /\ modem.cmds # <<>> /\ ~modem.text
  /\ Head(modem.cmds) # "H" /\ (modem.mid => Head(modem.cmds) = "CMGS")
  /\ \/ Swallows(Answered(FALSE), AnswerLost)
     \/ /\ Heard
        /\ NoWrite(FALSE, Answered(FALSE))
        /\ FlowError
        /\ acked' = IF flowState \in {"READY", "SYNC_TIME"} THEN acked ELSE {}
        /\ Keeps(registered)
        /\ UNCHANGED <<simPinState, book, sms, call, response>>
        /\ Lost((IF flowState \in {"READY", "SYNC_TIME"} THEN {} ELSE {"step"})
                \cup (IF Head(modem.cmds) \in {"D", "A"} THEN {"call"} ELSE {})
                \cup (IF response # <<>> THEN {"call"} ELSE {}))

ClccState ==
  CASE modem.call = "INCOMING" -> "INCOMING"
    [] modem.call = "DIALING"  -> "DIALING"
    [] modem.call = "ALERTING" -> "ALERTING"
    [] modem.call \in {"ANSWERED", "IN", "OUT"} -> "ACTIVE"

\* Data of the first command, once.
ModemData ==
  /\ modem.cmds # <<>> /\ ~modem.text /\ ~modem.mid
  /\ LET c == Head(modem.cmds)
         m == [modem EXCEPT !.mid = TRUE]
     IN /\ c \in {"CPIN?", "CREG?", "CPBR"} \/ (c = "CLCC" /\ modem.call \notin {"none", "ENDED"})
        /\ \/ Swallows(m, {})
           \/ /\ Heard
              /\ NoWrite(pending, m)
              /\ simPinState' \in IF c = "CPIN?" THEN {"READY", "PIN", "ERROR"} ELSE {simPinState}
              /\ IF c = "CREG?" THEN \E r \in BOOLEAN : OnNetworkStateUpdated(r)
                 ELSE UNCHANGED <<registered, flowState, flowTimer>>
              /\ book' = (book \/ c = "CPBR")
              /\ response' = IF c = "CLCC" THEN <<ClccState, modem.who>> ELSE response
              /\ UNCHANGED <<acked, sms, call>>
              /\ Lost({})

\* "> ", which ends no line.
ModemPrompt ==
  /\ modem.cmds # <<>> /\ ~modem.text /\ ~modem.mid /\ Head(modem.cmds) = "CMGS"
  /\ IF Heard
     THEN modem' = [modem EXCEPT !.mid = TRUE]
          /\ UNCHANGED <<flow, pending, timeout, sms, call, response, lost>>
     ELSE Swallows([modem EXCEPT !.mid = TRUE], {})

-----------------------------------------------------------------------------
(* Events, which do not come between the lines of an answer                *)

Event == ~modem.text /\ ~modem.mid

RegEvent(r) ==
  /\ Event
  /\ \/ Swallows(modem, {})
     \/ /\ Heard
        /\ NoWrite(pending, modem)
        /\ OnNetworkStateUpdated(r)
        /\ UNCHANGED <<simPinState, book, acked, sms, call, response>>
        /\ Lost({})

NextCall(s) ==
  CASE s = "INCOMING"   -> modem.call = "none"
    [] s = "ALERTING"   -> modem.call = "DIALING"
    [] s = "ACTIVE"     -> modem.call \in {"ANSWERED", "DIALING", "ALERTING"}
    [] s = "DISCONNECT" -> modem.call # "none"

\* The modem's call, and whose it is, once it says s.
CallBecomes(s) ==
  CASE s = "DISCONNECT" -> "none"
    [] s = "ACTIVE" -> IF modem.call = "ANSWERED" THEN "IN" ELSE "OUT"
    [] OTHER -> s

WhoBecomes(s, who) ==
  CASE s = "DISCONNECT" -> "us" [] s = "INCOMING" -> who [] OTHER -> modem.who

\* +UCALLSTAT: the call is fetched when it comes in and when it is answered.
CallEvent(s, who) ==
  /\ Event
  /\ NextCall(s)
  /\ who = "us" <=> s # "INCOMING"
  /\ LET m == [modem EXCEPT !.call = CallBecomes(s), !.who = WhoBecomes(s, who)]
     IN \/ Swallows(m, {"call"})
        \/ /\ Heard
           /\ IF s \in {"INCOMING", "ACTIVE"}
              THEN Write("CLCC", m) /\ UNCHANGED call
              ELSE UpdateCallState(s, "us", pending, m)
           /\ UNCHANGED <<flow, sms, response>>
           /\ Lost(IF s = "DISCONNECT" THEN {"call"} ELSE {})

\* +UUDTMFD: a code the heater takes ends the call.
DtmfEvent ==
  /\ Event /\ modem.call = "IN"
  /\ \/ Swallows(modem, {})
     \/ /\ Heard
        /\ \/ callTimer' = "none" /\ Write("H", modem)
           \/ UNCHANGED callTimer /\ NoWrite(pending, modem)
        /\ UNCHANGED <<flow, sms, callState, response>>
        /\ Lost({})

\* +CMT, and the text.
TextHeader(who) ==
  /\ Event
  /\ LET m == [modem EXCEPT !.text = TRUE]
     IN \/ Swallows(m, {})
        \/ /\ Heard
           /\ NoWrite(pending, m)
           /\ smsState' = IF IsAuthorized(who) THEN "RECEIVE_AUTH" ELSE "RECEIVE_NOT_AUTH"
           /\ smsSender' = (smsSender \/ IsAuthorized(who))
           /\ UNCHANGED <<flow, callHangupStack, call, response>>
           /\ Lost({})

\* The text: of an authorized sender it starts the call timer anew, and the command
\* that is pending is forgotten.  A part of a long one changes nothing else.
TextLine ==
  /\ smsState \in {"RECEIVE_AUTH", "RECEIVE_NOT_AUTH"}
  /\ UNCHANGED <<flow, smsSender, callHangupStack, callState, response>>
  /\ \/ /\ NoWrite(FALSE, [modem EXCEPT !.text = FALSE])
        /\ smsState' = "NONE"
        /\ callTimer' = IF smsState = "RECEIVE_AUTH" THEN "DIAL" ELSE callTimer
        /\ Lost(IF callTimer' # callTimer /\ callTimer # "none" THEN {"call"} ELSE {})
     \/ /\ NoWrite(FALSE, modem)
        /\ UNCHANGED <<smsState, callTimer, lost>>

\* A text whose header was taken for the prompt.
StrayText ==
  /\ modem.text /\ smsState = "SEND_FLOW"
  /\ NoWrite(pending, [modem EXCEPT !.text = FALSE])
  /\ UNCHANGED <<flow, sms, call, response, lost>>

-----------------------------------------------------------------------------
Answers == ModemOK \/ ModemError \/ ModemData \/ ModemPrompt

Events ==
  \/ \E r \in BOOLEAN : RegEvent(r)
  \/ \E s \in GSMCallState \ {"DIALING"}, who \in {"friend", "stranger", "us"} : CallEvent(s, who)
  \/ DtmfEvent
  \/ \E who \in {"friend", "stranger"} : TextHeader(who)

Next ==
  \/ Answers \/ Events \/ TextLine \/ StrayText
  \/ OnFlowTimer \/ OnCallTimer \/ OnTimeout
  \/ NotifyByCallHangUp \/ SendSMSMessage

Spec == Init /\ [][Next]_vars

-----------------------------------------------------------------------------
TypeOK ==
  /\ flowState \in UbloxFlowState /\ flowTimer \in BOOLEAN
  /\ pending \in BOOLEAN /\ timeout \in BOOLEAN
  /\ smsState \in GSMSMSState /\ smsSender \in BOOLEAN
  /\ callHangupStack \in 0 .. SMS_CALL_HANGUP_SIZE
  /\ callState \in GSMCallState /\ callTimer \in {"none", "DIAL", "HANGUP", "ANSWER"}
  /\ registered \in BOOLEAN /\ book \in BOOLEAN
  /\ simPinState \in {"UNKNOWN", "READY", "PIN", "ERROR"}
  /\ response \in {<<>>} \cup (GSMCallState \X {"friend", "stranger", "us"})
  /\ modem.cmds \in Seq(Command) /\ Len(modem.cmds) <= MaxOwed
  /\ modem.call \in ModemCall /\ modem.who \in {"friend", "stranger", "us"}
  /\ acked \subseteq Needed
  /\ lost \subseteq {"step", "answer", "call"}

\* READY means set up: every step was acknowledged and the phone book read, unless an
\* error, a timeout or the answer to a call's command was taken for a step's.  (Every variable
\* keeps its type.)
Configured ==
  /\ TypeOK
  /\ flowState \in {"READY", "SYNC_TIME"} => (acked = Needed /\ book) \/ "step" \in lost

\* The set-up goes on: a step waits for its timer, an answer or the timeout, unless
\* its answer is lost (every line stops the timeout, and only a command starts it).
FlowGoesOn ==
  flowState \in StepState => flowTimer \/ timeout \/ modem.cmds # <<>> \/ "answer" \in lost

\* A call of ours that rings is hung up after five seconds, unless a text took the
\* place of the timer, or the modem did not take the command (UpdateCallState).
RingsOut ==
  callState = "ALERTING" =>
    \/ callTimer = "HANGUP" \/ Owes("H") \/ modem.call \in {"ENDED", "none"}
    \/ "call" \in lost

\* Only a call that comes from the phone book is answered, unless the timer or the
\* answer to +CLCC has outlived its call: DISCONNECT does not stop the timer.
AnswersFriends ==
  [][callTimer = "ANSWER" /\ callTimer' = "none" =>
       modem.who = "friend" \/ "call" \in lost]_vars

=============================================================================
