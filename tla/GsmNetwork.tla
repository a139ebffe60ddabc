------------------------------ MODULE GsmNetwork ------------------------------
(***************************************************************************)
(* SIM, registration, texts and calls of the modem library:                *)
(* GSMNetworkHandler and its base GSMCallHandler, reached through          *)
(* GSMHandler.  Connect unlocks the SIM and sends nine settings, each one  *)
(* from the answer to the one before; the rest is driven by events.        *)
(*                                                                         *)
(* Below is the command service of BaseGSMHandler, as in GsmSockets: one   *)
(* command on the line and a stack of commands that wait.  What the modem  *)
(* sends while a command is pending is an answer to it, whatever the modem *)
(* meant, and an answer that comes after its command timed out is taken    *)
(* for the answer to the next one.  The modem is the environment.          *)
(***************************************************************************)
EXTENDS Integers, Sequences, FiniteSets

CONSTANTS
  OUT_MESSAGE_STACK_SIZE,  (* capacity of the stack of commands             *)
  MaxOther                 (* bound: other handlers' commands at a time     *)

ASSUME NetworkAssumption ==
  /\ OUT_MESSAGE_STACK_SIZE \in Nat \ {0}
  /\ MaxOther \in Nat

VARIABLES
  initState,       (* NONE, PIN, CONFIG, WAIT_CREG, READY                   *)
  isSimUnlocked,
  pinState,        (* of the CPIN check that is pending                     *)
  delayedRequest,  (* the field holds the id of a timer                     *)
  polls,           (* how many timers of this handler run                   *)
  incomingSms,     (* the first line of a text has come                     *)
  callingNumber,   (* NULL, freed, or whose: the current call's, an old one's *)
  stack, pending,  (* commandStack; pendingCMD or "none"                    *)
  booted,          (* MODEM_BOOT_COMPLETED                                  *)
  modem,           (* call: the call it has; due: a text is to follow a +CMT line *)
                   (* that was heard, or missed; late: it owes an answer to *)
                   (* a command that timed out                              *)
  chain,           (* history: none, going, stopped by an answer, done      *)
  acked,           (* history: settings the modem acknowledged since Connect *)
  lost,            (* history: what the handler cannot know, see Missed     *)
  wrong            (* history: what must not happen, unless something was lost *)

network == <<initState, isSimUnlocked, pinState>>
poll == <<delayedRequest, polls>>
service == <<stack, pending, booted>>
history == <<chain, acked, lost, wrong>>
vars == <<network, poll, incomingSms, callingNumber, service, modem, history>>

Settings == <<"CREG", "USTS", "CMGF", "CNMI", "UDCONF", "CTZU", "UDTMFD", "UREG", "UCALLSTAT">>
Setting == {Settings[i] : i \in DOMAIN Settings}
ChainCommand == {"CPIN?", "CPIN"} \cup Setting
Command == ChainCommand \cup {"CCLK", "CSQ", "CLCC", "other"}

CallState == {"ACTIVE", "INCOMING", "DISCONNECTED"}
Silent == [call |-> "DISCONNECTED", due |-> "none", late |-> FALSE]

-----------------------------------------------------------------------------
(* The command service                                                     *)

HasRoom == Len(stack) < OUT_MESSAGE_STACK_SIZE

\* AddCommand of each of cs in turn, as far as there is room.
Added(cs) ==
  SubSeq(stack \o cs, 1, IF Len(stack \o cs) < OUT_MESSAGE_STACK_SIZE
                         THEN Len(stack \o cs) ELSE OUT_MESSAGE_STACK_SIZE)

Forced(c) == IF HasRoom THEN <<c>> \o stack ELSE stack

\* The next step of the chain; its refusal is ignored.
GoOn(c) ==
  /\ stack' = Forced(c)
  /\ chain' = IF HasRoom THEN "going" ELSE "stopped"

-----------------------------------------------------------------------------
Init ==
  /\ initState = "NONE"
  /\ isSimUnlocked = FALSE /\ pinState = "other"
  /\ delayedRequest = FALSE /\ polls = 0
  /\ incomingSms = FALSE
  /\ callingNumber = "NULL"
  /\ stack = <<>> /\ pending = "none" /\ booted = FALSE
  /\ modem = Silent
  /\ chain = "none" /\ acked = {} /\ lost = {} /\ wrong = {}

\* Connect(simPin), once the modem has booted, and again when the unlocking or the
\* configuration came to nothing.
Connect ==
  /\ booted
  /\ initState = "NONE" \/ (chain = "stopped" /\ initState # "READY")
  /\ initState' = "PIN"
  /\ GoOn("CPIN?")
  /\ acked' = {}
  /\ lost' = lost \ {"answer"}
  /\ UNCHANGED <<isSimUnlocked, pinState, poll, incomingSms, callingNumber, pending, booted, modem, wrong>>

\* Other handlers' commands, and SendSMS and HangCall, change nothing else here.
OtherMayCome ==
  /\ HasRoom
  /\ Cardinality({i \in DOMAIN stack : stack[i] = "other"}) < MaxOther

AddCommand ==
  /\ OtherMayCome
  /\ stack' = Added(<<"other">>)
  /\ UNCHANGED <<network, poll, incomingSms, callingNumber, pending, booted, modem, history>>

ForceCommand ==
  /\ OtherMayCome
  /\ stack' = Forced("other")
  /\ UNCHANGED <<network, poll, incomingSms, callingNumber, pending, booted, modem, history>>

\* The pinState of the check is read through a cast from a class that has none: it
\* is anything until the modem has answered.
LoopSend ==
  /\ booted /\ pending = "none" /\ stack # <<>>
  /\ pending' = Head(stack)
  /\ stack' = Tail(stack)
  /\ pinState' \in IF pending' = "CPIN?" THEN {"SIM PIN", "other"} ELSE {"other"}
  /\ UNCHANGED <<initState, isSimUnlocked, poll, incomingSms, callingNumber, booted, modem, history>>

-----------------------------------------------------------------------------
(* The clock and the signal are asked for every 20 seconds.                *)

\* Mutant: the timer that may run is not stopped.
FetchTimeUnstopped(running, held) ==
  /\ polls' = running + 1
  /\ delayedRequest' = TRUE
  /\ stack' = Added(<<"CCLK", "CSQ">>)

\* running: timers of the handler; held: delayedRequest is the id of one of them,
\* which is stopped first.
FetchTime(running, held) ==
  /\ polls' = (IF held THEN running - 1 ELSE running) + 1
  /\ delayedRequest' = TRUE
  /\ stack' = Added(<<"CCLK", "CSQ">>)

OnTimerComplete ==
  /\ delayedRequest
  /\ FetchTime(polls - 1, FALSE)
  /\ UNCHANGED <<network, incomingSms, callingNumber, pending, booted, modem, history>>

-----------------------------------------------------------------------------
(* Final answers.  OVERFLOW stands above TIMEOUT in the enumeration, ERROR *)
(* and ABORTED between OK and TIMEOUT.                                     *)

FinalType == {"OK", "ERROR", "TIMEOUT", "OVERFLOW"}

\* A timeout may leave an answer owed.  While one is, the answer that comes is that
\* one, and the one to the pending command becomes owed.
Final(type) ==
  /\ pending # "none"
  /\ modem.due = "none" \/ type = "TIMEOUT"
  /\ pending' = "none"
  /\ pinState' = "other"
  /\ \/ type # "TIMEOUT" /\ modem' = modem
     \/ type = "TIMEOUT" /\ modem' \in {modem, [modem EXCEPT !.late = TRUE]}
  /\ lost' = IF modem.late /\ pending \in ChainCommand THEN lost \cup {"answer"} ELSE lost
  /\ acked' = IF "answer" \in lost' THEN {}
              ELSE acked \cup IF type = "OK" THEN {pending} \cap (ChainCommand \ {"CPIN?"}) ELSE {}
  /\ UNCHANGED <<poll, incomingSms, callingNumber, booted, wrong>>

Ends == chain' = "stopped" /\ UNCHANGED stack

CheckAnswer(type) ==
  /\ pending = "CPIN?"
  /\ Final(type)
  /\ \/ type = "OK" /\ pinState = "SIM PIN" /\ GoOn("CPIN")
     \/ type = "ERROR" /\ GoOn("CPIN?")
     \/ type = "OK" /\ pinState # "SIM PIN" /\ Ends
     \/ type \in {"TIMEOUT", "OVERFLOW"} /\ Ends
  /\ UNCHANGED <<initState, isSimUnlocked>>

UnlockAnswer(type) ==
  /\ pending = "CPIN"
  /\ Final(type)
  /\ isSimUnlocked' = (type = "OK")
  /\ IF type = "OK"
     THEN initState' = "CONFIG" /\ GoOn("CREG")
     ELSE Ends /\ UNCHANGED initState

\* Mutant: the data mode is not set.
AfterSkips(c) ==
  IF c = "CNMI" THEN "CTZU"
  ELSE Settings[(CHOOSE i \in DOMAIN Settings : Settings[i] = c) + 1]

After(c) == Settings[(CHOOSE i \in DOMAIN Settings : Settings[i] = c) + 1]

\* Mutant: every answer but an error goes on, after a timeout too.
SettingAnswerAny(type) ==
  /\ pending \in Setting
  /\ Final(type)
  /\ IF pending = "UCALLSTAT"
     THEN IF type = "OK"
          THEN initState' = "WAIT_CREG" /\ chain' = "done" /\ UNCHANGED stack
          ELSE Ends /\ UNCHANGED initState
     ELSE /\ UNCHANGED initState
          /\ IF type = "ERROR" THEN Ends
             ELSE stack' = Forced(After(pending)) /\ chain' = (IF type = "OK" /\ HasRoom THEN "going" ELSE "stopped")
  /\ UNCHANGED isSimUnlocked

\* Only OK goes on: any other answer leaves the configuration where it is.
SettingAnswer(type) ==
  /\ pending \in Setting
  /\ Final(type)
  /\ \/ type # "OK" /\ Ends /\ UNCHANGED initState
     \/ type = "OK" /\ pending # "UCALLSTAT" /\ GoOn(After(pending)) /\ UNCHANGED initState
     \/ /\ type = "OK" /\ pending = "UCALLSTAT"
        /\ initState' = "WAIT_CREG" /\ chain' = "done" /\ UNCHANGED stack
  /\ UNCHANGED isSimUnlocked

OtherAnswer(type) ==
  /\ pending \in {"CCLK", "CSQ", "CLCC", "other"}
  /\ Final(type)
  /\ UNCHANGED <<initState, isSimUnlocked, stack, chain>>

PinData(state) ==
  /\ pending = "CPIN?" /\ modem.due = "none"
  /\ pinState' = state
  /\ UNCHANGED <<initState, isSimUnlocked, poll, incomingSms, callingNumber, service, modem, history>>

-----------------------------------------------------------------------------
(* The calling number                                                      *)

\* free(callingNumber): twice, if the pointer is to freed memory already.
Frees ==
  wrong' = IF callingNumber = "freed" /\ "reboot" \notin lost THEN wrong \cup {"freed"} ELSE wrong

\* HandleCallState, whose listener may ask for the number, which is now n.
Tells(n) ==
  wrong' = IF n \in {"old", "freed"} /\ lost \cap {"end", "reboot"} = {}
           THEN wrong \cup {"number"} ELSE wrong

\* The number that is kept when a new call begins.
Aged == IF callingNumber = "current" THEN "old" ELSE callingNumber

\* Mutant: the number stays for the next call.
DisconnectsForgets ==
  /\ UNCHANGED <<wrong, callingNumber, stack>>
  /\ lost' = lost \ {"end", "reboot"}

\* The end of a call, after the listener was told.
Disconnects ==
  /\ Frees
  /\ callingNumber' = "NULL"
  /\ lost' = lost \ {"end", "reboot"}
  /\ UNCHANGED stack

\* "+CLCC: 1,1,4,0,0,number": the number of the call there is.
CallData ==
  /\ pending = "CLCC" /\ modem.due = "none"
  /\ modem.call # "DISCONNECTED"
  /\ Frees
  /\ callingNumber' = "current"
  /\ lost' = lost \ {"end", "reboot"}
  /\ UNCHANGED <<network, poll, incomingSms, service, modem, chain, acked>>

-----------------------------------------------------------------------------
(* Events                                                                  *)

\* An event is heard by its own branch, unless it is taken for the answer to the
\* pending command or for the text that a +CMT line announced.  What it said is
\* then lost.  lost keeps what matters later: "end": the end of a
\* call whose number is kept; "text": the text of a +CMT line.
Heard == pending = "none" /\ ~incomingSms

\* own: the line is the text that belongs to the +CMT line.
Missed(kinds, own) ==
  /\ ~Heard
  /\ IF pending # "none"
     THEN /\ isSimUnlocked' = (isSimUnlocked /\ pending # "CPIN")
          /\ lost' = lost \cup kinds
          /\ UNCHANGED <<incomingSms, wrong>>
     ELSE /\ incomingSms' = FALSE
          /\ wrong' = IF own \/ "text" \in lost THEN wrong ELSE wrong \cup {"text"}
          /\ lost' = (lost \ {"text"}) \cup kinds
          /\ UNCHANGED isSimUnlocked
  /\ UNCHANGED <<initState, pinState, poll, service, chain, acked>>

\* +CREG.  Everything but a refusal counts as connected, searching too; the first
\* time the listener is told so.
Register(connected) ==
  /\ IF connected /\ initState \in {"PIN", "CONFIG", "WAIT_CREG"}
     THEN initState' = "READY" /\ FetchTime(polls, delayedRequest)
     ELSE UNCHANGED <<initState, poll, stack>>
  /\ UNCHANGED <<isSimUnlocked, pinState, incomingSms, callingNumber, pending, booted, history>>

RegEvent(connected) ==
  /\ booted /\ modem.due = "none"
  /\ UNCHANGED modem
  /\ \/ Heard /\ Register(connected)
     \/ Missed({}, FALSE) /\ UNCHANGED callingNumber

\* +CMT and the line after it.
TextHeader ==
  /\ booted /\ modem.due = "none"
  /\ modem' = [modem EXCEPT !.due = IF Heard THEN "heard" ELSE "missed"]
  /\ \/ /\ Heard
        /\ incomingSms' = TRUE
        /\ UNCHANGED <<network, poll, callingNumber, service, history>>
     \/ Missed({}, FALSE) /\ UNCHANGED callingNumber

TextLine ==
  /\ booted /\ modem.due # "none"
  /\ modem' = [modem EXCEPT !.due = "none"]
  /\ \/ Heard /\ UNCHANGED <<network, poll, incomingSms, callingNumber, service, history>>
     \/ /\ Missed(IF pending # "none" /\ incomingSms THEN {"text"} ELSE {}, modem.due = "heard")
        /\ UNCHANGED callingNumber

\* +UCALLSTAT.  For an incoming call the number is asked for first; if that is
\* refused the listener is told at once.
NextCall(s) ==
  CASE modem.call = "DISCONNECTED" -> s = "INCOMING"
    [] modem.call = "INCOMING"     -> s \in {"ACTIVE", "DISCONNECTED"}
    [] modem.call = "ACTIVE"       -> s = "DISCONNECTED"

CallChanges(s) ==
  /\ CASE s = "INCOMING" ->
            /\ stack' = Forced("CLCC")
            /\ callingNumber' = Aged
            /\ IF HasRoom THEN UNCHANGED wrong ELSE Tells(Aged)
            /\ UNCHANGED lost
       [] s = "ACTIVE" ->
            /\ Tells(callingNumber)
            /\ UNCHANGED <<stack, callingNumber, lost>>
       [] s = "DISCONNECTED" -> Disconnects
  /\ UNCHANGED <<network, poll, incomingSms, pending, booted, chain, acked>>

CallEvent(s) ==
  /\ booted /\ modem.due = "none"
  /\ NextCall(s)
  /\ modem' = [modem EXCEPT !.call = s]
  /\ \/ Heard /\ CallChanges(s)
     \/ /\ Missed(IF s = "DISCONNECTED" /\ callingNumber # "NULL" THEN {"end"} ELSE {}, FALSE)
        /\ callingNumber' = IF s = "INCOMING" THEN Aged ELSE callingNumber

\* +UREG, +UUSTS, +UUDTMFD: told to the listener, or lost.
OtherEvent ==
  /\ booted /\ modem.due = "none"
  /\ UNCHANGED modem
  /\ Missed({}, FALSE) /\ UNCHANGED callingNumber

\* An answer that is owed comes when no command is pending.
LateAnswer ==
  /\ booted /\ modem.due = "none" /\ modem.late /\ pending = "none"
  /\ modem' = [modem EXCEPT !.late = FALSE]
  /\ \/ Heard /\ UNCHANGED <<network, poll, incomingSms, callingNumber, service, history>>
     \/ Missed({}, FALSE) /\ UNCHANGED callingNumber

-----------------------------------------------------------------------------
(* BaseGSMHandler::StartModem: Flush, and OnModemReboot of every handler.  *)

Reboots ==
  /\ initState' = "NONE" /\ pinState' = "other"
  /\ UNCHANGED isSimUnlocked
  /\ delayedRequest' = FALSE /\ polls' = IF delayedRequest THEN polls - 1 ELSE polls
  /\ stack' = <<>> /\ pending' = "none" /\ booted' = FALSE
  /\ modem' = Silent
  /\ chain' = "none" /\ acked' = {}
  /\ lost' = IF callingNumber = "NULL" THEN {} ELSE {"reboot"}
  /\ callingNumber' = IF callingNumber = "NULL" THEN "NULL" ELSE "freed"
  /\ Frees

\* Mutant: half a text survives.
StartModemKeepsText ==
  /\ Reboots
  /\ UNCHANGED incomingSms

StartModem ==
  /\ Reboots
  /\ incomingSms' = FALSE

BootCompletes ==
  /\ ~booted
  /\ booted' = TRUE
  /\ UNCHANGED <<network, poll, incomingSms, callingNumber, stack, pending, modem, history>>

-----------------------------------------------------------------------------
Answers ==
  \/ \E type \in FinalType :
       CheckAnswer(type) \/ UnlockAnswer(type) \/ SettingAnswer(type) \/ OtherAnswer(type)
  \/ \E state \in {"SIM PIN", "other"} : PinData(state)
  \/ CallData

Events ==
  \/ \E connected \in BOOLEAN : RegEvent(connected)
  \/ TextHeader \/ TextLine
  \/ \E s \in CallState : CallEvent(s)
  \/ OtherEvent \/ LateAnswer

Users == Connect \/ AddCommand \/ ForceCommand \/ StartModem

Next == Answers \/ Events \/ Users \/ LoopSend \/ OnTimerComplete \/ BootCompletes

Spec == Init /\ [][Next]_vars

-----------------------------------------------------------------------------
TypeOK ==
  /\ initState \in {"NONE", "PIN", "CONFIG", "WAIT_CREG", "READY"}
  /\ isSimUnlocked \in BOOLEAN /\ pinState \in {"SIM PIN", "other"}
  /\ delayedRequest \in BOOLEAN /\ polls \in Nat
  /\ incomingSms \in BOOLEAN
  /\ callingNumber \in {"NULL", "freed", "current", "old"}
  /\ stack \in Seq(Command) /\ Len(stack) <= OUT_MESSAGE_STACK_SIZE
  /\ pending \in Command \cup {"none"} /\ booted \in BOOLEAN
  /\ modem \in [call : CallState, due : {"none", "heard", "missed"}, late : BOOLEAN]
  /\ chain \in {"none", "going", "stopped", "done"}
  /\ acked \subseteq ChainCommand
  /\ lost \subseteq {"end", "text", "answer", "reboot"}
  /\ wrong \subseteq {"text", "number", "freed"}

\* The unlocking and the settings (GSMNetworkHandler::OnGSMResponse) are one command
\* at a time: exactly one is in the stack or on the line until the chain has ended,
\* by its last OK or an answer that ends it, and none after that.  (And every
\* variable keeps its type.)
OneChain ==
  LET waiting == {i \in DOMAIN stack : stack[i] \in ChainCommand}
      onLine == IF pending \in ChainCommand THEN 1 ELSE 0
  IN TypeOK /\ Cardinality(waiting) + onLine = IF chain = "going" THEN 1 ELSE 0

\* The handler waits for the registration only with a SIM that is unlocked and a
\* modem that has acknowledged all nine settings, unless one of their answers was
\* that to an earlier command.
Configured ==
  initState = "WAIT_CREG" =>
    isSimUnlocked /\ (acked = ChainCommand \ {"CPIN?"} \/ "answer" \in lost)

\* The handler that is ready asks for the time again and again, with one timer
\* (FetchTime, OnTimerComplete, OnTimerStop, OnModemReboot).
OnePoll == polls <= 1 /\ (initState = "READY" => polls = 1 /\ delayedRequest)

\* The listener gets the text that belongs to the sender, unless that text was taken
\* for the answer to a command (OnGSMEvent: whatever comes after +CMT is its text).
TextIsItsOwn == "text" \notin wrong

\* A call is told with its own number or with none, and the number is freed once,
\* unless the end of an earlier call was lost or the modem was started in a call:
\* OnModemReboot frees the number and keeps the pointer (GSMCallHandler::OnGSMEvent).
NumberIsCallers == wrong \cap {"number", "freed"} = {}

=============================================================================
