--------------------------------- MODULE Gprs ---------------------------------
(***************************************************************************)
(* The packet data profile: GPRSHandler.  Connect sends four settings and  *)
(* the activation, each from the answer to the one before; then a timer    *)
(* polls the profile's status until it is up, and asks for its address.    *)
(* Any error, Deactivate and the modem's +UUPSDD end in CGATT=0, whose     *)
(* final answer, whatever it is, means deactivated.                        *)
(*                                                                         *)
(* The command service below is the one of GsmNetwork.  What the modem     *)
(* sends while a command is pending is taken for data of that command.     *)
(* An answer to a command that timed out is left to GsmModem.              *)
(***************************************************************************)
EXTENDS Integers, Sequences, FiniteSets

CONSTANTS
  OUT_MESSAGE_STACK_SIZE,  (* capacity of the stack of commands             *)
  Given,                   (* which of the texts a user of Connect gives    *)
  MaxOther                 (* bound: other handlers' commands at a time     *)

Text == {"APN", "LOGIN", "PSWD"}

ASSUME GprsAssumption ==
  /\ OUT_MESSAGE_STACK_SIZE \in Nat \ {0}
  /\ Given \subseteq SUBSET Text
  /\ MaxOther \in Nat

VARIABLES
  apnState,        (* DEACTIVATED, ACTIVATING, ACTIVE, DEACTIVATING         *)
  given,           (* the texts of apn, login, password that are not NULL   *)
  checkTimer,      (* the field holds the id of a timer                     *)
  timers,          (* how many timers of this handler run                   *)
  deviceAddr,      (* none, current: of the profile as it is, or other      *)
  stack, pending,  (* commandStack; pendingCMD or "none"                    *)
  answered,        (* the pending command has had its data                  *)
  booted,          (* MODEM_BOOT_COMPLETED                                  *)
  profile,         (* the modem's: down, rising, up                         *)
  lost             (* history, since the handler was idle last: "refused" a *)
                   (* step; "silent" an OK without data, or an end of the   *)
                   (* profile that was taken for data; "crossed" two steps  *)
                   (* at a time, or an event for the data of the poll       *)

timer == <<checkTimer, timers>>
service == <<stack, pending, answered, booted>>
vars == <<apnState, given, timer, deviceAddr, service, profile, lost>>

Settings == <<"APN", "LOGIN", "PSWD", "ASSIGNED_IP">>
Setting == {Settings[i] : i \in DOMAIN Settings}
Poll == {"STATUS", "IP"}
Step == Setting \cup Poll \cup {"UPSDA", "CGATT"}
Command == Step \cup {"other"}
GSM_APN_STATE == {"DEACTIVATED", "ACTIVATING", "ACTIVE", "DEACTIVATING"}

-----------------------------------------------------------------------------
(* The command service                                                     *)

HasRoom == Len(stack) < OUT_MESSAGE_STACK_SIZE

\* ForceCommand(c); its refusal is ignored.  more: what else goes wrong in this step.
ForceCommand(c, more) ==
  /\ stack' = IF HasRoom THEN <<c>> \o stack ELSE stack
  /\ lost' = lost \cup more \cup IF HasRoom THEN {} ELSE {"refused"}

Waits(c) == pending = c \/ \E i \in DOMAIN stack : stack[i] = c

\* Steps of an activation or a deactivation that are under way.  A poll that has had
\* its data is over: the next step was begun then.
Steps ==
  LET onLine == pending \in Step /\ ~(pending = "STATUS" /\ answered)
  IN Cardinality({i \in DOMAIN stack : stack[i] \in Step}) + timers + IF onLine THEN 1 ELSE 0

\* Timer::Stop(checkTimer); checkTimer = Timer::Start(...)
CheckLater ==
  /\ timers' = (IF checkTimer THEN timers - 1 ELSE timers) + 1
  /\ checkTimer' = TRUE

-----------------------------------------------------------------------------
Init ==
  /\ apnState = "DEACTIVATED" /\ given = {}
  /\ checkTimer = FALSE /\ timers = 0
  /\ deviceAddr = "none"
  /\ stack = <<>> /\ pending = "none" /\ answered = FALSE /\ booted = FALSE
  /\ profile = "down" /\ lost = {}

FlushAuthData ==
  /\ checkTimer' = FALSE
  /\ timers' = IF checkTimer THEN timers - 1 ELSE timers
  /\ deviceAddr' = "none"

\* An attempt begins; what went wrong before matters only to what is left of it.
Attempt ==
  /\ apnState = "DEACTIVATED"
  /\ apnState' = "ACTIVATING"
  /\ stack' = IF HasRoom THEN <<"APN">> \o stack ELSE stack
  /\ lost' = (IF Steps = 0 THEN {} ELSE lost) \cup IF HasRoom THEN {} ELSE {"refused"}
  /\ UNCHANGED <<pending, answered, booted, profile>>

\* Connect(apn, login, password)
ConnectTo(texts) ==
  /\ Attempt
  /\ FlushAuthData
  /\ given' = texts

\* Connect(), with the texts of before: without an APN there is nothing to connect to.
Connect ==
  /\ "APN" \in given
  /\ Attempt
  /\ UNCHANGED <<given, timer, deviceAddr>>

Deactivate ==
  /\ apnState = "ACTIVE"
  /\ apnState' = "DEACTIVATING"
  /\ ForceCommand("CGATT", {})
  /\ UNCHANGED <<given, timer, deviceAddr, pending, answered, booted, profile>>

\* AddCommand or ForceCommand of another handler, and ResolveHostName: its listener is
\* told the outcome and nothing changes here.
OtherCommand ==
  /\ HasRoom
  /\ pending # "other"
  /\ Cardinality({i \in DOMAIN stack : stack[i] = "other"}) < MaxOther
  /\ \/ stack' = Append(stack, "other")
     \/ stack' = <<"other">> \o stack
  /\ UNCHANGED <<apnState, given, timer, deviceAddr, pending, answered, booted, profile, lost>>

LoopSend ==
  /\ booted /\ pending = "none" /\ stack # <<>>
  /\ pending' = Head(stack)
  /\ stack' = Tail(stack)
  /\ answered' = FALSE
  /\ UNCHANGED <<apnState, given, timer, deviceAddr, booted, profile, lost>>

OnTimerComplete ==
  /\ checkTimer
  /\ checkTimer' = FALSE /\ timers' = timers - 1
  /\ ForceCommand("STATUS", {})
  /\ UNCHANGED <<apnState, given, deviceAddr, pending, answered, booted, profile>>

-----------------------------------------------------------------------------
(* Answers.  "ERROR" stands for every final answer but OK: the handler     *)
(* treats ERROR, ABORTED, TIMEOUT and OVERFLOW alike.                      *)

FinalType == {"OK", "ERROR"}

Final(c) ==
  /\ pending = c
  /\ pending' = "none" /\ answered' = FALSE
  /\ UNCHANGED <<given, booted>>

\* An error of a setting or of the activation.
Fails(more) ==
  /\ apnState' = "DEACTIVATING"
  /\ ForceCommand("CGATT", more)

NextSetting(c) == Settings[(CHOOSE i \in DOMAIN Settings : Settings[i] = c) + 1]

ConfigAnswer(c, type) ==
  /\ Final(c)
  /\ \/ /\ type = "OK"
        /\ ForceCommand(IF c = "ASSIGNED_IP" THEN "UPSDA" ELSE NextSetting(c), {})
        /\ UNCHANGED apnState
     \/ type = "ERROR" /\ Fails({})
  /\ UNCHANGED <<timer, deviceAddr, profile>>

ControlAnswer(type) ==
  /\ Final("UPSDA")
  /\ \/ /\ type = "OK" /\ CheckLater
        /\ profile' = IF profile = "down" THEN "rising" ELSE profile
        /\ UNCHANGED <<apnState, stack, lost>>
     \/ type = "ERROR" /\ Fails({}) /\ UNCHANGED <<timer, profile>>
  /\ UNCHANGED deviceAddr

\* Mutant: whatever the status is, the address is asked for.
StatusSaysAny(up) ==
  /\ ForceCommand("IP", {}) /\ UNCHANGED timer

\* "+UPSND: 0,8,1" or "+UPSND: 0,8,0"
StatusSays(up) ==
  \/ up /\ ForceCommand("IP", {}) /\ UNCHANGED timer
  \/ ~up /\ CheckLater /\ UNCHANGED <<stack, lost>>

StatusData ==
  /\ pending = "STATUS" /\ ~answered
  /\ answered' = TRUE
  /\ StatusSays(profile = "up")
  /\ UNCHANGED <<apnState, given, deviceAddr, pending, booted, profile>>

\* OK alone begins nothing.  An error after the data begins a second step.
StatusAnswer(type) ==
  /\ Final("STATUS")
  /\ \/ /\ type = "OK"
        /\ lost' = lost \cup IF answered THEN {} ELSE {"silent"}
        /\ UNCHANGED timer
     \/ /\ type = "ERROR" /\ CheckLater
        /\ lost' = lost \cup IF answered THEN {"crossed"} ELSE {}
  /\ UNCHANGED <<apnState, deviceAddr, stack, profile>>

IpData ==
  /\ pending = "IP" /\ ~answered
  /\ answered' = TRUE
  /\ deviceAddr' = IF profile = "up" THEN "current" ELSE "other"
  /\ UNCHANGED <<apnState, given, timer, stack, pending, booted, profile, lost>>

\* OK means active, whatever the state was.
IpAnswer(type) ==
  /\ Final("IP")
  /\ \/ /\ type = "OK"
        /\ apnState' = "ACTIVE"
        /\ lost' = lost \cup IF answered THEN {} ELSE {"silent"}
        /\ UNCHANGED stack
     \/ type = "ERROR" /\ ForceCommand("CGATT", {}) /\ UNCHANGED apnState
  /\ UNCHANGED <<timer, deviceAddr, profile>>

\* Mutant: only OK means deactivated.
GattAnswerIfOK(type) ==
  /\ Final("CGATT")
  /\ apnState' = IF type = "OK" THEN "DEACTIVATED" ELSE apnState
  /\ profile' = IF type = "OK" THEN "down" ELSE profile
  /\ UNCHANGED <<timer, deviceAddr, stack, lost>>

GattAnswer(type) ==
  /\ Final("CGATT")
  /\ apnState' = "DEACTIVATED"
  /\ profile' = IF type = "OK" THEN "down" ELSE profile
  /\ UNCHANGED <<timer, deviceAddr, stack, lost>>

OtherAnswer ==
  /\ Final("other")
  /\ UNCHANGED <<apnState, timer, deviceAddr, stack, profile, lost>>

-----------------------------------------------------------------------------
(* The modem and its events                                                *)

\* The profile that was activated comes up; an address of before is not its own.
ComesUp ==
  /\ profile = "rising"
  /\ profile' = "up"
  /\ deviceAddr' = IF deviceAddr = "none" THEN "none" ELSE "other"
  /\ UNCHANGED <<apnState, given, timer, service, lost>>

\* +UUPSDD, heard.  The check timer goes on.
DeactivatedEvent ==
  /\ booted /\ pending = "none"
  /\ profile = "up" /\ profile' = "down"
  /\ apnState' = "DEACTIVATING"
  /\ ForceCommand("CGATT", IF Steps = 0 THEN {} ELSE {"crossed"})
  /\ UNCHANGED <<given, timer, deviceAddr, pending, answered, booted>>

\* An event while a command is pending is its data, +UUPSDD among them.  Data of a
\* poll is split at commas and its third part read: an event may have none, and the
\* part is whatever the stack of the call holds.
EventTaken ==
  /\ pending # "none"
  /\ profile' \in {profile} \cup IF profile = "up" THEN {"down"} ELSE {}
  /\ LET down == IF profile' # profile THEN {"silent"} ELSE {}
     IN CASE pending = "STATUS" ->
               /\ \/ ForceCommand("IP", {"crossed"}) /\ UNCHANGED timer
                  \/ CheckLater /\ lost' = lost \cup {"crossed"} /\ UNCHANGED stack
               /\ UNCHANGED deviceAddr
          [] pending = "IP" ->
               /\ deviceAddr' = "other"
               /\ lost' = lost \cup {"silent"}
               /\ UNCHANGED <<stack, timer>>
          [] OTHER ->
               /\ lost' = lost \cup down
               /\ UNCHANGED <<stack, timer, deviceAddr>>
  /\ UNCHANGED <<apnState, given, pending, answered, booted>>

-----------------------------------------------------------------------------
(* BaseGSMHandler::StartModem: Flush, and OnModemReboot.                   *)

Reboots ==
  /\ apnState' = "DEACTIVATED" /\ given' = {}
  /\ stack' = <<>> /\ pending' = "none" /\ answered' = FALSE /\ booted' = FALSE
  /\ profile' = "down" /\ lost' = {}

\* Mutant: the timer is not stopped.
StartModemKeepsTimer ==
  /\ Reboots
  /\ deviceAddr' = "none" /\ UNCHANGED timer

StartModem == Reboots /\ FlushAuthData

BootCompletes ==
  /\ ~booted
  /\ booted' = TRUE
  /\ UNCHANGED <<apnState, given, timer, deviceAddr, stack, pending, answered, profile, lost>>

-----------------------------------------------------------------------------
Answers ==
  \/ \E type \in FinalType :
       \/ \E c \in Setting : ConfigAnswer(c, type)
       \/ ControlAnswer(type) \/ StatusAnswer(type) \/ IpAnswer(type) \/ GattAnswer(type)
  \/ OtherAnswer

Users ==
  \/ \E texts \in Given : ConnectTo(texts)
  \/ Connect \/ Deactivate \/ OtherCommand \/ StartModem

Next ==
  \/ Answers \/ StatusData \/ IpData \/ EventTaken \/ DeactivatedEvent \/ ComesUp
  \/ Users \/ LoopSend \/ OnTimerComplete \/ BootCompletes

Spec == Init /\ [][Next]_vars

\* A modem that is started boots; the loop runs; a command gets a final answer, or
\* the timeout is one; a profile that rises comes up; a poll that is answered again
\* and again is answered with data some time, and OK after it; and a step that is
\* on top of the stack again and again is sent: other handlers do not always get there
\* first.
Fairness ==
  /\ WF_vars(BootCompletes) /\ WF_vars(LoopSend) /\ WF_vars(OnTimerComplete)
  /\ WF_vars(Answers) /\ WF_vars(ComesUp)
  /\ SF_vars(StatusData /\ profile = "up")
  /\ SF_vars(LoopSend /\ pending' \in Step)

FairSpec == Spec /\ Fairness

-----------------------------------------------------------------------------
TypeOK ==
  /\ apnState \in GSM_APN_STATE /\ given \subseteq Text
  /\ checkTimer \in BOOLEAN /\ timers \in {0, 1} /\ (timers = 1 <=> checkTimer)
  /\ deviceAddr \in {"none", "current", "other"}
  /\ stack \in Seq(Command) /\ Len(stack) <= OUT_MESSAGE_STACK_SIZE
  /\ pending \in Command \cup {"none"} /\ answered \in BOOLEAN /\ booted \in BOOLEAN
  /\ profile \in {"down", "rising", "up"}
  /\ lost \subseteq {"refused", "silent", "crossed"}

\* Activating and deactivating are one step at a time, a command or the check timer,
\* and none is left when the handler is ACTIVE or DEACTIVATED (OnGSMResponse,
\* OnTimerComplete).  What can break it: a step the full stack refused, a poll
\* answered OK without data, +UUPSDD or an error in between.  (Every variable
\* keeps its type.)
OneStep ==
  /\ TypeOK
  /\ "crossed" \notin lost =>
       IF apnState \in {"ACTIVATING", "DEACTIVATING"}
       THEN Steps = 1 \/ (Steps = 0 /\ lost # {})
       ELSE Steps = 0

\* ACTIVE: the modem's profile is up and the address the handler gives is its own
\* (IsActive, GetDeviceAddr), unless an answer had no data or an event was lost.
ActiveIsUp ==
  apnState = "ACTIVE" /\ lost = {} => profile = "up" /\ deviceAddr = "current"

\* What was begun ends.  An activation: the profile is active, or the handler has
\* given up, unless the chain was broken.  A deactivation (CGATT=0, whatever the
\* answer): unless the full stack refused it, when the handler refuses Connect and
\* Deactivate until the modem is started, or a poll is left over, which can overtake
\* it each time.
OperationsEnd ==
  /\ apnState = "ACTIVATING" ~> apnState # "ACTIVATING" \/ lost # {}
  /\ apnState = "DEACTIVATING" ~>
       apnState # "DEACTIVATING" \/ lost \cap {"refused", "crossed"} # {}

=============================================================================
