---------------------------- MODULE GsmPhoneProofs ----------------------------
(***************************************************************************)
(* What the set-up of the phone and its calls keep to, for every number of *)
(* commands the modem takes before it answers, every number of senders in  *)
(* the stack and either start of the flow.                                 *)
(***************************************************************************)
EXTENDS GsmPhone, TLAPS

-----------------------------------------------------------------------------
(* What the handlers that choose by the state do                           *)

\* Where an OK takes the flow.
OKNext == 
  [INITIALIZATION |-> {"ENABLE_CREG_EVENT"}, ENABLE_CREG_EVENT |-> {"ENABLE_UCALLSTAT_EVENT"},
   ENABLE_UCALLSTAT_EVENT |-> {"ENABLE_DTMF_EVENT"}, ENABLE_DTMF_EVENT |-> {"SIM_PIN_STATE"},
   SIM_PIN_STATE |-> {"SIM_LOGIN", "CHECK_REG_NETWORK", "LOCKED"}, SIM_LOGIN |-> {"WAIT_REG_NETWORK"},
   CHECK_REG_NETWORK |-> {"TIME_REQUEST", "CHECK_REG_NETWORK"}, SYNC_TIME |-> {"READY"},
   TIME_REQUEST |-> {"READ_PHONE_BOOK"}, READ_PHONE_BOOK |-> {"READY"}, READY |-> {"READY"},
   WAIT_REG_NETWORK |-> {"WAIT_REG_NETWORK"}, LOCKED |-> {"LOCKED"}]

\* The handler of an OK: HandleOKResponse starts the flow timer anew, or the flow ends.
LEMMA FlowOKMoves ==
  ASSUME flowState \in UbloxFlowState, FlowOK
  PROVE  /\ flowState' \in OKNext[flowState]
         /\ flowTimer' = TRUE \/ (flowTimer' = flowTimer /\ flowState' \in {"READY", "LOCKED"})
<1>1. CASE flowState = "INITIALIZATION" BY <1>1 DEF FlowOK, Goes, Stops, OKNext
<1>2. CASE flowState = "ENABLE_CREG_EVENT" BY <1>2 DEF FlowOK, Goes, Stops, OKNext
<1>3. CASE flowState = "ENABLE_UCALLSTAT_EVENT" BY <1>3 DEF FlowOK, Goes, Stops, OKNext
<1>4. CASE flowState = "ENABLE_DTMF_EVENT" BY <1>4 DEF FlowOK, Goes, Stops, OKNext
<1>5. CASE flowState = "SIM_LOGIN" BY <1>5 DEF FlowOK, Goes, Stops, OKNext
<1>6. CASE flowState = "CHECK_REG_NETWORK" BY <1>6 DEF FlowOK, Goes, Stops, OKNext
<1>7. CASE flowState = "SYNC_TIME" BY <1>7 DEF FlowOK, Goes, Stops, OKNext
<1>8. CASE flowState = "TIME_REQUEST" BY <1>8 DEF FlowOK, Goes, Stops, OKNext
<1>9. CASE flowState = "READ_PHONE_BOOK" BY <1>9 DEF FlowOK, Goes, Stops, OKNext
<1>10. CASE flowState = "READY" BY <1>10 DEF FlowOK, Goes, Stops, OKNext
<1>11. CASE flowState = "WAIT_REG_NETWORK" BY <1>11 DEF FlowOK, Goes, Stops, OKNext
<1>12. CASE flowState = "LOCKED" BY <1>12 DEF FlowOK, Goes, Stops, OKNext
<1>13. CASE flowState = "SIM_PIN_STATE"
  <2>1. Goes("SIM_LOGIN") \/ Goes("CHECK_REG_NETWORK") \/ Stops("LOCKED")
    BY <1>13 DEF FlowOK
  <2> QED
    BY <2>1, <1>13 DEF Goes, Stops, OKNext
<1> QED
  BY <1>1, <1>2, <1>3, <1>4, <1>5, <1>6, <1>7, <1>8, <1>9, <1>10, <1>11, <1>12, <1>13
  DEF UbloxFlowState, StepState, FlowCommand

\* The handler of an error and of a timeout.
LEMMA FlowErrorMoves ==
  ASSUME FlowError
  PROVE \/ flowState = "INITIALIZATION" /\ Goes(flowState)
        \/ flowState \in {"SIM_PIN_STATE", "SIM_LOGIN"} /\ Stops("LOCKED")
        \/ flowState \notin {"INITIALIZATION", "SIM_PIN_STATE", "SIM_LOGIN"} /\ Goes("READY")
  BY DEF FlowError

\* UpdateCallState.
LEMMA UpdateMoves ==
  ASSUME NEW s, NEW who, NEW stays, NEW m, UpdateCallState(s, who, stays, m)
  PROVE  /\ callState' = s
         /\ \/ s = "ALERTING" /\ callTimer' = "HANGUP" /\ NoWrite(stays, m)
            \/ s = "INCOMING" /\ callTimer' = (IF IsAuthorized(who) THEN "ANSWER" ELSE "HANGUP") /\ NoWrite(stays, m)
            \/ s = "ACTIVE" /\ who = "us" /\ callTimer' = "none" /\ Write("H", m)
            \/ s \notin {"ALERTING", "INCOMING"} /\ callTimer' = callTimer /\ NoWrite(stays, m)
  BY DEF UpdateCallState

\* OnNetworkStateUpdated, by the state of the flow.
LEMMA NetworkMoves ==
  ASSUME NEW c, OnNetworkStateUpdated(c)
  PROVE  /\ Keeps(c)
         /\ \/ flowState = "READY" /\ Goes(IF c THEN "SYNC_TIME" ELSE flowState)
            \/ flowState = "WAIT_REG_NETWORK" /\ Goes(IF c THEN "TIME_REQUEST" ELSE flowState)
            \/ flowState \notin {"READY", "WAIT_REG_NETWORK"} /\ Stops(flowState)
  BY DEF OnNetworkStateUpdated

\* The call of the modem after an answer.
LEMMA AfterIs ==
  ASSUME NEW c, NEW ok \in BOOLEAN
  PROVE  \/ ok /\ c = "A" /\ CallAfter(c, ok) = "ANSWERED"
         \/ ok /\ c = "D" /\ CallAfter(c, ok) = "DIALING"
         \/ ok /\ c = "H" /\ modem.call # "none" /\ CallAfter(c, ok) = "ENDED"
         \/ ~(ok /\ c \in {"A", "D"}) /\ (ok /\ c = "H" => modem.call = "none") /\ CallAfter(c, ok) = modem.call
  BY DEF CallAfter

\* What the modem grants only in a state.
LEMMA GrantIs ==
  ASSUME NEW c, CanGrant(c)
  PROVE  /\ c = "A" => modem.call = "INCOMING"
         /\ c = "D" => modem.call = "none"
         /\ c \in {"CPIN?", "CREG?", "CPBR", "CMGS"} => modem.mid
  BY DEF CanGrant

\* What +CLCC says of the call.
LEMMA ClccIs ==
  ASSUME modem.call \in ModemCall \ {"none", "ENDED"}
  PROVE  /\ modem.call = "INCOMING" => ClccState = "INCOMING"
         /\ modem.call = "DIALING" => ClccState = "DIALING"
         /\ modem.call = "ALERTING" => ClccState = "ALERTING"
         /\ modem.call \in {"ANSWERED", "IN", "OUT"} => ClccState = "ACTIVE"
  BY DEF ClccState, ModemCall

\* When a +UCALLSTAT can come.
LEMMA NextCallIs ==
  ASSUME NEW s \in GSMCallState, s # "DIALING", NextCall(s)
  PROVE  /\ s = "INCOMING" => modem.call = "none"
         /\ s = "ALERTING" => modem.call = "DIALING"
         /\ s = "ACTIVE" => modem.call \in {"ANSWERED", "DIALING", "ALERTING"}
         /\ s = "DISCONNECT" => modem.call # "none"
  BY DEF NextCall, GSMCallState

\* What it makes of the call.
LEMMA BecomesIs ==
  ASSUME NEW s, NEW who
  PROVE  /\ s = "DISCONNECT" => CallBecomes(s) = "none" /\ WhoBecomes(s, who) = "us"
         /\ s = "ACTIVE" => CallBecomes(s) = (IF modem.call = "ANSWERED" THEN "IN" ELSE "OUT")
                            /\ WhoBecomes(s, who) = modem.who
         /\ s = "INCOMING" => CallBecomes(s) = s /\ WhoBecomes(s, who) = who
         /\ s = "ALERTING" => CallBecomes(s) = s /\ WhoBecomes(s, who) = modem.who
  BY DEF CallBecomes, WhoBecomes
-----------------------------------------------------------------------------
(* The modem and the commands it has taken                                 *)

Who == {"friend", "stranger", "us"}
Modem == [cmds : Seq(Command), mid : BOOLEAN, call : ModemCall, who : Who, text : BOOLEAN]

\* Owes, of any stack.
Has(s, c) == \E i \in DOMAIN s : s[i] = c

\* What a stack has with one command more.
LEMMA HasAppend ==
  ASSUME NEW s \in Seq(Command), NEW d \in Command, NEW c
  PROVE  Has(Append(s, d), c) <=> Has(s, c) \/ c = d
<1>1. /\ Len(s) \in Nat /\ DOMAIN s = 1 .. Len(s)
      /\ Append(s, d) \in Seq(Command) /\ DOMAIN Append(s, d) = 1 .. Len(s) + 1
      /\ Append(s, d)[Len(s) + 1] = d /\ \A i \in 1 .. Len(s) : Append(s, d)[i] = s[i]
  OBVIOUS
<1>2. ASSUME Has(Append(s, d), c) PROVE Has(s, c) \/ c = d
  BY <1>1, <1>2 DEF Has
<1>3. ASSUME Has(s, c) \/ c = d PROVE Has(Append(s, d), c)
  <2>1. CASE c = d
    <3>1. Len(s) + 1 \in 1 .. Len(s) + 1
      BY <1>1
    <3> QED
      BY <1>1, <2>1, <3>1 DEF Has
  <2>2. CASE Has(s, c)
    BY <1>1, <2>2 DEF Has
  <2> QED
    BY <1>3, <2>1, <2>2
<1> QED
  BY <1>2, <1>3

\* The stack with one command more, and its first.
LEMMA AppendIs ==
  ASSUME NEW s \in Seq(Command), NEW d \in Command
  PROVE  /\ Append(s, d) \in Seq(Command) /\ Len(Append(s, d)) = Len(s) + 1
         /\ Append(s, d) # <<>> /\ Append(s, d) # s
         /\ s # <<>> => Head(Append(s, d)) = Head(s)
<1>1. Len(s) \in Nat /\ Append(s, d) \in Seq(Command) /\ Len(Append(s, d)) = Len(s) + 1
  OBVIOUS
<1>2. Append(s, d) # <<>> /\ Append(s, d) # s
  BY <1>1
<1>3. ASSUME s # <<>> PROVE Head(Append(s, d)) = Head(s)
  <2>1. 1 \in 1 .. Len(s)
    BY <1>1, <1>3
  <2>2. Append(s, d)[1] = s[1] /\ Head(s) = s[1] /\ Head(Append(s, d)) = Append(s, d)[1]
    BY <1>1, <2>1
  <2> QED
    BY <2>2
<1> QED
  BY <1>1, <1>2, <1>3

\* What a stack has without its first.
LEMMA HasTail ==
  ASSUME NEW s \in Seq(Command), s # <<>>, NEW c
  PROVE  /\ Has(s, c) <=> Head(s) = c \/ Has(Tail(s), c)
         /\ Tail(s) \in Seq(Command) /\ Len(Tail(s)) = Len(s) - 1 /\ Head(s) \in Command
<1>1. Len(s) \in Nat \ {0} /\ DOMAIN s = 1 .. Len(s) /\ Head(s) = s[1]
  OBVIOUS
<1>2. Tail(s) \in Seq(Command) /\ Len(Tail(s)) = Len(s) - 1 /\ DOMAIN Tail(s) = 1 .. Len(s) - 1
  OBVIOUS
<1>3. \A i \in 1 .. Len(s) - 1 : Tail(s)[i] = s[i + 1]
  OBVIOUS
<1>4. ASSUME Has(s, c) PROVE Head(s) = c \/ Has(Tail(s), c)
  <2>1. PICK i \in 1 .. Len(s) : s[i] = c
    BY <1>1, <1>4 DEF Has
  <2>2. CASE i = 1
    BY <2>1, <2>2, <1>1
  <2>3. CASE i # 1
    <3>1. i - 1 \in 1 .. Len(s) - 1 /\ Tail(s)[i - 1] = c
      BY <2>1, <2>3, <1>1, <1>3
    <3> QED
      BY <3>1, <1>2 DEF Has
  <2> QED
    BY <2>2, <2>3
<1>5. ASSUME Has(Tail(s), c) PROVE Has(s, c)
  <2>1. PICK i \in 1 .. Len(s) - 1 : Tail(s)[i] = c
    BY <1>2, <1>5 DEF Has
  <2> QED
    BY <2>1, <1>1, <1>3 DEF Has
<1>6. ASSUME Head(s) = c PROVE Has(s, c)
  BY <1>1, <1>6 DEF Has
<1> QED
  BY <1>1, <1>2, <1>4, <1>5, <1>6

\* WriteGsmSerial to a modem m: the command is the last, or m is full.
LEMMA Writes ==
  ASSUME NEW c \in Command, NEW m \in Modem, Len(m.cmds) <= MaxOwed, Write(c, m)
  PROVE  /\ modem' \in Modem /\ Len(modem'.cmds) <= MaxOwed /\ modem'.cmds # <<>>
         /\ modem'.mid = m.mid /\ modem'.call = m.call /\ modem'.who = m.who /\ modem'.text = m.text
         /\ m.cmds # <<>> => Head(modem'.cmds) = Head(m.cmds)
         /\ timeout' = TRUE /\ pending' \in BOOLEAN
         /\ \/ modem' = m /\ Len(m.cmds) = MaxOwed
            \/ /\ modem'.cmds = Append(m.cmds, c) /\ modem'.cmds # m.cmds
               /\ Len(m.cmds) < MaxOwed
               /\ \A d : Has(modem'.cmds, d) <=> Has(m.cmds, d) \/ d = c
<1>0. MaxOwed \in Nat \ {0}
  BY PhoneAssumption
<1>a. m.cmds \in Seq(Command) /\ Len(m.cmds) \in Nat
  BY DEF Modem
<1>1. timeout' = TRUE /\ pending' \in BOOLEAN
  BY DEF Write
<1>2. CASE Len(m.cmds) < MaxOwed
  <2>1. modem' = [m EXCEPT !.cmds = Append(m.cmds, c)]
    BY <1>2 DEF Write
  <2>2. /\ Append(m.cmds, c) \in Seq(Command) /\ Len(Append(m.cmds, c)) = Len(m.cmds) + 1
        /\ Append(m.cmds, c) # <<>> /\ Append(m.cmds, c) # m.cmds
        /\ m.cmds # <<>> => Head(Append(m.cmds, c)) = Head(m.cmds)
    BY <1>a, AppendIs
  <2>3. /\ modem' \in Modem /\ modem'.cmds = Append(m.cmds, c)
        /\ modem'.mid = m.mid /\ modem'.call = m.call /\ modem'.who = m.who /\ modem'.text = m.text
    BY <2>1, <2>2 DEF Modem
  <2>4. \A d : Has(modem'.cmds, d) <=> Has(m.cmds, d) \/ d = c
    BY <1>a, <2>3, HasAppend
  <2> QED
    BY <1>0, <1>a, <1>1, <1>2, <2>2, <2>3, <2>4
<1>3. CASE Len(m.cmds) = MaxOwed
  <2>1. modem' = m
    BY <1>0, <1>3 DEF Write
  <2>2. m.cmds # <<>>
    BY <1>0, <1>3, <1>a
  <2> QED
    BY <1>0, <1>a, <1>1, <1>3, <2>1, <2>2 DEF Modem
<1>4. Len(m.cmds) < MaxOwed \/ Len(m.cmds) = MaxOwed
  BY <1>0, <1>a
<1> QED
  BY <1>2, <1>3, <1>4

-----------------------------------------------------------------------------
(* The invariant                                                           *)

\* TypeOK in parts, with the whole of the modem, of which TypeOK names some fields.
FlowType ==
  /\ flowState \in UbloxFlowState /\ flowTimer \in BOOLEAN /\ registered \in BOOLEAN
  /\ book \in BOOLEAN /\ simPinState \in {"UNKNOWN", "READY", "PIN", "ERROR"} /\ acked \subseteq Needed
SmsType ==
  /\ smsState \in GSMSMSState /\ smsSender \in BOOLEAN
  /\ callHangupStack \in 0 .. SMS_CALL_HANGUP_SIZE
CallType ==
  /\ callState \in GSMCallState /\ callTimer \in {"none", "DIAL", "HANGUP", "ANSWER"}
ResponseType == response \in {<<>>} \cup (GSMCallState \X Who)
LineType == pending \in BOOLEAN /\ timeout \in BOOLEAN
LostType == lost \subseteq {"step", "answer", "call"}
Holds(m) == m \in Modem /\ Len(m.cmds) <= MaxOwed /\ (m.mid => m.cmds # <<>>)
ModemType == Holds(modem)

Types == FlowType /\ SmsType /\ CallType /\ ResponseType /\ LineType /\ LostType /\ ModemType

\* The parts make TypeOK.
LEMMA TypesAreTypeOK ==
  ASSUME Types
  PROVE  TypeOK
<1>1. flowState \in UbloxFlowState /\ flowTimer \in BOOLEAN /\ registered \in BOOLEAN
  BY DEF Types, FlowType
<1>2. book \in BOOLEAN /\ simPinState \in {"UNKNOWN", "READY", "PIN", "ERROR"} /\ acked \subseteq Needed
  BY DEF Types, FlowType
<1>3. SmsType /\ CallType /\ ResponseType /\ LineType /\ LostType
  BY DEF Types
<1>4. modem.cmds \in Seq(Command) /\ Len(modem.cmds) <= MaxOwed
  BY DEF Types, ModemType, Holds, Modem
<1>5. modem.call \in ModemCall /\ modem.who \in {"friend", "stranger", "us"}
  BY DEF Types, ModemType, Holds, Modem, Who
<1> QED
  BY <1>1, <1>2, <1>3, <1>4, <1>5
  DEF TypeOK, SmsType, CallType, ResponseType, LineType, LostType, Who

\* The steps behind the flow.
Done ==
  LET a == {"INITIALIZATION"}
      b == a \cup {"ENABLE_CREG_EVENT"}
      c == b \cup {"ENABLE_UCALLSTAT_EVENT"}
      d == c \cup {"ENABLE_DTMF_EVENT"}
      e == d \cup {"SIM_PIN_STATE"}
      f == e \cup {"TIME_REQUEST"}
  IN [INITIALIZATION |-> {}, ENABLE_CREG_EVENT |-> a, ENABLE_UCALLSTAT_EVENT |-> b, ENABLE_DTMF_EVENT |-> c,
      SIM_PIN_STATE |-> d, SIM_LOGIN |-> e, WAIT_REG_NETWORK |-> e, CHECK_REG_NETWORK |-> e, TIME_REQUEST |-> e,
      READ_PHONE_BOOK |-> f, READY |-> Needed, SYNC_TIME |-> Needed, LOCKED |-> {}]

\* The phone book was not asked for.
NoBookYet ==
  flowState \notin {"READ_PHONE_BOOK", "READY", "SYNC_TIME"} \/ (flowState = "READ_PHONE_BOOK" /\ flowTimer)
\* Its lines came and its OK did not.
ReadsBook == modem.mid /\ Head(modem.cmds) = "CPBR"

\* Every step behind the flow was acknowledged, and the phone book is read when its step is over.
FlowOnItsWay ==
  /\ Done[flowState] \subseteq acked
  /\ NoBookYet => ~book /\ ~Has(modem.cmds, "CPBR")
  /\ flowState = "READ_PHONE_BOOK" /\ ReadsBook => book
  /\ flowState \in {"READY", "SYNC_TIME"} => book
  /\ smsState = "SEND_BEGIN" => book
FlowInv == "step" \in lost \/ FlowOnItsWay

\* The timer runs, or the modem has something to answer.
GoesInv == flowState \in StepState => flowTimer \/ modem.cmds # <<>> \/ "answer" \in lost

\* The call of the handler is the one of the modem.
CallOfModem ==
  /\ response # <<>> =>
       /\ modem.mid /\ Head(modem.cmds) = "CLCC" /\ modem.call \notin {"none", "ENDED"}
       /\ response = <<ClccState, modem.who>>
  /\ callState = "ALERTING" =>
       /\ modem.call \in {"ALERTING", "OUT", "ENDED"}
       /\ callTimer = "HANGUP" \/ Has(modem.cmds, "H") \/ modem.call = "ENDED"
  /\ callTimer = "ANSWER" => modem.who = "friend" /\ modem.call # "none"
CallInv == "call" \in lost \/ CallOfModem

\* The inductive invariant.
IInv == Types /\ FlowInv /\ GoesInv /\ CallInv

\* Nothing of a call is left.
CallOver == modem.call = "none" /\ callState = "DISCONNECT" /\ callTimer = "none" /\ response = <<>>

\* What the histories say after a step that loses more.
Loses(more) ==
  /\ "step" \in lost \cup more => "step" \in lost'
  /\ flowState' \in StepState /\ "answer" \in lost \cup more => flowTimer' = TRUE \/ "answer" \in lost'
  /\ "call" \in lost \cup more => "call" \in lost' \/ CallOver'
  /\ lost' \subseteq lost \cup more

\* Lost in these words.
LEMMA LostIs ==
  ASSUME NEW more, Lost(more)
  PROVE  Loses(more)
<1> DEFINE A == IF flowTimer' \/ flowState' \notin StepState THEN {"answer"} ELSE {}
           C == IF modem'.call = "none" /\ callState' = "DISCONNECT" /\ callTimer' = "none" /\ response' = <<>>
                THEN {"call"} ELSE {}
<1>1. lost' = (lost \cup more) \ (A \cup C)
  BY DEF Lost
<1>2. "step" \notin A \cup C
  OBVIOUS
<1> QED
  BY <1>1, <1>2 DEF CallOver, Loses

\* A step that leaves the history alone.
LEMMA NothingLost ==
  ASSUME lost' = lost
  PROVE  Loses({})
  BY DEF Loses

\* A step keeps CallInv when it keeps the call of a history that is whole.
LEMMA CallStep ==
  ASSUME CallInv, NEW more, Loses(more), "call" \notin lost \cup more /\ CallOfModem => CallOfModem'
  PROVE  CallInv'
<1>1. "call" \in lost \cup more => "call" \in lost' \/ CallOver'
  BY DEF Loses
<1>2. CASE CallOver'
  BY <1>2 DEF CallOver, CallInv, CallOfModem
<1> QED
  BY <1>1, <1>2 DEF CallInv

\* A step keeps FlowInv when it keeps the flow of a history that is whole.
LEMMA FlowStep ==
  ASSUME FlowInv, NEW more, Loses(more), "step" \notin lost \cup more /\ FlowOnItsWay => FlowOnItsWay'
  PROVE  FlowInv'
  BY DEF Loses, FlowInv

\* A step keeps GoesInv when the flow is where it was and the modem has what it had.
LEMMA GoesStep ==
  ASSUME GoesInv, NEW more, Loses(more), FlowType',
         flowState' \in StepState =>
            flowTimer' \/ modem'.cmds # <<>> \/ "answer" \in more
            \/ (flowState' = flowState /\ flowTimer' = flowTimer /\ (modem.cmds # <<>> => modem'.cmds # <<>>))
  PROVE  GoesInv'
  BY DEF Loses, GoesInv, FlowType

-----------------------------------------------------------------------------
(* Steps that leave the flow, or the call, alone                           *)

\* The line after a step that found the modem m: nothing it owed is forgotten.
LineFrom(m) ==
  /\ LineType' /\ ModemType'
  /\ modem'.mid = m.mid /\ modem'.call = m.call /\ modem'.who = m.who
  /\ m.cmds # <<>> => modem'.cmds # <<>> /\ Head(modem'.cmds) = Head(m.cmds)
  /\ \A d : Has(m.cmds, d) => Has(modem'.cmds, d)

\* WriteGsmSerial leaves such a line.
LEMMA WriteLine ==
  ASSUME NEW c \in Command, NEW m, Holds(m), Write(c, m)
  PROVE  /\ LineFrom(m) /\ modem'.cmds # <<>>
         /\ m.cmds = modem.cmds => Ignored \/ Has(modem'.cmds, c)
         /\ \A d : Has(modem'.cmds, d) => Has(m.cmds, d) \/ d = c
<1>1. m \in Modem /\ Len(m.cmds) <= MaxOwed /\ (m.mid => m.cmds # <<>>)
  BY DEF Holds
<1>2. /\ modem' \in Modem /\ Len(modem'.cmds) <= MaxOwed /\ modem'.cmds # <<>>
      /\ modem'.mid = m.mid /\ modem'.call = m.call /\ modem'.who = m.who
      /\ m.cmds # <<>> => Head(modem'.cmds) = Head(m.cmds)
      /\ timeout' = TRUE /\ pending' \in BOOLEAN
  BY <1>1, Writes
<1>3. \/ modem' = m /\ Len(m.cmds) = MaxOwed
      \/ \A d : Has(modem'.cmds, d) <=> Has(m.cmds, d) \/ d = c
  BY <1>1, Writes
<1>4. LineType' /\ ModemType'
  BY <1>2 DEF LineType, ModemType, Holds
<1>5. LineFrom(m)
  BY <1>2, <1>3, <1>4 DEF LineFrom
<1>6. modem' = m /\ Len(m.cmds) = MaxOwed /\ m.cmds = modem.cmds => Ignored
  BY <1>2 DEF Ignored
<1>7. CASE modem' = m /\ Len(m.cmds) = MaxOwed
  BY <1>2, <1>5, <1>6, <1>7
<1>8. CASE \A d : Has(modem'.cmds, d) <=> Has(m.cmds, d) \/ d = c
  BY <1>2, <1>5, <1>8
<1> QED
  BY <1>3, <1>7, <1>8

\* A handler that writes nothing too.
LEMMA NoWriteLine ==
  ASSUME NEW stays \in BOOLEAN, NEW m, Holds(m), NoWrite(stays, m)
  PROVE  LineFrom(m) /\ modem' = m
  BY DEF LineFrom, NoWrite, Holds, ModemType, LineType

\* The call is the one of the modem while neither changes.
LEMMA CallLine ==
  ASSUME CallOfModem, NEW m, LineFrom(m), ModemType,
         m.mid = modem.mid, m.call = modem.call, m.who = modem.who, m.cmds = modem.cmds,
         callState' = callState, callTimer' = callTimer, response' = response
  PROVE  CallOfModem'
<1>1. modem'.mid = modem.mid /\ modem'.call = modem.call /\ modem'.who = modem.who
  BY DEF LineFrom
<1>2. modem.mid => Head(modem'.cmds) = Head(modem.cmds)
  BY DEF LineFrom, ModemType, Holds
<1>3. Has(modem.cmds, "H") => Has(modem'.cmds, "H")
  BY DEF LineFrom
<1>4. ClccState' = ClccState
  BY <1>1 DEF ClccState
<1> QED
  BY <1>1, <1>2, <1>3, <1>4 DEF CallOfModem

\* The flow is on its way while it does not move and no phone book is asked for.
LEMMA FlowLine ==
  ASSUME FlowOnItsWay, ModemType,
         flowState' = flowState, flowTimer' = flowTimer, book' = book, acked' = acked,
         smsState' = "SEND_BEGIN" => smsState = "SEND_BEGIN" \/ book,
         Has(modem'.cmds, "CPBR") => Has(modem.cmds, "CPBR"),
         ReadsBook' => ReadsBook
  PROVE  FlowOnItsWay'
  BY DEF FlowOnItsWay, NoBookYet

\* A line that is taken for the prompt: a text is only sent once the phone book is read.
LEMMA SwallowsAll ==
  ASSUME IInv, NEW m, Holds(m), NEW more \in SUBSET {"step", "answer", "call"}, Swallows(m, more),
         m.cmds # <<>> \/ modem.cmds = <<>> \/ flowState \notin StepState \/ "answer" \in more,
         "call" \notin lost \cup more /\ CallOfModem => CallOfModem'
  PROVE  IInv'
<1>1. /\ smsState = "SEND_BEGIN" /\ smsState' = "SEND_FLOW"
      /\ pending' = FALSE /\ timeout' = TRUE /\ modem' = m
      /\ UNCHANGED <<flow, smsSender, callHangupStack, call, response>>
      /\ Lost(more)
  BY DEF Swallows
<1>2. FlowType' /\ SmsType' /\ CallType' /\ ResponseType'
  BY <1>1 DEF IInv, Types, FlowType, SmsType, CallType, ResponseType, flow, call, GSMSMSState
<1>3. LostType' /\ LineType' /\ ModemType'
  BY <1>1, LostIs DEF Loses, IInv, Types, LostType, LineType, ModemType
<1>4. FlowInv'
  <2>1. "step" \notin lost \cup more /\ FlowOnItsWay => FlowOnItsWay'
    BY <1>1 DEF FlowOnItsWay, NoBookYet, ReadsBook, flow
  <2> QED
    BY <1>1, <2>1, FlowStep, LostIs DEF IInv
<1>5. GoesInv'
  BY <1>1, <1>2, GoesStep, LostIs DEF IInv, flow
<1>6. CallInv'
  BY <1>1, CallStep, LostIs DEF IInv
<1> QED
  BY <1>2, <1>3, <1>4, <1>5, <1>6 DEF IInv, Types

\* The modem after an answer.
LEMMA AnsweredIs ==
  ASSUME ModemType, modem.cmds # <<>>, NEW ok \in BOOLEAN
  PROVE  /\ Holds(Answered(ok))
         /\ Answered(ok).cmds = Tail(modem.cmds) /\ Answered(ok).mid = FALSE
         /\ Answered(ok).who = modem.who /\ Answered(ok).call = CallAfter(Head(modem.cmds), ok)
         /\ Head(modem.cmds) \in Command
         /\ \A c : Has(modem.cmds, c) <=> Head(modem.cmds) = c \/ Has(Tail(modem.cmds), c)
<1>1. modem \in Modem /\ Len(modem.cmds) <= MaxOwed /\ modem.cmds \in Seq(Command)
  BY DEF ModemType, Holds, Modem
<1>2. /\ Tail(modem.cmds) \in Seq(Command) /\ Len(Tail(modem.cmds)) = Len(modem.cmds) - 1
      /\ Head(modem.cmds) \in Command
      /\ \A c : Has(modem.cmds, c) <=> Head(modem.cmds) = c \/ Has(Tail(modem.cmds), c)
  BY <1>1, HasTail
<1>3. CallAfter(Head(modem.cmds), ok) \in ModemCall
  <2>1. modem.call \in ModemCall
    BY <1>1 DEF Modem
  <2> QED
    BY <2>1, AfterIs DEF ModemCall
<1>4. Len(Tail(modem.cmds)) <= MaxOwed
  BY <1>1, <1>2, PhoneAssumption
<1> DEFINE m == Answered(ok)
<1>5. m = [modem EXCEPT !.cmds = Tail(modem.cmds), !.mid = FALSE, !.call = CallAfter(Head(modem.cmds), ok)]
  BY DEF Answered
<1>6. m \in Modem /\ m.cmds = Tail(modem.cmds) /\ m.mid = FALSE /\ m.who = modem.who
      /\ m.call = CallAfter(Head(modem.cmds), ok)
  BY <1>1, <1>2, <1>3, <1>5 DEF Modem
<1> QED
  BY <1>2, <1>4, <1>6 DEF Holds

\* An answer that touches no call of the handler leaves it the one of the modem.
LEMMA AnsweredCall ==
  ASSUME ModemType, modem.cmds # <<>>, NEW ok \in BOOLEAN,
         IF ok THEN CanGrant(Head(modem.cmds)) ELSE Head(modem.cmds) # "H",
         CallOfModem, response = <<>>, modem' = Answered(ok),
         callState' = callState, callTimer' = callTimer, response' = response
  PROVE  CallOfModem'
<1> DEFINE c == Head(modem.cmds)
<1>1. modem'.who = modem.who /\ modem'.call = CallAfter(c, ok)
      /\ (Has(modem.cmds, "H") => c = "H" \/ Has(modem'.cmds, "H"))
  BY AnsweredIs
<1>2. ok => (c = "A" => modem.call = "INCOMING") /\ (c = "D" => modem.call = "none")
  BY GrantIs
<1>3. \/ ok /\ c = "A" /\ modem'.call = "ANSWERED"
      \/ ok /\ c = "D" /\ modem'.call = "DIALING"
      \/ ok /\ c = "H" /\ modem.call # "none" /\ modem'.call = "ENDED"
      \/ ~(ok /\ c \in {"A", "D"}) /\ (ok /\ c = "H" => modem.call = "none") /\ modem'.call = modem.call
  BY <1>1, AfterIs
<1> QED
  BY <1>1, <1>2, <1>3 DEF CallOfModem

-----------------------------------------------------------------------------
(* The answers                                                             *)

\* What a step can lose.
Labels == {"step", "answer", "call"}

\* An OK: to the step it was written for, or "step" is lost.
LEMMA OKAnswered ==
  ASSUME IInv, ModemOK
  PROVE  IInv'
<1> DEFINE c == Head(modem.cmds)
           other == flowState \in Setup /\ c # FlowCommand[flowState]
           m == Answered(TRUE)
           more == (IF other THEN {"step"} ELSE {})
                   \cup (IF response' # <<>> THEN {"call"} ELSE {})
                   \cup (IF response # response' /\ (modem.call = "none" \/ "call" \in lost) THEN {"call"} ELSE {})
<1>0. ModemType /\ FlowType /\ SmsType /\ CallType /\ ResponseType /\ LostType /\ FlowInv /\ GoesInv /\ CallInv
  BY DEF IInv, Types
<1>1. modem.cmds # <<>> /\ CanGrant(c)
  BY DEF ModemOK
<1>2. Holds(m) /\ m.cmds = Tail(modem.cmds) /\ m.mid = FALSE /\ m.who = modem.who /\ m.call = CallAfter(c, TRUE)
      /\ \A d : Has(modem.cmds, d) <=> c = d \/ Has(Tail(modem.cmds), d)
  BY <1>0, <1>1, AnsweredIs
<1>3. CASE Swallows(m, AnswerLost)
  <2>1. AnswerLost \in SUBSET {"step", "answer", "call"} /\ (flowState \in StepState => "answer" \in AnswerLost)
        /\ (response # <<>> => "call" \in AnswerLost)
    BY DEF AnswerLost
  <2>2. modem' = m /\ callState' = callState /\ callTimer' = callTimer /\ response' = response
    BY <1>3 DEF Swallows, call
  <2>3. "call" \notin lost \cup AnswerLost /\ CallOfModem => CallOfModem'
    BY <1>0, <1>1, <2>1, <2>2, AnsweredCall
  <2> QED
    BY <1>2, <1>3, <2>1, <2>3, SwallowsAll
<1>4. CASE /\ Heard
           /\ FlowOK
           /\ simPinState' = IF flowState = "SIM_PIN_STATE" THEN "UNKNOWN" ELSE simPinState
           /\ acked' = IF other \/ "step" \in lost THEN {} ELSE acked \cup ({flowState} \cap Needed)
           /\ IF flowState = "READY" /\ response # <<>>
              THEN UpdateCallState(response[1], response[2], FALSE, m) /\ response' = <<>>
              ELSE NoWrite(FALSE, m) /\ UNCHANGED <<call, response>>
           /\ Keeps(registered)
           /\ UNCHANGED <<book, sms>>
           /\ Lost(more)
  <2> HIDE DEF m, more
  <2>0. more \subseteq Labels /\ (other => "step" \in more)
        /\ (response' # <<>> => "call" \in more)
        /\ (response # response' /\ (modem.call = "none" \/ "call" \in lost) => "call" \in more)
    BY DEF more, Labels
  <2>1. /\ flowState' \in OKNext[flowState]
        /\ flowTimer' = TRUE \/ (flowTimer' = flowTimer /\ flowState' \in {"READY", "LOCKED"})
    BY <1>0, <1>4, FlowOKMoves DEF FlowType
  <2>2. FlowType'
    <3>0. flowState' \in UbloxFlowState
      BY <1>0, <2>1 DEF FlowType, OKNext, UbloxFlowState, StepState, FlowCommand
    <3>1. flowTimer' \in BOOLEAN
      BY <1>0, <2>1 DEF FlowType
    <3>2. registered' \in BOOLEAN
      BY <1>4 DEF Keeps
    <3>3. book' \in BOOLEAN /\ simPinState' \in {"UNKNOWN", "READY", "PIN", "ERROR"} /\ acked' \subseteq Needed
      BY <1>0, <1>4 DEF FlowType
    <3> QED
      BY <3>0, <3>1, <3>2, <3>3 DEF FlowType
  <2>3. SmsType' /\ LostType' /\ smsState' = smsState /\ Heard
    BY <1>0, <1>4, <2>0, LostIs DEF Loses, SmsType, LostType, sms, Labels
  <2>6. /\ LineFrom(m) /\ \A d : Has(modem'.cmds, d) => Has(m.cmds, d) \/ d = "H"
        /\ CallType' /\ ResponseType'
        /\ "call" \notin lost \cup more /\ CallOfModem => CallOfModem'
    <3>1. CASE flowState = "READY" /\ response # <<>>
      <4> DEFINE r1 == response[1] r2 == response[2]
      <4>1. UpdateCallState(r1, r2, FALSE, m) /\ response' = <<>>
        BY <1>4, <3>1
      <4>2. r1 \in GSMCallState
        BY <1>0, <3>1 DEF ResponseType
      <4> HIDE DEF r1, r2
      <4>3. /\ callState' = r1
            /\ \/ r1 = "ALERTING" /\ callTimer' = "HANGUP" /\ NoWrite(FALSE, m)
               \/ r1 = "INCOMING" /\ callTimer' = (IF IsAuthorized(r2) THEN "ANSWER" ELSE "HANGUP") /\ NoWrite(FALSE, m)
               \/ r1 = "ACTIVE" /\ r2 = "us" /\ callTimer' = "none" /\ Write("H", m)
               \/ r1 \notin {"ALERTING", "INCOMING"} /\ callTimer' = callTimer /\ NoWrite(FALSE, m)
        BY <4>1, UpdateMoves
      <4>4. LineFrom(m) /\ \A d : Has(modem'.cmds, d) => Has(m.cmds, d) \/ d = "H"
        BY <1>2, <4>3, WriteLine, NoWriteLine DEF Command
      <4>5. CallType' /\ ResponseType'
        BY <1>0, <4>1, <4>2, <4>3 DEF CallType, ResponseType
      <4>6. ASSUME "call" \notin lost, "call" \notin more, CallOfModem PROVE CallOfModem'
        <5>1. /\ c = "CLCC" /\ modem.call \notin {"none", "ENDED"}
              /\ r1 = ClccState /\ r2 = modem.who
          BY <3>1, <4>6 DEF CallOfModem, r1, r2
        <5>2. modem'.call = modem.call /\ modem'.who = modem.who
          BY <1>2, <4>4, <5>1, AfterIs DEF LineFrom
        <5>3. /\ modem.call = "INCOMING" <=> r1 = "INCOMING"
              /\ modem.call = "ALERTING" <=> r1 = "ALERTING"
          <6>1. modem.call \in ModemCall \ {"none", "ENDED"}
            BY <1>0, <5>1 DEF ModemType, Holds, Modem
          <6> QED
            BY <5>1, <6>1, ClccIs DEF ModemCall
        <5> QED
          BY <4>1, <4>3, <4>6, <5>1, <5>2, <5>3 DEF CallOfModem, IsAuthorized
      <4> QED
        BY <4>4, <4>5, <4>6
    <3>2. CASE ~(flowState = "READY" /\ response # <<>>)
      <4>1. NoWrite(FALSE, m) /\ callState' = callState /\ callTimer' = callTimer /\ response' = response
        BY <1>4, <3>2 DEF call
      <4>2. LineFrom(m) /\ modem' = m
        BY <1>2, <4>1, NoWriteLine
      <4>3. CallType' /\ ResponseType'
        BY <1>0, <4>1 DEF CallType, ResponseType
      <4>4. ASSUME "call" \notin lost, "call" \notin more, CallOfModem PROVE CallOfModem'
        BY <1>0, <1>1, <2>0, <4>1, <4>2, <4>4, AnsweredCall DEF m
      <4> QED
        BY <4>2, <4>3, <4>4
    <3> QED
      BY <3>1, <3>2
  <2>7. LineType' /\ ModemType'
    BY <2>6 DEF LineFrom
  <2>8. FlowInv'
    <3>1. ASSUME "step" \notin lost, "step" \notin more, FlowOnItsWay PROVE FlowOnItsWay'
      <4>1. ~other /\ acked' = acked \cup ({flowState} \cap Needed) /\ book' = book
        BY <1>4, <2>0, <3>1
      <4>2. Done[flowState'] \subseteq acked'
        BY <1>0, <2>1, <3>1, <4>1
        DEF FlowOnItsWay, FlowType, OKNext, Done, Needed, Setup, UbloxFlowState, StepState, FlowCommand
      <4>3. flowState = "READ_PHONE_BOOK" => book
        <5>1. flowState = "READ_PHONE_BOOK" => c = "CPBR"
          BY <4>1 DEF Setup, StepState, FlowCommand
        <5> QED
          BY <1>1, <3>1, <5>1, GrantIs DEF FlowOnItsWay, ReadsBook
      <4>4. flowState' \in {"READY", "SYNC_TIME"} => book'
        BY <1>0, <2>1, <3>1, <4>1, <4>3
        DEF FlowOnItsWay, FlowType, OKNext, UbloxFlowState, StepState, FlowCommand
      <4>5. NoBookYet' => NoBookYet
        BY <1>0, <2>1
        DEF NoBookYet, FlowType, OKNext, UbloxFlowState, StepState, FlowCommand
      <4>6. Has(modem'.cmds, "CPBR") => Has(modem.cmds, "CPBR")
        BY <1>2, <2>6
      <4>7. modem'.mid = FALSE
        BY <1>2, <2>6 DEF LineFrom
      <4> QED
        BY <2>3, <3>1, <4>1, <4>2, <4>4, <4>5, <4>6, <4>7 DEF FlowOnItsWay, ReadsBook
    <3> QED
      BY <1>0, <1>4, <3>1, FlowStep, LostIs
  <2>9. GoesInv'
    <3>1. flowState' \in StepState => flowTimer'
      BY <2>1 DEF StepState, FlowCommand
    <3> QED
      BY <1>0, <1>4, <2>2, <3>1, GoesStep, LostIs
  <2>10. CallInv'
    BY <1>0, <1>4, <2>6, CallStep, LostIs
  <2> QED
    BY <2>2, <2>3, <2>6, <2>7, <2>8, <2>9, <2>10 DEF IInv, Types
<1> QED
  BY <1>1, <1>3, <1>4 DEF ModemOK

\* An error and a timeout, which move the flow alike.
LEMMA ErrorTaken ==
  ASSUME IInv, FlowError, Keeps(registered), UNCHANGED <<simPinState, book, sms, call, response>>,
         acked' = IF flowState \in {"READY", "SYNC_TIME"} THEN acked ELSE {},
         NEW m, LineFrom(m),
         NEW more \in SUBSET Labels, flowState \notin {"READY", "SYNC_TIME"} => "step" \in more,
         Lost(more),
         "call" \notin lost \cup more /\ CallOfModem => CallOfModem'
  PROVE  IInv'
<1>0. FlowType /\ SmsType /\ CallType /\ ResponseType /\ LostType /\ FlowInv /\ GoesInv /\ CallInv
  BY DEF IInv, Types
<1>1. \/ flowState = "INITIALIZATION" /\ flowState' = "INITIALIZATION" /\ flowTimer' = TRUE
      \/ flowState \in {"SIM_PIN_STATE", "SIM_LOGIN"} /\ flowState' = "LOCKED" /\ flowTimer' = flowTimer
      \/ flowState' = "READY" /\ flowTimer' = TRUE
  BY FlowErrorMoves DEF Goes, Stops
<1>2. FlowType'
  <2>1. flowState' \in UbloxFlowState
    BY <1>1 DEF UbloxFlowState, StepState, FlowCommand
  <2>2. flowTimer' \in BOOLEAN
    BY <1>0, <1>1 DEF FlowType
  <2>3. registered' \in BOOLEAN
    BY DEF Keeps
  <2>4. book' \in BOOLEAN /\ simPinState' \in {"UNKNOWN", "READY", "PIN", "ERROR"} /\ acked' \subseteq Needed
    BY <1>0 DEF FlowType
  <2> QED
    BY <2>1, <2>2, <2>3, <2>4 DEF FlowType
<1>3. SmsType' /\ CallType' /\ ResponseType' /\ smsState' = smsState
  BY <1>0 DEF SmsType, CallType, ResponseType, sms, call
<1>4. LostType' /\ LineType' /\ ModemType'
  BY <1>0, LostIs DEF Loses, LostType, LineFrom, Labels
<1>5. FlowInv'
  <2>1. ASSUME "step" \notin lost, "step" \notin more, FlowOnItsWay PROVE FlowOnItsWay'
    <3>1. flowState \in {"READY", "SYNC_TIME"} /\ flowState' = "READY" /\ acked' = acked /\ book
      BY <1>1, <2>1 DEF FlowOnItsWay
    <3>2. Done["READY"] = Needed /\ Done["SYNC_TIME"] = Needed
      BY DEF Done
    <3> QED
      BY <1>3, <2>1, <3>1, <3>2 DEF FlowOnItsWay, NoBookYet, ReadsBook
  <2> QED
    BY <1>0, <2>1, FlowStep, LostIs
<1>6. GoesInv'
  <2>1. flowState' \in StepState => flowTimer'
    BY <1>1 DEF StepState, FlowCommand
  <2> QED
    BY <1>0, <1>2, <2>1, GoesStep, LostIs
<1>7. CallInv'
  BY <1>0, CallStep, LostIs
<1> QED
  BY <1>2, <1>3, <1>4, <1>5, <1>6, <1>7 DEF IInv, Types

\* An error that the modem answers.
LEMMA ErrorAnswered ==
  ASSUME IInv, ModemError
  PROVE  IInv'
<1> DEFINE c == Head(modem.cmds)
           m == Answered(FALSE)
           more == (IF flowState \in {"READY", "SYNC_TIME"} THEN {} ELSE {"step"})
                   \cup (IF c \in {"D", "A"} THEN {"call"} ELSE {})
                   \cup (IF response # <<>> THEN {"call"} ELSE {})
<1>0. ModemType
  BY DEF IInv, Types
<1>1. modem.cmds # <<>> /\ c # "H"
  BY DEF ModemError
<1>2. Holds(m)
  BY <1>0, <1>1, AnsweredIs
<1>3. ASSUME NEW label, response # <<>> => "call" \in label, modem' = m,
             callState' = callState, callTimer' = callTimer, response' = response
      PROVE  "call" \notin lost \cup label /\ CallOfModem => CallOfModem'
  BY <1>0, <1>1, <1>3, AnsweredCall
<1>4. CASE Swallows(m, AnswerLost)
  <2>1. AnswerLost \in SUBSET {"step", "answer", "call"} /\ (flowState \in StepState => "answer" \in AnswerLost)
        /\ (response # <<>> => "call" \in AnswerLost)
    BY DEF AnswerLost
  <2>2. modem' = m /\ callState' = callState /\ callTimer' = callTimer /\ response' = response
    BY <1>4 DEF Swallows, call
  <2> QED
    BY <1>2, <1>3, <1>4, <2>1, <2>2, SwallowsAll
<1>5. CASE /\ Heard
           /\ NoWrite(FALSE, m)
           /\ FlowError
           /\ acked' = IF flowState \in {"READY", "SYNC_TIME"} THEN acked ELSE {}
           /\ Keeps(registered)
           /\ UNCHANGED <<simPinState, book, sms, call, response>>
           /\ Lost(more)
  <2>1. LineFrom(m) /\ modem' = m
    BY <1>2, <1>5, NoWriteLine
  <2>2. /\ more \in SUBSET Labels /\ (flowState \notin {"READY", "SYNC_TIME"} => "step" \in more)
        /\ (response # <<>> => "call" \in more)
    BY DEF Labels
  <2>3. callState' = callState /\ callTimer' = callTimer /\ response' = response
    BY <1>5 DEF call
  <2> HIDE DEF m, more
  <2> QED
    BY <1>3, <1>5, <2>1, <2>2, <2>3, ErrorTaken
<1> QED
  BY <1>1, <1>4, <1>5 DEF ModemError

\* A timeout.
LEMMA TimedOut ==
  ASSUME IInv, OnTimeout
  PROVE  IInv'
<1> DEFINE more == IF flowState \in {"READY", "SYNC_TIME"} THEN {} ELSE {"step"}
<1>0. ModemType /\ Holds(modem)
  BY DEF IInv, Types, ModemType
<1>1. LineFrom(modem) /\ modem' = modem
  BY <1>0, NoWriteLine DEF OnTimeout
<1>2. more \in SUBSET Labels /\ (flowState \notin {"READY", "SYNC_TIME"} => "step" \in more)
  BY DEF Labels
<1>3. /\ FlowError /\ Keeps(registered) /\ UNCHANGED <<simPinState, book, sms, call, response>>
      /\ acked' = IF flowState \in {"READY", "SYNC_TIME"} THEN acked ELSE {}
      /\ Lost(more)
  BY DEF OnTimeout, sms, call
<1>4. CallOfModem => CallOfModem'
  BY <1>0, <1>1, <1>3, CallLine DEF call
<1> HIDE DEF more
<1> QED
  BY <1>1, <1>2, <1>3, <1>4, ErrorTaken

\* A step that leaves the flow alone.
LEMMA FlowUntouched ==
  ASSUME IInv, UNCHANGED flow, NEW m, Holds(m), LineFrom(m), m.cmds = modem.cmds,
         Has(modem'.cmds, "CPBR") => Has(modem.cmds, "CPBR"),
         m.mid => modem.mid \/ Head(modem.cmds) # "CPBR",
         SmsType', CallType', ResponseType', smsState' = "SEND_BEGIN" => smsState = "SEND_BEGIN" \/ book,
         NEW more \in SUBSET Labels, Loses(more),
         "call" \notin lost \cup more /\ CallOfModem => CallOfModem'
  PROVE  IInv'
<1>0. FlowType /\ LostType /\ ModemType /\ FlowInv /\ GoesInv /\ CallInv
  BY DEF IInv, Types
<1>1. FlowType' /\ LineType' /\ ModemType' /\ LostType'
  BY <1>0 DEF FlowType, flow, LineFrom, LostType, Loses, Labels
<1>2. modem'.mid = m.mid /\ (m.cmds # <<>> => modem'.cmds # <<>> /\ Head(modem'.cmds) = Head(m.cmds))
  BY DEF LineFrom
<1>3. ReadsBook' => ReadsBook
  BY <1>2 DEF ReadsBook, Holds
<1>4. FlowInv'
  <2>1. FlowOnItsWay => FlowOnItsWay'
    BY <1>0, <1>3, FlowLine DEF flow
  <2> QED
    BY <1>0, <2>1, FlowStep
<1>5. GoesInv'
  BY <1>0, <1>1, <1>2, GoesStep DEF flow
<1>6. CallInv'
  BY <1>0, CallStep
<1> QED
  BY <1>1, <1>4, <1>5, <1>6 DEF IInv, Types

\* A change of the network moves the flow.
Moved ==
  /\ flowTimer' = TRUE
  /\ \/ flowState \in {"READY", "WAIT_REG_NETWORK"} /\ flowState' = flowState
     \/ flowState = "READY" /\ flowState' = "SYNC_TIME"
     \/ flowState = "WAIT_REG_NETWORK" /\ flowState' = "TIME_REQUEST"

\* It moves the flow, or nothing.
LEMMA NetworkIs ==
  ASSUME NEW r \in BOOLEAN, OnNetworkStateUpdated(r)
  PROVE  registered' \in BOOLEAN /\ (Moved \/ (flowState' = flowState /\ flowTimer' = flowTimer))
<1>1. Keeps(r)
  BY NetworkMoves
<1>2. Moved \/ (flowState' = flowState /\ flowTimer' = flowTimer)
  <2>1. /\ \/ flowState = "READY" /\ Goes(IF r THEN "SYNC_TIME" ELSE flowState)
           \/ flowState = "WAIT_REG_NETWORK" /\ Goes(IF r THEN "TIME_REQUEST" ELSE flowState)
           \/ flowState \notin {"READY", "WAIT_REG_NETWORK"} /\ Stops(flowState)
    BY NetworkMoves
  <2>2. CASE r
    BY <2>1, <2>2 DEF Moved, Goes, Stops
  <2>3. CASE ~r
    BY <2>1, <2>3 DEF Moved, Goes, Stops
  <2> QED
    BY <2>2, <2>3
<1> QED
  BY <1>1, <1>2 DEF Keeps

\* Data of the first command.
LEMMA DataComes ==
  ASSUME IInv, ModemData
  PROVE  IInv'
<1> DEFINE c == Head(modem.cmds)
           m == [modem EXCEPT !.mid = TRUE]
<1>0. FlowType /\ SmsType /\ CallType /\ ResponseType /\ LineType /\ LostType /\ ModemType
      /\ FlowInv /\ GoesInv /\ CallInv
  BY DEF IInv, Types
<1>1. /\ modem.cmds # <<>> /\ ~modem.mid
      /\ c = "CLCC" => modem.call \notin {"none", "ENDED"}
  BY DEF ModemData
<1>2. /\ Holds(m) /\ m.cmds = modem.cmds /\ m.mid = TRUE
      /\ m.call = modem.call /\ m.who = modem.who
  BY <1>0, <1>1 DEF ModemType, Holds, Modem
<1>3. CASE Swallows(m, {})
  <2>1. modem' = m /\ callState' = callState /\ callTimer' = callTimer /\ response' = response
    BY <1>3 DEF Swallows, call
  <2>2. CallOfModem => CallOfModem'
    BY <1>1, <1>2, <2>1 DEF CallOfModem
  <2> QED
    BY <1>0, <1>1, <1>2, <1>3, <2>2, SwallowsAll
<1>4. CASE /\ Heard
           /\ NoWrite(pending, m)
           /\ simPinState' \in IF c = "CPIN?" THEN {"READY", "PIN", "ERROR"} ELSE {simPinState}
           /\ IF c = "CREG?" THEN \E r \in BOOLEAN : OnNetworkStateUpdated(r)
              ELSE UNCHANGED <<registered, flowState, flowTimer>>
           /\ book' = (book \/ c = "CPBR")
           /\ response' = IF c = "CLCC" THEN <<ClccState, modem.who>> ELSE response
           /\ UNCHANGED <<acked, sms, call>>
           /\ Lost({})
  <2>1. LineFrom(m) /\ modem' = m
    BY <1>0, <1>2, <1>4, NoWriteLine DEF LineType
  <2>2. LineType' /\ ModemType'
    BY <2>1 DEF LineFrom
  <2>3. SmsType' /\ CallType' /\ smsState' = smsState /\ Loses({})
    BY <1>0, <1>4, LostIs DEF SmsType, CallType, sms, call
  <2>4. LostType'
    BY <1>0, <2>3 DEF Loses, LostType
  <2>5. registered' \in BOOLEAN /\ (Moved \/ (flowState' = flowState /\ flowTimer' = flowTimer))
    <3>1. CASE c = "CREG?"
      <4>1. PICK r \in BOOLEAN : OnNetworkStateUpdated(r)
        BY <1>4, <3>1
      <4> QED
        BY <4>1, NetworkIs
    <3>2. CASE c # "CREG?"
      BY <1>0, <1>4, <3>2 DEF FlowType
    <3> QED
      BY <3>1, <3>2
  <2>6. FlowType'
    <3>1. book' \in BOOLEAN /\ acked' \subseteq Needed /\ simPinState' \in {"UNKNOWN", "READY", "PIN", "ERROR"}
      BY <1>0, <1>4 DEF FlowType
    <3>2. flowState' \in UbloxFlowState
      BY <1>0, <2>5 DEF FlowType, Moved, UbloxFlowState, StepState, FlowCommand
    <3>3. flowTimer' \in BOOLEAN
      BY <1>0, <2>5 DEF FlowType, Moved
    <3> QED
      BY <2>5, <3>1, <3>2, <3>3 DEF FlowType
  <2>7. ResponseType' /\ (CallOfModem => CallOfModem')
    <3>1. callState' = callState /\ callTimer' = callTimer /\ ClccState' = ClccState
      BY <1>2, <1>4, <2>1 DEF call, ClccState
    <3>2. CASE c = "CLCC"
      <4>1. modem.call \in ModemCall \ {"none", "ENDED"} /\ modem.who \in Who
        BY <1>0, <1>1, <3>2 DEF ModemType, Holds, Modem
      <4>2. ClccState \in GSMCallState
        BY <4>1, ClccIs DEF ModemCall, GSMCallState
      <4>3. response' = <<ClccState, modem.who>>
        BY <1>4, <3>2
      <4>4. ResponseType'
        BY <4>1, <4>2, <4>3 DEF ResponseType
      <4> QED
        BY <1>1, <1>2, <2>1, <3>1, <3>2, <4>3, <4>4 DEF CallOfModem
    <3>3. CASE c # "CLCC"
      BY <1>0, <1>1, <1>2, <1>4, <2>1, <3>1, <3>3 DEF CallOfModem, ResponseType
    <3> QED
      BY <3>2, <3>3
  <2>8. FlowInv'
    <3>1. ASSUME FlowOnItsWay PROVE FlowOnItsWay'
      <4>1. Has(modem.cmds, c)
        BY <1>0, <1>1, HasTail DEF ModemType, Holds, Modem
      <4>2. c = "CPBR" => ~NoBookYet
        BY <3>1, <4>1 DEF FlowOnItsWay
      <4>3. Done[flowState'] = Done[flowState] /\ (NoBookYet' <=> NoBookYet)
            /\ (flowState' \in {"READY", "SYNC_TIME"} => flowState \in {"READY", "SYNC_TIME"})
        BY <2>5 DEF Done, NoBookYet, Moved
      <4>4. Has(modem'.cmds, "CPBR") => Has(modem.cmds, "CPBR")
        BY <1>2, <2>1
      <4> QED
        BY <1>0, <1>2, <1>4, <2>1, <2>3, <3>1, <4>2, <4>3, <4>4 DEF FlowOnItsWay, FlowType, ReadsBook
    <3> QED
      BY <1>0, <2>3, <3>1, FlowStep
  <2>10. GoesInv'
    BY <1>0, <1>1, <1>2, <2>1, <2>3, <2>6, GoesStep
  <2>9. CallInv'
    BY <1>0, <2>3, <2>7, CallStep
  <2> QED
    BY <2>2, <2>3, <2>4, <2>6, <2>7, <2>8, <2>9, <2>10 DEF IInv, Types
<1> QED
  BY <1>1, <1>3, <1>4 DEF ModemData

\* The prompt.
LEMMA PromptComes ==
  ASSUME IInv, ModemPrompt
  PROVE  IInv'
<1> DEFINE m == [modem EXCEPT !.mid = TRUE]
<1>0. SmsType /\ CallType /\ ResponseType /\ LineType /\ ModemType
  BY DEF IInv, Types
<1>1. modem.cmds # <<>> /\ ~modem.mid /\ Head(modem.cmds) = "CMGS"
  BY DEF ModemPrompt
<1>2. /\ Holds(m) /\ m.cmds = modem.cmds /\ m.mid = TRUE
      /\ m.call = modem.call /\ m.who = modem.who
  BY <1>0, <1>1 DEF ModemType, Holds, Modem
<1>3. ASSUME modem' = m, callState' = callState, callTimer' = callTimer, response' = response, CallOfModem
      PROVE  CallOfModem'
  BY <1>1, <1>2, <1>3 DEF CallOfModem
<1>4. CASE Swallows(m, {})
  BY <1>0, <1>1, <1>2, <1>3, <1>4, SwallowsAll DEF Swallows, call
<1>5. CASE modem' = m /\ UNCHANGED <<flow, pending, timeout, sms, call, response, lost>>
  <2>1. UNCHANGED flow /\ smsState' = smsState /\ SmsType' /\ CallType' /\ ResponseType' /\ LineType'
    BY <1>0, <1>5 DEF SmsType, CallType, ResponseType, LineType, sms, call
  <2>2. LineFrom(m)
    BY <1>2, <1>5, <2>1 DEF LineFrom, ModemType
  <2>3. Loses({}) /\ {} \in SUBSET Labels
    BY <1>5, NothingLost
  <2>4. CallOfModem => CallOfModem'
    BY <1>3, <1>5 DEF call
  <2> HIDE DEF m
  <2> QED
    BY <1>1, <1>2, <1>5, <2>1, <2>2, <2>3, <2>4, FlowUntouched
<1> QED
  BY <1>4, <1>5 DEF ModemPrompt

-----------------------------------------------------------------------------
(* The events                                                              *)

\* +CREG as an event.
LEMMA NetworkEvent ==
  ASSUME IInv, NEW r \in BOOLEAN, RegEvent(r)
  PROVE  IInv'
<1>0. FlowType /\ SmsType /\ CallType /\ ResponseType /\ LineType /\ LostType /\ ModemType
      /\ FlowInv /\ GoesInv /\ CallInv
  BY DEF IInv, Types
<1>1. ~modem.mid /\ Holds(modem)
  BY <1>0 DEF RegEvent, Event, ModemType
<1>2. CASE Swallows(modem, {})
  <2>1. CallOfModem => CallOfModem'
    BY <1>1, <1>2 DEF Swallows, call, CallOfModem
  <2> QED
    BY <1>1, <1>2, <2>1, SwallowsAll
<1>3. CASE /\ Heard
           /\ NoWrite(pending, modem)
           /\ OnNetworkStateUpdated(r)
           /\ UNCHANGED <<simPinState, book, acked, sms, call, response>>
           /\ Lost({})
  <2>1. LineFrom(modem) /\ modem' = modem
    BY <1>0, <1>1, <1>3, NoWriteLine DEF LineType
  <2>2. LineType' /\ ModemType'
    BY <2>1 DEF LineFrom
  <2>3. SmsType' /\ CallType' /\ ResponseType' /\ smsState' = smsState /\ Loses({})
    BY <1>0, <1>3, LostIs DEF SmsType, CallType, ResponseType, sms, call
  <2>4. LostType'
    BY <1>0, <2>3 DEF Loses, LostType
  <2>5. registered' \in BOOLEAN /\ (Moved \/ (flowState' = flowState /\ flowTimer' = flowTimer))
    BY <1>3, NetworkIs
  <2>6. FlowType'
    <3>1. book' \in BOOLEAN /\ acked' \subseteq Needed /\ simPinState' \in {"UNKNOWN", "READY", "PIN", "ERROR"}
      BY <1>0, <1>3 DEF FlowType
    <3>2. flowState' \in UbloxFlowState
      BY <1>0, <2>5 DEF FlowType, Moved, UbloxFlowState, StepState, FlowCommand
    <3>3. flowTimer' \in BOOLEAN
      BY <1>0, <2>5 DEF FlowType, Moved
    <3> QED
      BY <2>5, <3>1, <3>2, <3>3 DEF FlowType
  <2>7. FlowInv'
    <3>1. ASSUME FlowOnItsWay PROVE FlowOnItsWay'
      <4>1. Done[flowState'] = Done[flowState] /\ (NoBookYet' <=> NoBookYet)
            /\ (flowState' \in {"READY", "SYNC_TIME"} => flowState \in {"READY", "SYNC_TIME"})
        BY <2>5 DEF Done, NoBookYet, Moved
      <4> QED
        BY <1>1, <1>3, <2>1, <2>3, <3>1, <4>1 DEF FlowOnItsWay, ReadsBook
    <3> QED
      BY <1>0, <2>3, <3>1, FlowStep
  <2>8. GoesInv'
    BY <1>0, <2>1, <2>3, <2>5, <2>6, GoesStep DEF Moved
  <2>9. CallInv'
    <3>1. CallOfModem => CallOfModem'
      BY <1>0, <1>3, <2>1, CallLine DEF call
    <3> QED
      BY <1>0, <2>3, <3>1, CallStep
  <2> QED
    BY <2>2, <2>3, <2>4, <2>6, <2>7, <2>8, <2>9 DEF IInv, Types
<1> QED
  BY <1>1, <1>2, <1>3 DEF RegEvent

\* +UCALLSTAT: a call comes in when there is none, so the timer of an answer is of this one.
LEMMA CallSays ==
  ASSUME IInv, NEW s \in GSMCallState \ {"DIALING"}, NEW who \in Who, CallEvent(s, who)
  PROVE  IInv'
<1> DEFINE m == [modem EXCEPT !.call = CallBecomes(s), !.who = WhoBecomes(s, who)]
           more == IF s = "DISCONNECT" THEN {"call"} ELSE {}
<1>0. SmsType /\ CallType /\ ResponseType /\ LineType /\ ModemType
  BY DEF IInv, Types
<1>1. ~modem.mid
  BY DEF CallEvent, Event
<1>2. /\ s = "INCOMING" => modem.call = "none"
      /\ s = "ALERTING" => modem.call = "DIALING"
      /\ s = "ACTIVE" => modem.call \in {"ANSWERED", "DIALING", "ALERTING"}
      /\ s = "DISCONNECT" => modem.call # "none"
  BY NextCallIs DEF CallEvent
<1>3. s \in {"ACTIVE", "ALERTING", "INCOMING", "DISCONNECT"}
  BY DEF GSMCallState
<1>4. /\ s = "DISCONNECT" => CallBecomes(s) = "none" /\ WhoBecomes(s, who) = "us"
      /\ s = "ACTIVE" => CallBecomes(s) = (IF modem.call = "ANSWERED" THEN "IN" ELSE "OUT")
                         /\ WhoBecomes(s, who) = modem.who
      /\ s = "INCOMING" => CallBecomes(s) = s /\ WhoBecomes(s, who) = who
      /\ s = "ALERTING" => CallBecomes(s) = s /\ WhoBecomes(s, who) = modem.who
  BY BecomesIs
<1>5. CallBecomes(s) \in ModemCall /\ WhoBecomes(s, who) \in Who
  BY <1>0, <1>3, <1>4 DEF ModemCall, ModemType, Holds, Modem, Who
<1>6. /\ Holds(m) /\ m.cmds = modem.cmds /\ m.mid = FALSE
      /\ m.call = CallBecomes(s) /\ m.who = WhoBecomes(s, who)
  BY <1>0, <1>1, <1>5 DEF ModemType, Holds, Modem
<1> HIDE DEF m, more
<1>7. CASE Swallows(m, {"call"})
  BY <1>0, <1>6, <1>7, SwallowsAll
<1>8. CASE /\ Heard
           /\ IF s \in {"INCOMING", "ACTIVE"}
              THEN Write("CLCC", m) /\ UNCHANGED call
              ELSE UpdateCallState(s, "us", pending, m)
           /\ UNCHANGED <<flow, sms, response>>
           /\ Lost(more)
  <2>1. more \in SUBSET Labels /\ (s = "DISCONNECT" => "call" \in more) /\ Loses(more)
    BY <1>8, LostIs DEF more, Labels
  <2>2. UNCHANGED flow /\ smsState' = smsState /\ SmsType' /\ ResponseType' /\ response' = response
    BY <1>0, <1>8 DEF SmsType, ResponseType, sms
  <2>3. \/ s \in {"INCOMING", "ACTIVE"} /\ Write("CLCC", m) /\ callState' = callState /\ callTimer' = callTimer
        \/ s = "ALERTING" /\ callState' = s /\ callTimer' = "HANGUP" /\ NoWrite(pending, m)
        \/ s = "DISCONNECT" /\ callState' = s /\ callTimer' = callTimer /\ NoWrite(pending, m)
    BY <1>3, <1>8, UpdateMoves DEF call
  <2>4. LineFrom(m) /\ \A d : Has(modem'.cmds, d) => Has(m.cmds, d) \/ d = "CLCC"
    BY <1>0, <1>6, <2>3, WriteLine, NoWriteLine DEF Command, LineType
  <2>5. CallType'
    BY <1>0, <2>3 DEF CallType, GSMCallState
  <2>6. Has(modem'.cmds, "CPBR") => Has(modem.cmds, "CPBR")
    BY <1>6, <2>4
  <2>7. ASSUME "call" \notin more, CallOfModem PROVE CallOfModem'
    <3>1. s # "DISCONNECT"
      BY <2>1, <2>7
    <3>2. response' = <<>>
      BY <1>1, <2>2, <2>7 DEF CallOfModem
    <3>3. /\ modem'.call = CallBecomes(s) /\ modem'.who = WhoBecomes(s, who)
          /\ Has(modem.cmds, "H") => Has(modem'.cmds, "H")
      BY <1>6, <2>4 DEF LineFrom
    <3> QED
      BY <1>2, <1>4, <2>3, <2>7, <3>1, <3>2, <3>3 DEF CallOfModem
  <2> QED
    BY <1>1, <1>6, <2>1, <2>2, <2>4, <2>5, <2>6, <2>7, FlowUntouched
<1> QED
  BY <1>7, <1>8 DEF CallEvent, m, more

\* +UUDTMFD.
LEMMA KeyPressed ==
  ASSUME IInv, DtmfEvent
  PROVE  IInv'
<1>0. SmsType /\ CallType /\ ResponseType /\ LineType /\ ModemType /\ Holds(modem)
  BY DEF IInv, Types, ModemType
<1>1. ~modem.mid /\ modem.call = "IN"
  BY DEF DtmfEvent, Event
<1>2. CASE Swallows(modem, {})
  <2>1. CallOfModem => CallOfModem'
    BY <1>1, <1>2 DEF Swallows, call, CallOfModem
  <2> QED
    BY <1>0, <1>2, <2>1, SwallowsAll
<1>3. CASE /\ Heard
           /\ \/ callTimer' = "none" /\ Write("H", modem)
              \/ UNCHANGED callTimer /\ NoWrite(pending, modem)
           /\ UNCHANGED <<flow, sms, callState, response>>
           /\ Lost({})
  <2>1. Loses({}) /\ {} \in SUBSET Labels
    BY <1>3, LostIs
  <2>2. UNCHANGED flow /\ smsState' = smsState /\ SmsType' /\ ResponseType' /\ CallType'
    BY <1>0, <1>3 DEF SmsType, ResponseType, CallType, sms
  <2>3. LineFrom(modem) /\ \A d : Has(modem'.cmds, d) => Has(modem.cmds, d) \/ d = "H"
    BY <1>0, <1>3, WriteLine, NoWriteLine DEF Command, LineType
  <2>4. CallOfModem => CallOfModem'
    BY <1>1, <1>3, <2>3 DEF CallOfModem, LineFrom
  <2> QED
    BY <1>0, <2>1, <2>2, <2>3, <2>4, FlowUntouched
<1> QED
  BY <1>2, <1>3 DEF DtmfEvent

\* +CMT.
LEMMA TextAnnounced ==
  ASSUME IInv, NEW who, TextHeader(who)
  PROVE  IInv'
<1> DEFINE m == [modem EXCEPT !.text = TRUE]
<1>0. SmsType /\ CallType /\ ResponseType /\ LineType /\ ModemType /\ FlowType
  BY DEF IInv, Types
<1>1. ~modem.mid
  BY DEF TextHeader, Event
<1>2. /\ Holds(m) /\ m.cmds = modem.cmds /\ m.mid = modem.mid
      /\ m.call = modem.call /\ m.who = modem.who
  BY <1>0 DEF ModemType, Holds, Modem
<1>3. CASE Swallows(m, {})
  <2>1. CallOfModem => CallOfModem'
    BY <1>1, <1>2, <1>3 DEF Swallows, call, CallOfModem
  <2> QED
    BY <1>2, <1>3, <2>1, SwallowsAll
<1>4. CASE /\ Heard
           /\ NoWrite(pending, m)
           /\ smsState' = IF IsAuthorized(who) THEN "RECEIVE_AUTH" ELSE "RECEIVE_NOT_AUTH"
           /\ smsSender' = (smsSender \/ IsAuthorized(who))
           /\ UNCHANGED <<flow, callHangupStack, call, response>>
           /\ Lost({})
  <2>1. Loses({}) /\ {} \in SUBSET Labels
    BY <1>4, LostIs
  <2>2. UNCHANGED flow /\ smsState' # "SEND_BEGIN" /\ ResponseType' /\ CallType'
    BY <1>0, <1>4 DEF ResponseType, CallType, call
  <2>3. SmsType'
    BY <1>0, <1>4 DEF SmsType, GSMSMSState
  <2>4. LineFrom(m) /\ modem' = m
    BY <1>0, <1>2, <1>4, NoWriteLine DEF LineType
  <2>5. CallOfModem => CallOfModem'
    BY <1>0, <1>2, <1>4, <2>4, CallLine DEF call
  <2> HIDE DEF m
  <2> QED
    BY <1>2, <2>1, <2>2, <2>3, <2>4, <2>5, FlowUntouched
<1> QED
  BY <1>3, <1>4 DEF TextHeader

\* The text.
LEMMA TextRead ==
  ASSUME IInv, TextLine
  PROVE  IInv'
<1> DEFINE t == [modem EXCEPT !.text = FALSE]
           more == IF callTimer' # callTimer /\ callTimer # "none" THEN {"call"} ELSE {}
<1>0. SmsType /\ CallType /\ ResponseType /\ LineType /\ ModemType /\ Holds(modem)
  BY DEF IInv, Types, ModemType
<1>1. UNCHANGED <<flow, smsSender, callHangupStack, callState, response>>
  BY DEF TextLine
<1>2. /\ Holds(t) /\ t.cmds = modem.cmds /\ t.mid = modem.mid
      /\ t.call = modem.call /\ t.who = modem.who
  BY <1>0 DEF ModemType, Holds, Modem
<1> HIDE DEF t
<1>3. CASE /\ NoWrite(FALSE, t)
           /\ smsState' = "NONE"
           /\ callTimer' = IF smsState = "RECEIVE_AUTH" THEN "DIAL" ELSE callTimer
           /\ Lost(more)
  <2>1. Loses(more) /\ more \in SUBSET Labels
    BY <1>3, LostIs DEF Labels
  <2>2. SmsType' /\ ResponseType' /\ CallType'
    BY <1>0, <1>1, <1>3 DEF ResponseType, CallType, SmsType, GSMSMSState
  <2>3. LineFrom(t) /\ modem' = t
    BY <1>2, <1>3, NoWriteLine
  <2>4. ASSUME "call" \notin more, CallOfModem PROVE CallOfModem'
    <3>1. callTimer' = callTimer \/ (callTimer = "none" /\ callTimer' = "DIAL")
      BY <1>3, <2>4
    <3>2. ClccState' = ClccState
      BY <1>2, <2>3 DEF ClccState
    <3> QED
      BY <1>1, <1>2, <2>3, <2>4, <3>1, <3>2 DEF CallOfModem
  <2> HIDE DEF more
  <2> QED
    BY <1>1, <1>2, <1>3, <2>1, <2>2, <2>3, <2>4, FlowUntouched
<1>4. CASE NoWrite(FALSE, modem) /\ UNCHANGED <<smsState, callTimer, lost>>
  <2>1. Loses({}) /\ {} \in SUBSET Labels
    BY <1>4, NothingLost
  <2>2. SmsType' /\ ResponseType' /\ CallType'
    BY <1>0, <1>1, <1>4 DEF ResponseType, CallType, SmsType
  <2>3. LineFrom(modem) /\ modem' = modem
    BY <1>0, <1>4, NoWriteLine
  <2>4. CallOfModem => CallOfModem'
    BY <1>0, <1>1, <1>4, <2>3, CallLine
  <2> QED
    BY <1>0, <1>1, <1>4, <2>1, <2>2, <2>3, <2>4, FlowUntouched
<1> QED
  BY <1>3, <1>4 DEF TextLine, t

\* A text that nobody waits for.
LEMMA TextStrays ==
  ASSUME IInv, StrayText
  PROVE  IInv'
<1> DEFINE m == [modem EXCEPT !.text = FALSE]
<1>0. SmsType /\ CallType /\ ResponseType /\ LineType /\ ModemType
  BY DEF IInv, Types
<1>1. /\ Holds(m) /\ m.cmds = modem.cmds /\ m.mid = modem.mid
      /\ m.call = modem.call /\ m.who = modem.who
  BY <1>0 DEF ModemType, Holds, Modem
<1>2. NoWrite(pending, m) /\ UNCHANGED <<flow, sms, call, response, lost>>
  BY DEF StrayText
<1> HIDE DEF m
<1>3. Loses({}) /\ {} \in SUBSET Labels
  BY <1>2, NothingLost
<1>4. SmsType' /\ ResponseType' /\ CallType' /\ smsState' = smsState
  BY <1>0, <1>2 DEF ResponseType, CallType, SmsType, sms, call
<1>5. LineFrom(m) /\ modem' = m
  BY <1>0, <1>1, <1>2, NoWriteLine DEF LineType
<1>6. CallOfModem => CallOfModem'
  BY <1>0, <1>1, <1>2, <1>5, CallLine DEF call
<1> QED
  BY <1>1, <1>2, <1>3, <1>4, <1>5, <1>6, FlowUntouched

-----------------------------------------------------------------------------
(* The timers and the heater                                               *)

\* The flow timer: a phone book that is asked for is empty until its lines come.
LEMMA FlowTimerFires ==
  ASSUME IInv, OnFlowTimer
  PROVE  IInv'
<1> DEFINE c == FlowCommand[flowState]
           more == (IF Ignored THEN {"answer"} ELSE {}) \cup (IF callState' # callState THEN {"call"} ELSE {})
<1>0. FlowType /\ SmsType /\ CallType /\ ResponseType /\ LineType /\ LostType /\ ModemType /\ Holds(modem)
      /\ FlowInv /\ GoesInv /\ CallInv
  BY DEF IInv, Types, ModemType
<1>1. /\ flowTimer = TRUE /\ flowTimer' = FALSE
      /\ UNCHANGED <<flowState, registered, simPinState, acked, sms, callTimer, response>>
  BY <1>0 DEF OnFlowTimer, FlowType
<1>2. SmsType' /\ ResponseType' /\ smsState' = smsState
  BY <1>0, <1>1 DEF SmsType, ResponseType, sms
<1>3. CASE flowState \in StepState
  <2>1. /\ Write(c, modem)
        /\ callState' \in {callState} \cup IF flowState = "INITIALIZATION" THEN {"DIALING"} ELSE {}
        /\ book' = (book /\ flowState # "READ_PHONE_BOOK")
        /\ Lost(more)
    BY <1>3 DEF OnFlowTimer
  <2>2. c \in Command
    BY <1>3 DEF Command
  <2>3. LineFrom(modem) /\ modem'.cmds # <<>> /\ \A d : Has(modem'.cmds, d) => Has(modem.cmds, d) \/ d = c
    BY <1>0, <2>1, <2>2, WriteLine
  <2>4. Loses(more) /\ more \subseteq Labels /\ (callState' # callState => "call" \in more)
    BY <2>1, LostIs DEF Labels
  <2> HIDE DEF more
  <2>5. FlowType'
    <3>1. book' \in BOOLEAN /\ flowTimer' \in BOOLEAN
      BY <1>1, <2>1
    <3> QED
      BY <1>0, <1>1, <3>1 DEF FlowType
  <2>6. CallType' /\ LineType' /\ ModemType' /\ LostType'
    BY <1>0, <1>1, <2>1, <2>3, <2>4 DEF CallType, GSMCallState, LineFrom, LostType, Loses, Labels
  <2>7. FlowInv'
    <3>1. ASSUME FlowOnItsWay PROVE FlowOnItsWay'
      <4>1. c = "CPBR" <=> flowState = "READ_PHONE_BOOK"
        BY <1>3 DEF StepState, FlowCommand
      <4>2. NoBookYet' => NoBookYet /\ flowState # "READ_PHONE_BOOK"
        BY <1>1 DEF NoBookYet
      <4>3. NoBookYet' => ~book' /\ ~Has(modem'.cmds, "CPBR")
        BY <2>1, <2>3, <3>1, <4>1, <4>2 DEF FlowOnItsWay
      <4>4. ~(flowState' = "READ_PHONE_BOOK" /\ ReadsBook')
        <5>1. ASSUME flowState = "READ_PHONE_BOOK", modem'.mid PROVE Head(modem'.cmds) # "CPBR"
          <6>1. NoBookYet /\ ~Has(modem.cmds, "CPBR")
            BY <1>1, <3>1, <5>1 DEF NoBookYet, FlowOnItsWay
          <6>2. modem.cmds # <<>> /\ Head(modem'.cmds) = Head(modem.cmds)
            BY <1>0, <2>3, <5>1 DEF LineFrom, Holds
          <6>3. Head(modem.cmds) # "CPBR"
            BY <1>0, <6>1, <6>2, HasTail DEF Holds, Modem
          <6> QED
            BY <6>2, <6>3
        <5> QED
          BY <1>1, <5>1 DEF ReadsBook
      <4>5. smsState' = "SEND_BEGIN" => book'
        BY <1>1, <1>2, <2>1, <3>1 DEF FlowOnItsWay, NoBookYet
      <4> QED
        BY <1>1, <2>1, <3>1, <4>3, <4>4, <4>5 DEF FlowOnItsWay
    <3> QED
      BY <1>0, <2>4, <3>1, FlowStep
  <2>8. GoesInv'
    BY <1>0, <2>3, <2>4, <2>5, GoesStep
  <2>9. CallInv'
    <3>1. "call" \notin more /\ CallOfModem => CallOfModem'
      BY <1>0, <1>1, <2>3, <2>4, CallLine
    <3> QED
      BY <1>0, <2>4, <3>1, CallStep
  <2> QED
    BY <1>2, <2>5, <2>6, <2>7, <2>8, <2>9 DEF IInv, Types
<1>4. CASE flowState \notin StepState
  <2>1. UNCHANGED <<pending, timeout, modem, callState, book, lost>>
    BY <1>4 DEF OnFlowTimer
  <2>2. FlowType' /\ CallType' /\ LineType' /\ ModemType' /\ LostType'
    BY <1>0, <1>1, <2>1 DEF FlowType, CallType, LineType, LostType, ModemType, Holds
  <2>3. FlowInv'
    BY <1>0, <1>1, <1>2, <2>1 DEF FlowInv, FlowOnItsWay, NoBookYet, ReadsBook
  <2>4. GoesInv'
    BY <1>1, <1>4 DEF GoesInv
  <2>5. CallInv'
    <3>1. ClccState' = ClccState
      BY <2>1 DEF ClccState
    <3> QED
      BY <1>0, <1>1, <2>1, <3>1 DEF CallInv, CallOfModem
  <2> QED
    BY <1>2, <2>2, <2>3, <2>4, <2>5 DEF IInv, Types
<1> QED
  BY <1>3, <1>4

\* DialCMD.
LEMMA Dials ==
  ASSUME ModemType, LineType, CallType, NEW n \in 0 .. SMS_CALL_HANGUP_SIZE, NEW timer, DialCMD(n, timer)
  PROVE  /\ callHangupStack' \in 0 .. SMS_CALL_HANGUP_SIZE
         /\ LineFrom(modem) /\ \A d : Has(modem'.cmds, d) => Has(modem.cmds, d) \/ d = "D"
         /\ callState' = callState \/ callState' = "DIALING"
<1>0. Holds(modem) /\ SMS_CALL_HANGUP_SIZE \in Nat
  BY PhoneAssumption DEF ModemType
<1>1. CASE callHangupStack' = n /\ UNCHANGED <<pending, timeout, callState, modem>>
  BY <1>0, <1>1 DEF LineFrom, LineType, ModemType, Holds
<1>2. CASE n # 0 /\ callHangupStack' = n - 1 /\ Write("D", modem) /\ callState' = "DIALING"
  <2>1. n - 1 \in 0 .. SMS_CALL_HANGUP_SIZE
    BY <1>0, <1>2
  <2>2. "D" \in Command
    BY DEF Command
  <2> QED
    BY <1>0, <1>2, <2>1, <2>2, WriteLine
<1> QED
  BY <1>1, <1>2 DEF DialCMD

\* The call timer: the modem takes the command that ends the call, or "call" is lost.
LEMMA CallTimerFires ==
  ASSUME IInv, OnCallTimer
  PROVE  IInv'
<1> DEFINE more == IF Ignored THEN {"call"} ELSE {}
<1>0. FlowType /\ SmsType /\ CallType /\ ResponseType /\ LineType /\ ModemType /\ Holds(modem)
  BY DEF IInv, Types, ModemType
<1>1. /\ callTimer # "none" /\ callTimer' = "none"
      /\ UNCHANGED <<flow, smsState, smsSender, response>> /\ Lost(more)
  BY DEF OnCallTimer
<1>2. Loses(more) /\ more \in SUBSET Labels /\ (Ignored => "call" \in more)
  BY <1>1, LostIs DEF Labels
<1>3. /\ LineFrom(modem) /\ \A d : Has(modem'.cmds, d) => Has(modem.cmds, d) \/ d \in {"D", "H", "A"}
      /\ callState' = callState \/ callState' = "DIALING"
      /\ callHangupStack' \in 0 .. SMS_CALL_HANGUP_SIZE
      /\ callTimer = "HANGUP" => Ignored \/ Has(modem'.cmds, "H")
  <2>1. CASE callTimer = "DIAL" /\ DialCMD(callHangupStack, "none")
    BY <1>0, <2>1, Dials DEF SmsType
  <2>2. CASE callTimer = "HANGUP" /\ Write("H", modem) /\ UNCHANGED <<callHangupStack, callState>>
    BY <1>0, <2>2, WriteLine DEF Command, SmsType
  <2>3. CASE callTimer = "ANSWER" /\ Write("A", modem) /\ UNCHANGED <<callHangupStack, callState>>
    BY <1>0, <2>3, WriteLine DEF Command, SmsType
  <2> QED
    BY <2>1, <2>2, <2>3 DEF OnCallTimer
<1>4. SmsType' /\ CallType' /\ ResponseType' /\ smsState' = smsState /\ UNCHANGED flow
  BY <1>0, <1>1, <1>3 DEF SmsType, CallType, ResponseType, GSMCallState
<1> HIDE DEF more
<1>5. ASSUME "call" \notin more, CallOfModem PROVE CallOfModem'
  <2>1. modem'.mid = modem.mid /\ modem'.call = modem.call /\ modem'.who = modem.who
    BY <1>3 DEF LineFrom
  <2>2. modem.mid => Head(modem'.cmds) = Head(modem.cmds)
    BY <1>0, <1>3 DEF LineFrom, Holds
  <2>3. Has(modem.cmds, "H") \/ callTimer = "HANGUP" => Has(modem'.cmds, "H")
    BY <1>2, <1>3, <1>5 DEF LineFrom
  <2>4. ClccState' = ClccState
    BY <2>1 DEF ClccState
  <2> QED
    BY <1>1, <1>3, <1>5, <2>1, <2>2, <2>3, <2>4 DEF CallOfModem
<1>6. Has(modem'.cmds, "CPBR") => Has(modem.cmds, "CPBR")
  BY <1>3
<1> QED
  BY <1>0, <1>2, <1>3, <1>4, <1>5, <1>6, FlowUntouched

\* The sender of the last text is called.
LEMMA HeaterDone ==
  ASSUME IInv, NotifyByCallHangUp
  PROVE  IInv'
<1> DEFINE more == IF Ignored THEN {"call"} ELSE {}
<1>0. SmsType /\ CallType /\ ResponseType /\ LineType /\ ModemType /\ Holds(modem)
  BY DEF IInv, Types, ModemType
<1>1. /\ UNCHANGED <<flow, smsState, smsSender, callTimer, response>> /\ Lost(more)
      /\ callHangupStack < SMS_CALL_HANGUP_SIZE /\ DialCMD(callHangupStack + 1, callTimer)
  BY DEF NotifyByCallHangUp
<1>2. Loses(more) /\ more \in SUBSET Labels
  BY <1>1, LostIs DEF Labels
<1>3. /\ LineFrom(modem) /\ \A d : Has(modem'.cmds, d) => Has(modem.cmds, d) \/ d = "D"
      /\ callState' = callState \/ callState' = "DIALING"
      /\ callHangupStack' \in 0 .. SMS_CALL_HANGUP_SIZE
  <2>1. callHangupStack + 1 \in 0 .. SMS_CALL_HANGUP_SIZE
    BY <1>0, <1>1, PhoneAssumption DEF SmsType
  <2> QED
    BY <1>0, <1>1, <2>1, Dials
<1>4. SmsType' /\ CallType' /\ ResponseType' /\ smsState' = smsState /\ UNCHANGED flow
  BY <1>0, <1>1, <1>3 DEF SmsType, CallType, ResponseType, GSMCallState
<1> HIDE DEF more
<1>5. ASSUME CallOfModem PROVE CallOfModem'
  <2>1. modem'.mid = modem.mid /\ modem'.call = modem.call /\ modem'.who = modem.who
    BY <1>3 DEF LineFrom
  <2>2. modem.mid => Head(modem'.cmds) = Head(modem.cmds)
    BY <1>0, <1>3 DEF LineFrom, Holds
  <2>3. Has(modem.cmds, "H") => Has(modem'.cmds, "H")
    BY <1>3 DEF LineFrom
  <2>4. ClccState' = ClccState
    BY <2>1 DEF ClccState
  <2> QED
    BY <1>1, <1>3, <1>5, <2>1, <2>2, <2>3, <2>4 DEF CallOfModem
<1>6. Has(modem'.cmds, "CPBR") => Has(modem.cmds, "CPBR")
  BY <1>3
<1> QED
  BY <1>0, <1>2, <1>3, <1>4, <1>5, <1>6, FlowUntouched

\* A text is sent.
LEMMA TextSent ==
  ASSUME IInv, SendSMSMessage
  PROVE  IInv'
<1>0. SmsType /\ CallType /\ ResponseType /\ LineType /\ ModemType /\ Holds(modem)
  BY DEF IInv, Types, ModemType
<1>1. /\ book /\ Write("CMGS", modem) /\ smsState' = "SEND_BEGIN"
      /\ UNCHANGED <<flow, smsSender, callHangupStack, call, response, lost>>
  BY DEF SendSMSMessage
<1>2. Loses({}) /\ {} \in SUBSET Labels
  BY <1>1, NothingLost
<1>3. SmsType' /\ CallType' /\ ResponseType'
  BY <1>0, <1>1 DEF SmsType, CallType, ResponseType, call, GSMSMSState
<1>4. LineFrom(modem) /\ \A d : Has(modem'.cmds, d) => Has(modem.cmds, d) \/ d = "CMGS"
  BY <1>0, <1>1, WriteLine DEF Command
<1>5. CallOfModem => CallOfModem'
  BY <1>0, <1>1, <1>4, CallLine DEF call
<1> QED
  BY <1>0, <1>1, <1>2, <1>3, <1>4, <1>5, FlowUntouched

\* Nothing happens.
LEMMA Still ==
  ASSUME IInv, UNCHANGED vars
  PROVE  IInv'
<1>1. UNCHANGED <<flowState, flowTimer, registered, simPinState, book, acked>>
  BY DEF vars, flow
<1>2. UNCHANGED <<pending, timeout, smsState, smsSender, callHangupStack, callState, callTimer, response, modem, lost>>
  BY DEF vars, sms, call
<1>3. Types'
  BY <1>1, <1>2
  DEF IInv, Types, FlowType, SmsType, CallType, ResponseType, LineType, LostType, ModemType, Holds
<1>4. FlowInv' /\ GoesInv'
  BY <1>1, <1>2 DEF IInv, FlowInv, FlowOnItsWay, NoBookYet, ReadsBook, GoesInv
<1>5. CallInv'
  <2>1. ClccState' = ClccState
    BY <1>2 DEF ClccState
  <2> QED
    BY <1>2, <2>1 DEF IInv, CallInv, CallOfModem
<1> QED
  BY <1>3, <1>4, <1>5 DEF IInv

\* The start.
LEMMA Starts ==
  ASSUME Init
  PROVE  IInv
<1>1. /\ flowState \in {"INITIALIZATION", "LOCKED"} /\ flowTimer = TRUE /\ registered = FALSE
      /\ simPinState = "UNKNOWN" /\ book = FALSE /\ acked = {}
  BY PhoneAssumption DEF Init
<1>2. /\ pending = FALSE /\ timeout = FALSE /\ smsState = "NONE" /\ smsSender = FALSE /\ callHangupStack = 0
      /\ callState = "DISCONNECT" /\ callTimer = "none" /\ response = <<>> /\ modem = Silent /\ lost = {}
  BY DEF Init
<1>3. /\ Silent \in Modem /\ Silent.cmds = <<>> /\ Silent.mid = FALSE /\ Len(Silent.cmds) <= MaxOwed
  BY PhoneAssumption DEF Silent, Modem, ModemCall, Who
<1>4. FlowType
  BY <1>1 DEF FlowType, UbloxFlowState, StepState, FlowCommand
<1>5. SmsType /\ CallType /\ ResponseType /\ LineType /\ LostType /\ ModemType
  <2>1. 0 \in 0 .. SMS_CALL_HANGUP_SIZE
    BY PhoneAssumption
  <2>2. SmsType
    BY <1>2, <2>1 DEF SmsType, GSMSMSState
  <2>3. ModemType
    BY <1>2, <1>3 DEF ModemType, Holds
  <2>4. CallType /\ ResponseType
    BY <1>2 DEF CallType, ResponseType, GSMCallState
  <2>5. LineType /\ LostType
    BY <1>2 DEF LineType, LostType
  <2> QED
    BY <2>2, <2>3, <2>4, <2>5
<1>6. FlowInv
  BY <1>1, <1>2, <1>3 DEF FlowInv, FlowOnItsWay, ReadsBook, Done, Has
<1>7. GoesInv /\ CallInv
  BY <1>1, <1>2 DEF GoesInv, CallInv, CallOfModem
<1> QED
  BY <1>4, <1>5, <1>6, <1>7 DEF IInv, Types

-----------------------------------------------------------------------------
(* The theorems                                                            *)

\* The invariant holds in every state.
THEOREM Invariance == Spec => []IInv
<1>1. Init => IInv
  BY Starts
<1>2. IInv /\ [Next]_vars => IInv'
  <2> SUFFICES ASSUME IInv, [Next]_vars PROVE IInv'
    OBVIOUS
  <2>1. CASE Answers
    BY <2>1, OKAnswered, ErrorAnswered, DataComes, PromptComes DEF Answers
  <2>2. CASE Events
    BY <2>2, NetworkEvent, CallSays, KeyPressed, TextAnnounced DEF Events, Who
  <2>3. CASE TextLine \/ StrayText
    BY <2>3, TextRead, TextStrays
  <2>4. CASE OnFlowTimer \/ OnCallTimer \/ OnTimeout
    BY <2>4, FlowTimerFires, CallTimerFires, TimedOut
  <2>5. CASE NotifyByCallHangUp \/ SendSMSMessage
    BY <2>5, HeaterDone, TextSent
  <2>6. CASE UNCHANGED vars
    BY <2>6, Still
  <2> QED
    BY <2>1, <2>2, <2>3, <2>4, <2>5, <2>6 DEF Next
<1> QED
  BY <1>1, <1>2, PTL DEF Spec

\* READY means set up, whatever the modem answers and whenever calls and texts come.
THEOREM SetUpIsWhole == Spec => []Configured
<1>1. IInv => Configured
  <2> SUFFICES ASSUME IInv PROVE Configured
    OBVIOUS
  <2>1. TypeOK
    BY TypesAreTypeOK DEF IInv
  <2>2. ASSUME flowState \in {"READY", "SYNC_TIME"}, "step" \notin lost PROVE acked = Needed /\ book
    <3>1. FlowOnItsWay /\ acked \subseteq Needed
      BY <2>2 DEF IInv, FlowInv, Types, FlowType
    <3>2. Done[flowState] = Needed
      BY <2>2 DEF Done
    <3> QED
      BY <2>2, <3>1, <3>2 DEF FlowOnItsWay
  <2> QED
    BY <2>1, <2>2 DEF Configured
<1> QED
  BY <1>1, Invariance, PTL

\* A step of the set-up has its timer, or a command that the modem will answer.
THEOREM SetUpGoesOn == Spec => []FlowGoesOn
<1>1. IInv => FlowGoesOn
  BY DEF IInv, GoesInv, FlowGoesOn
<1> QED
  BY <1>1, Invariance, PTL

\* A call of ours that rings is hung up.
THEOREM RingingEnds == Spec => []RingsOut
<1>1. IInv => RingsOut
  BY DEF IInv, CallInv, CallOfModem, RingsOut, Owes, Has
<1> QED
  BY <1>1, Invariance, PTL

\* No step answers a call of one who is not in the phone book.
THEOREM OnlyFriendsAnswered == Spec => AnswersFriends
<1>1. IInv /\ [Next]_vars =>
        [callTimer = "ANSWER" /\ callTimer' = "none" => modem.who = "friend" \/ "call" \in lost]_vars
  BY DEF IInv, CallInv, CallOfModem
<1> QED
  BY <1>1, Invariance, PTL DEF Spec, AnswersFriends

=============================================================================
