------------------------------ MODULE GprsProofs ------------------------------
(***************************************************************************)
(* The steps of an activation and a deactivation, and what ACTIVE means,   *)
(* for every capacity of the command stack, every set of texts and any     *)
(* traffic of other handlers.                                              *)
(***************************************************************************)
EXTENDS Gprs, FiniteSetTheorems, SequenceTheorems, TLAPS

LEMMA CommandNames ==
  /\ DOMAIN Settings = 1 .. 4
  /\ Setting = {"APN", "LOGIN", "PSWD", "ASSIGNED_IP"}
  /\ Step = {"APN", "LOGIN", "PSWD", "ASSIGNED_IP", "STATUS", "IP", "UPSDA", "CGATT"}
  /\ Step \subseteq Command /\ "other" \in Command /\ "other" \notin Step
  /\ "none" \notin Command
  /\ \A c \in Setting \ {"ASSIGNED_IP"} : NextSetting(c) \in Setting
<1>1. /\ DOMAIN Settings = 1 .. 4
      /\ Settings[1] = "APN" /\ Settings[2] = "LOGIN" /\ Settings[3] = "PSWD"
      /\ Settings[4] = "ASSIGNED_IP"
  BY DEF Settings
<1>2. 1 .. 4 = {1, 2, 3, 4}
  OBVIOUS
<1>3. Setting = {"APN", "LOGIN", "PSWD", "ASSIGNED_IP"}
  BY <1>1, <1>2 DEF Setting
<1>4. ASSUME NEW c \in Setting \ {"ASSIGNED_IP"} PROVE NextSetting(c) \in Setting
  <2>1. PICK k \in 1 .. 3 : Settings[k] = c
    BY <1>1, <1>3
  <2>2. \A i \in DOMAIN Settings : Settings[i] = c => i = k
    BY <1>1, <1>2, <2>1
  <2>3. (CHOOSE i \in DOMAIN Settings : Settings[i] = c) = k
    BY <1>1, <2>1, <2>2
  <2>4. k + 1 \in DOMAIN Settings
    BY <1>1
  <2> QED BY <2>3, <2>4 DEF NextSetting, Setting
<1> QED BY <1>1, <1>3, <1>4 DEF Step, Poll, Command

-----------------------------------------------------------------------------
(* Counting the steps in the stack                                         *)

At(s) == {i \in DOMAIN s : s[i] \in Step}

N(s) == Cardinality(At(s))

LEMMA CountType ==
  ASSUME NEW s \in Seq(Command)
  PROVE  /\ IsFiniteSet(At(s)) /\ N(s) \in Nat
         /\ N(s) = 0 => \A i \in DOMAIN s : s[i] \notin Step
<1>1. DOMAIN s = 1 .. Len(s) /\ Len(s) \in Nat
  OBVIOUS
<1>2. IsFiniteSet(At(s))
  <2>1. IsFiniteSet(1 .. Len(s))
    BY <1>1, FS_Interval
  <2> QED BY <1>1, <2>1, FS_Subset DEF At
<1>3. N(s) \in Nat /\ (N(s) = 0 => At(s) = {})
  BY <1>2, FS_CardinalityType, FS_EmptySet DEF N
<1> QED BY <1>2, <1>3 DEF At

LEMMA CountEmpty == N(<<>>) = 0
<1>1. At(<<>>) = {}
  BY DEF At
<1> QED BY <1>1, FS_EmptySet DEF N

LEMMA CountPush ==
  ASSUME NEW s \in Seq(Command), NEW c \in Command
  PROVE  /\ <<c>> \o s \in Seq(Command) /\ Len(<<c>> \o s) = Len(s) + 1
         /\ N(<<c>> \o s) = N(s) + IF c \in Step THEN 1 ELSE 0
<1> DEFINE t == <<c>> \o s
           moved == {i + 1 : i \in At(s)}
           f == [i \in At(s) |-> i + 1]
<1>1. /\ t \in Seq(Command) /\ Len(t) = Len(s) + 1 /\ t[1] = c
      /\ \A i \in 2 .. Len(t) : t[i] = s[i - 1]
  OBVIOUS
<1>2. DOMAIN t = 1 .. Len(s) + 1 /\ DOMAIN s = 1 .. Len(s) /\ Len(s) \in Nat
  BY <1>1
<1>3. \A i \in DOMAIN s : i + 1 \in DOMAIN t /\ t[i + 1] = s[i] /\ i + 1 # 1 /\ i \in Nat
  BY <1>1, <1>2
<1>4. \A i \in DOMAIN t : i = 1 \/ (i - 1 \in DOMAIN s /\ t[i] = s[i - 1] /\ i = (i - 1) + 1)
  BY <1>1, <1>2
<1>5. 1 \in DOMAIN t
  BY <1>2
<1> HIDE DEF t
<1>6. At(t) = moved \cup IF c \in Step THEN {1} ELSE {}
  BY <1>1, <1>3, <1>4, <1>5 DEF At
<1>7. 1 \notin moved
  BY <1>3 DEF At
<1>8. f \in Bijection(At(s), moved)
  <2>1. f \in [At(s) -> moved]
    OBVIOUS
  <2>2. \A i, j \in At(s) : f[i] = f[j] => i = j
    BY <1>3 DEF At
  <2>3. \A y \in moved : \E i \in At(s) : f[i] = y
    OBVIOUS
  <2> QED BY <2>1, <2>2, <2>3 DEF Bijection, Injection, Surjection, IsInjective
<1>9. IsFiniteSet(moved) /\ Cardinality(moved) = N(s)
  BY <1>8, CountType, FS_Bijection DEF ExistsBijection, N
<1>10. Cardinality(moved \cup {1}) = N(s) + 1 /\ N(s) \in Nat
  BY <1>7, <1>9, CountType, FS_AddElement
<1>11. CASE c \in Step
  BY <1>1, <1>6, <1>10, <1>11 DEF N, t
<1>12. CASE c \notin Step
  <2>1. At(t) = moved
    BY <1>6, <1>12
  <2>2. N(<<c>> \o s) = Cardinality(moved)
    BY <2>1 DEF N, t
  <2> QED BY <1>1, <1>9, <1>10, <1>12, <2>2 DEF t
<1> QED BY <1>11, <1>12

LEMMA CountPop ==
  ASSUME NEW s \in Seq(Command), s # <<>>
  PROVE  /\ Head(s) \in Command /\ Tail(s) \in Seq(Command) /\ Len(Tail(s)) = Len(s) - 1
         /\ N(s) = N(Tail(s)) + IF Head(s) \in Step THEN 1 ELSE 0
<1>1. /\ Head(s) \in Command /\ Tail(s) \in Seq(Command) /\ Len(Tail(s)) = Len(s) - 1
      /\ s = <<Head(s)>> \o Tail(s)
  BY HeadTailProperties
<1> QED BY <1>1, CountPush

LEMMA CountAppend ==
  ASSUME NEW s \in Seq(Command)
  PROVE  /\ Append(s, "other") \in Seq(Command) /\ Len(Append(s, "other")) = Len(s) + 1
         /\ N(Append(s, "other")) = N(s)
<1> DEFINE t == Append(s, "other")
<1>1. /\ t \in Seq(Command) /\ Len(t) = Len(s) + 1 /\ t[Len(s) + 1] = "other"
      /\ \A i \in 1 .. Len(s) : t[i] = s[i]
  BY CommandNames
<1>2. DOMAIN t = 1 .. Len(s) + 1 /\ DOMAIN s = 1 .. Len(s) /\ Len(s) \in Nat
  BY <1>1
<1> HIDE DEF t
<1>3. At(t) = At(s)
  BY <1>1, <1>2, CommandNames DEF At
<1> QED BY <1>1, <1>3 DEF N, t

-----------------------------------------------------------------------------
(* Every variable keeps its type                                           *)

LEMMA StackType ==
  ASSUME TypeOK
  PROVE  /\ stack \in Seq(Command) /\ Len(stack) <= OUT_MESSAGE_STACK_SIZE
         /\ Len(stack) \in Nat /\ OUT_MESSAGE_STACK_SIZE \in Nat
<1>1. stack \in Seq(Command) /\ Len(stack) <= OUT_MESSAGE_STACK_SIZE
  BY DEF TypeOK
<1> QED BY <1>1, GprsAssumption

LEMMA Pushed ==
  ASSUME TypeOK, NEW c \in Step,
         stack' = IF HasRoom THEN <<c>> \o stack ELSE stack
  PROVE  /\ stack' \in Seq(Command) /\ Len(stack') <= OUT_MESSAGE_STACK_SIZE
         /\ HasRoom => N(stack') = N(stack) + 1
         /\ ~HasRoom => N(stack') = N(stack)
<1>1. c \in Command
  BY CommandNames
<1>2. CASE HasRoom
  <2>1. /\ <<c>> \o stack \in Seq(Command) /\ Len(<<c>> \o stack) = Len(stack) + 1
        /\ N(<<c>> \o stack) = N(stack) + 1
    BY <1>1, StackType, CountPush
  <2> QED BY <1>2, <2>1, StackType DEF HasRoom
<1>3. CASE ~HasRoom
  BY <1>3, StackType
<1> QED BY <1>2, <1>3

LEMMA Forced ==
  ASSUME TypeOK, NEW c \in Step, NEW more, ForceCommand(c, more)
  PROVE  /\ stack' \in Seq(Command) /\ Len(stack') <= OUT_MESSAGE_STACK_SIZE
         /\ lost \subseteq lost' /\ more \subseteq lost'
         /\ lost' \subseteq lost \cup more \cup {"refused"}
         /\ \/ N(stack') = N(stack) + 1
            \/ N(stack') = N(stack) /\ "refused" \in lost'
<1>1. stack' = IF HasRoom THEN <<c>> \o stack ELSE stack
  BY DEF ForceCommand
<1>2. /\ lost \subseteq lost' /\ more \subseteq lost'
      /\ lost' \subseteq lost \cup more \cup {"refused"}
      /\ ~HasRoom => "refused" \in lost'
  BY DEF ForceCommand
<1> QED BY <1>1, <1>2, Pushed

\* The type invariant in parts, by the variables that change together.
ApnType == apnState \in GSM_APN_STATE /\ given \subseteq Text
TimerType == checkTimer \in BOOLEAN /\ timers \in {0, 1} /\ (timers = 1 <=> checkTimer)
AddressType == deviceAddr \in {"none", "current", "other"} /\ profile \in {"down", "rising", "up"}
StackOK ==
  /\ stack \in Seq(Command) /\ Len(stack) <= OUT_MESSAGE_STACK_SIZE
  /\ pending \in Command \cup {"none"}
FlagType == answered \in BOOLEAN /\ booted \in BOOLEAN
LostType == lost \subseteq {"refused", "silent", "crossed"}

LEMMA TypeParts ==
  TypeOK <=> ApnType /\ TimerType /\ AddressType /\ StackOK /\ FlagType /\ LostType
BY DEF TypeOK, ApnType, TimerType, AddressType, StackOK, FlagType, LostType

LEMMA TypePartsNext ==
  ASSUME ApnType', TimerType', AddressType', StackOK', FlagType', LostType'
  PROVE  TypeOK'
BY DEF TypeOK, ApnType, TimerType, AddressType, StackOK, FlagType, LostType

\* The timer is started once more, or it is stopped.
LEMMA Timers ==
  ASSUME TypeOK
  PROVE  /\ timers \in {0, 1}
         /\ CheckLater => TimerType' /\ timers' = 1
         /\ FlushAuthData => TimerType' /\ timers' = 0
         /\ UNCHANGED timer => TimerType' /\ timers' = timers
<1>1. timers \in {0, 1} /\ (timers = 1 <=> checkTimer)
  BY DEF TypeOK
<1>2. CheckLater => checkTimer' = TRUE /\ timers' = 1
  BY <1>1 DEF CheckLater
<1>3. FlushAuthData => checkTimer' = FALSE /\ timers' = 0
  BY <1>1 DEF FlushAuthData
<1>4. UNCHANGED timer => TimerType' /\ timers' = timers
  BY TypeParts DEF TimerType, timer
<1>5. checkTimer' = TRUE /\ timers' = 1 => TimerType'
  BY DEF TimerType
<1>6. ASSUME checkTimer' = FALSE, timers' = 0 PROVE TimerType'
  <2>1. timers' \in {0, 1} /\ timers' # 1
    BY <1>6
  <2> QED BY <1>6, <2>1 DEF TimerType
<1> QED BY <1>1, <1>2, <1>3, <1>4, <1>5, <1>6

LEMMA TakenCases ==
  ASSUME EventTaken
  PROVE  /\ pending # "none"
         /\ profile' \in {profile} \cup IF profile = "up" THEN {"down"} ELSE {}
         /\ UNCHANGED <<apnState, given, pending, answered, booted>>
         /\ \/ /\ pending = "STATUS"
               /\ \/ ForceCommand("IP", {"crossed"}) /\ UNCHANGED timer
                  \/ CheckLater /\ lost' = lost \cup {"crossed"} /\ UNCHANGED stack
               /\ UNCHANGED deviceAddr
            \/ /\ pending = "IP"
               /\ deviceAddr' = "other"
               /\ lost' = lost \cup {"silent"}
               /\ UNCHANGED <<stack, timer>>
            \/ /\ pending \notin {"STATUS", "IP"}
               /\ lost' = lost \cup IF profile' # profile THEN {"silent"} ELSE {}
               /\ UNCHANGED <<stack, timer, deviceAddr>>
BY DEF EventTaken

LEMMA FinalFlags ==
  ASSUME TypeOK, NEW c, Final(c)
  PROVE  FlagType' /\ pending' = "none"
BY TypeParts DEF Final, FlagType

LEMMA AnswersTypes ==
  ASSUME TypeOK, Answers
  PROVE  TypeOK'
<1>1. ASSUME NEW c, Final(c), apnState' \in GSM_APN_STATE,
             TimerType', AddressType', LostType',
             stack' \in Seq(Command), Len(stack') <= OUT_MESSAGE_STACK_SIZE
      PROVE  TypeOK'
  <2>1. ApnType' /\ StackOK'
    BY <1>1, TypeParts DEF Final, ApnType, StackOK
  <2> QED BY <1>1, <2>1, FinalFlags, TypePartsNext
<1>2. ASSUME NEW type \in FinalType, NEW c \in Setting, ConfigAnswer(c, type) PROVE TypeOK'
  <2>1. PICK d \in Step : ForceCommand(d, {})
    BY <1>2, CommandNames DEF ConfigAnswer, Fails, Step
  <2>2. TimerType' /\ AddressType' /\ apnState' \in GSM_APN_STATE
    BY <1>2, Timers, TypeParts DEF ConfigAnswer, Fails, AddressType, ApnType, GSM_APN_STATE
  <2>3. LostType'
    BY <2>1, Forced, TypeParts DEF LostType
  <2> QED BY <1>1, <1>2, <2>1, <2>2, <2>3, Forced DEF ConfigAnswer
<1>3. ASSUME NEW type \in FinalType, ControlAnswer(type) PROVE TypeOK'
  <2>1. CASE CheckLater /\ UNCHANGED <<apnState, stack, lost>>
    <3>1. AddressType' /\ apnState' \in GSM_APN_STATE /\ LostType'
      BY <1>3, <2>1, TypeParts DEF ControlAnswer, AddressType, ApnType, LostType
    <3> QED BY <1>1, <1>3, <2>1, <3>1, StackType, Timers DEF ControlAnswer
  <2>2. CASE Fails({}) /\ UNCHANGED <<timer, profile>>
    <3>1. ForceCommand("CGATT", {}) /\ "CGATT" \in Step
      BY <2>2, CommandNames DEF Fails
    <3>2. AddressType' /\ apnState' \in GSM_APN_STATE
      BY <1>3, <2>2, TypeParts DEF ControlAnswer, AddressType, Fails, GSM_APN_STATE
    <3>3. LostType'
      BY <3>1, Forced, TypeParts DEF LostType
    <3> QED BY <1>1, <1>3, <2>2, <3>1, <3>2, <3>3, Forced, Timers DEF ControlAnswer
  <2> QED BY <1>3, <2>1, <2>2 DEF ControlAnswer
<1>4. ASSUME NEW type \in FinalType, StatusAnswer(type) PROVE TypeOK'
  <2>1. AddressType' /\ apnState' \in GSM_APN_STATE /\ LostType'
    BY <1>4, TypeParts DEF StatusAnswer, AddressType, ApnType, LostType
  <2>2. TimerType'
    BY <1>4, Timers DEF StatusAnswer
  <2> QED BY <1>1, <1>4, <2>1, <2>2, StackType DEF StatusAnswer
<1>5. ASSUME NEW type \in FinalType, IpAnswer(type) PROVE TypeOK'
  <2>1. AddressType' /\ apnState' \in GSM_APN_STATE
    BY <1>5, TypeParts DEF IpAnswer, AddressType, ApnType, GSM_APN_STATE
  <2>2. /\ stack' \in Seq(Command) /\ Len(stack') <= OUT_MESSAGE_STACK_SIZE
        /\ lost' \subseteq lost \cup {"silent", "refused"}
    <3>1. CASE UNCHANGED stack /\ lost' = lost \cup IF answered THEN {} ELSE {"silent"}
      BY <3>1, StackType
    <3>2. CASE ForceCommand("CGATT", {})
      BY <3>2, CommandNames, Forced
    <3> QED BY <1>5, <3>1, <3>2 DEF IpAnswer
  <2>3. LostType'
    BY <2>2, TypeParts DEF LostType
  <2> QED BY <1>1, <1>5, <2>1, <2>2, <2>3, Timers DEF IpAnswer
<1>6. ASSUME NEW type \in FinalType, GattAnswer(type) PROVE TypeOK'
  <2>1. AddressType' /\ apnState' \in GSM_APN_STATE /\ LostType'
    BY <1>6, TypeParts DEF GattAnswer, AddressType, ApnType, LostType, GSM_APN_STATE
  <2> QED BY <1>1, <1>6, <2>1, StackType, Timers DEF GattAnswer
<1>7. CASE OtherAnswer
  <2>1. AddressType' /\ apnState' \in GSM_APN_STATE /\ LostType'
    BY <1>7, TypeParts DEF OtherAnswer, AddressType, ApnType, LostType
  <2> QED BY <1>1, <1>7, <2>1, StackType, Timers DEF OtherAnswer
<1> QED BY <1>2, <1>3, <1>4, <1>5, <1>6, <1>7 DEF Answers

LEMMA TypeStep ==
  ASSUME TypeOK, [Next]_vars
  PROVE  TypeOK'
<1>1. CASE Answers
  BY <1>1, AnswersTypes
<1>2. CASE StatusData
  <2>1. ApnType' /\ AddressType' /\ FlagType'
    BY <1>2, TypeParts DEF StatusData, ApnType, AddressType, FlagType
  <2>2. TimerType' /\ LostType' /\ stack' \in Seq(Command) /\ Len(stack') <= OUT_MESSAGE_STACK_SIZE
    <3>1. CASE ForceCommand("IP", {}) /\ UNCHANGED timer
      <4>1. "IP" \in Step
        BY CommandNames
      <4>2. LostType'
        BY <3>1, <4>1, Forced, TypeParts DEF LostType
      <4> QED BY <3>1, <4>1, <4>2, Forced, Timers
    <3>2. CASE CheckLater /\ UNCHANGED <<stack, lost>>
      BY <3>2, StackType, Timers, TypeParts DEF LostType
    <3> QED BY <1>2, <3>1, <3>2 DEF StatusData, StatusSays
  <2>3. StackOK'
    BY <1>2, <2>2, TypeParts DEF StatusData, StackOK
  <2> QED BY <2>1, <2>2, <2>3, TypePartsNext
<1>3. CASE IpData
  <2>1. ApnType' /\ AddressType' /\ FlagType' /\ LostType' /\ StackOK'
    BY <1>3, TypeParts DEF IpData, ApnType, AddressType, FlagType, LostType, StackOK
  <2> QED BY <1>3, <2>1, Timers, TypePartsNext DEF IpData
<1>4. CASE EventTaken
  <2>1. ApnType' /\ FlagType' /\ pending' = pending
    BY <1>4, TakenCases, TypeParts DEF ApnType, FlagType
  <2>2. AddressType'
    <3>1. profile' \in {"down", "rising", "up"}
      BY <1>4, TakenCases, TypeParts DEF AddressType
    <3>2. deviceAddr' \in {deviceAddr, "other"}
      BY <1>4, TakenCases
    <3> QED BY <3>1, <3>2, TypeParts DEF AddressType
  <2>3. TimerType' /\ LostType' /\ stack' \in Seq(Command) /\ Len(stack') <= OUT_MESSAGE_STACK_SIZE
    <3>1. CASE ForceCommand("IP", {"crossed"}) /\ UNCHANGED timer
      <4>1. "IP" \in Step
        BY CommandNames
      <4>2. LostType'
        BY <3>1, <4>1, Forced, TypeParts DEF LostType
      <4> QED BY <3>1, <4>1, <4>2, Forced, Timers
    <3>2. ASSUME UNCHANGED stack, lost' \subseteq lost \cup {"crossed", "silent"}, CheckLater \/ UNCHANGED timer
          PROVE  TimerType' /\ LostType' /\ stack' \in Seq(Command) /\ Len(stack') <= OUT_MESSAGE_STACK_SIZE
      BY <3>2, StackType, Timers, TypeParts DEF LostType
    <3> QED BY <1>4, <3>1, <3>2, TakenCases
  <2> QED BY <2>1, <2>2, <2>3, TypeParts, TypePartsNext DEF StackOK
<1>5. CASE DeactivatedEvent
  <2>1. "CGATT" \in Step /\ ForceCommand("CGATT", IF Steps = 0 THEN {} ELSE {"crossed"})
    BY <1>5, CommandNames DEF DeactivatedEvent
  <2>2. ApnType' /\ AddressType' /\ FlagType'
    BY <1>5, TypeParts DEF DeactivatedEvent, ApnType, AddressType, FlagType, GSM_APN_STATE
  <2>3. LostType'
    BY <2>1, Forced, TypeParts DEF LostType
  <2>4. StackOK'
    BY <1>5, <2>1, Forced, TypeParts DEF DeactivatedEvent, StackOK
  <2> QED BY <1>5, <2>2, <2>3, <2>4, Timers, TypePartsNext DEF DeactivatedEvent
<1>6. CASE ComesUp
  <2>1. ApnType' /\ AddressType' /\ FlagType' /\ LostType' /\ StackOK'
    BY <1>6, TypeParts DEF ComesUp, service, ApnType, AddressType, FlagType, LostType, StackOK
  <2> QED BY <1>6, <2>1, Timers, TypePartsNext DEF ComesUp
<1>7. ASSUME Attempt, given' \subseteq Text, TimerType', deviceAddr' \in {deviceAddr, "none"} PROVE TypeOK'
  <2>1. stack' \in Seq(Command) /\ Len(stack') <= OUT_MESSAGE_STACK_SIZE
    BY <1>7, Pushed, CommandNames DEF Attempt
  <2>2. ApnType' /\ AddressType' /\ FlagType' /\ StackOK'
    BY <1>7, <2>1, TypeParts DEF Attempt, ApnType, AddressType, FlagType, StackOK, GSM_APN_STATE
  <2>3. LostType'
    BY <1>7, TypeParts DEF Attempt, LostType
  <2> QED BY <1>7, <2>2, <2>3, TypePartsNext
<1>8. CASE \E texts \in Given : ConnectTo(texts)
  BY <1>7, <1>8, Timers, GprsAssumption DEF ConnectTo, FlushAuthData
<1>9. CASE Connect
  BY <1>7, <1>9, Timers, TypeParts DEF Connect, ApnType
<1>10. CASE Deactivate
  <2>1. "CGATT" \in Step /\ ForceCommand("CGATT", {})
    BY <1>10, CommandNames DEF Deactivate
  <2>2. ApnType' /\ AddressType' /\ FlagType'
    BY <1>10, TypeParts DEF Deactivate, ApnType, AddressType, FlagType, GSM_APN_STATE
  <2>3. LostType'
    BY <2>1, Forced, TypeParts DEF LostType
  <2>4. StackOK'
    BY <1>10, <2>1, Forced, TypeParts DEF Deactivate, StackOK
  <2> QED BY <1>10, <2>2, <2>3, <2>4, Timers, TypePartsNext DEF Deactivate
<1>11. CASE OtherCommand
  <2>1. stack' \in Seq(Command) /\ Len(stack') = Len(stack) + 1
    <3>1. "other" \in Command
      BY CommandNames
    <3>2. stack' = Append(stack, "other") \/ stack' = <<"other">> \o stack
      BY <1>11 DEF OtherCommand
    <3> QED BY <3>1, <3>2, StackType, CountAppend, CountPush
  <2>2. ApnType' /\ AddressType' /\ FlagType' /\ LostType' /\ StackOK'
    BY <1>11, <2>1, StackType, TypeParts DEF OtherCommand, HasRoom, ApnType, AddressType, FlagType,
       LostType, StackOK
  <2> QED BY <1>11, <2>2, Timers, TypePartsNext DEF OtherCommand
<1>12. CASE StartModem
  <2>1. ApnType' /\ AddressType' /\ FlagType' /\ LostType'
    BY <1>12 DEF StartModem, Reboots, FlushAuthData, ApnType, AddressType, FlagType, LostType, GSM_APN_STATE
  <2>2. StackOK'
    BY <1>12, GprsAssumption DEF StartModem, Reboots, StackOK
  <2> QED BY <1>12, <2>1, <2>2, Timers, TypePartsNext DEF StartModem
<1>13. CASE LoopSend
  <2>1. pending' \in Command /\ stack' \in Seq(Command) /\ Len(stack') <= OUT_MESSAGE_STACK_SIZE
    BY <1>13, StackType, CountPop DEF LoopSend
  <2>2. ApnType' /\ AddressType' /\ FlagType' /\ LostType' /\ StackOK'
    BY <1>13, <2>1, TypeParts DEF LoopSend, ApnType, AddressType, FlagType, LostType, StackOK
  <2> QED BY <1>13, <2>2, Timers, TypePartsNext DEF LoopSend
<1>14. CASE OnTimerComplete
  <2>1. "STATUS" \in Step /\ ForceCommand("STATUS", {})
    BY <1>14, CommandNames DEF OnTimerComplete
  <2>2. ApnType' /\ AddressType' /\ FlagType'
    BY <1>14, TypeParts DEF OnTimerComplete, ApnType, AddressType, FlagType
  <2>3. LostType'
    BY <2>1, Forced, TypeParts DEF LostType
  <2>4. StackOK'
    BY <1>14, <2>1, Forced, TypeParts DEF OnTimerComplete, StackOK
  <2>5. checkTimer' = FALSE /\ timers' = 0
    BY <1>14 DEF OnTimerComplete, TypeOK
  <2>6. timers' \in {0, 1} /\ timers' # 1
    BY <2>5
  <2>7. TimerType'
    BY <2>5, <2>6 DEF TimerType
  <2> QED BY <2>2, <2>3, <2>4, <2>7, TypePartsNext
<1>15. CASE BootCompletes
  <2>1. ApnType' /\ AddressType' /\ FlagType' /\ LostType' /\ StackOK'
    BY <1>15, TypeParts DEF BootCompletes, ApnType, AddressType, FlagType, LostType, StackOK
  <2> QED BY <1>15, <2>1, Timers, TypePartsNext DEF BootCompletes
<1>16. CASE UNCHANGED vars
  <2>1. ApnType' /\ AddressType' /\ FlagType' /\ LostType' /\ StackOK'
    BY <1>16, TypeParts DEF vars, service, ApnType, AddressType, FlagType, LostType, StackOK
  <2> QED BY <1>16, <2>1, Timers, TypePartsNext DEF vars
<1> QED BY <1>1, <1>2, <1>3, <1>4, <1>5, <1>6, <1>8, <1>9, <1>10, <1>11, <1>12, <1>13, <1>14, <1>15,
           <1>16 DEF Next, Users

-----------------------------------------------------------------------------
(* One step at a time                                                      *)

OnLine == IF pending \in Step /\ ~(pending = "STATUS" /\ answered) THEN 1 ELSE 0

StepsInv ==
  "crossed" \notin lost =>
    IF apnState \in {"ACTIVATING", "DEACTIVATING"}
    THEN Steps = 1 \/ (Steps = 0 /\ lost # {})
    ELSE Steps = 0

LEMMA StepsAre ==
  ASSUME TypeOK
  PROVE  /\ Steps = N(stack) + timers + OnLine
         /\ Steps' = N(stack') + timers' + OnLine'
         /\ N(stack) \in Nat /\ timers \in {0, 1} /\ OnLine \in {0, 1}
<1>1. Steps = N(stack) + timers + OnLine
  BY DEF Steps, N, At, OnLine
<1>2. Steps' = N(stack') + timers' + OnLine'
  BY DEF Steps, N, At, OnLine
<1>3. N(stack) \in Nat /\ timers \in {0, 1} /\ OnLine \in {0, 1}
  BY StackType, CountType, Timers DEF OnLine
<1> QED BY <1>1, <1>2, <1>3

\* The state stays, and so do the steps, or one was refused.
LEMMA StepsStay ==
  ASSUME TypeOK, StepsInv, UNCHANGED apnState, lost \subseteq lost',
         Steps' = Steps \/ (Steps = 1 /\ Steps' = 0 /\ lost' # {})
  PROVE  StepsInv'
BY DEF StepsInv, TypeOK, GSM_APN_STATE

\* Where a step is, the handler is activating or deactivating.
LEMMA StepIsSole ==
  ASSUME TypeOK, StepsInv, "crossed" \notin lost, Steps >= 1
  PROVE  Steps = 1 /\ apnState \in {"ACTIVATING", "DEACTIVATING"}
BY StepsAre DEF StepsInv

LEMMA StepsStep ==
  ASSUME TypeOK, StepsInv, [Next]_vars
  PROVE  StepsInv'
<1> USE StepsAre, CommandNames
<1>1. ASSUME NEW type \in FinalType, NEW c \in Setting, ConfigAnswer(c, type) PROVE StepsInv'
  <2>1. pending = c /\ pending' = "none" /\ OnLine = 1 /\ OnLine' = 0 /\ timers' = timers
    BY <1>1 DEF ConfigAnswer, Final, OnLine, timer
  <2>2. PICK d \in Step : ForceCommand(d, {})
    BY <1>1 DEF ConfigAnswer, Fails
  <2>3. lost \subseteq lost' /\ (N(stack') = N(stack) + 1 \/ (N(stack') = N(stack) /\ "refused" \in lost'))
    BY <2>2, Forced
  <2>4. Steps >= 1 /\ (Steps' = Steps \/ (Steps' = Steps - 1 /\ "refused" \in lost'))
    BY <2>1, <2>3
  <2>5. apnState' = apnState \/ apnState' = "DEACTIVATING"
    BY <1>1 DEF ConfigAnswer, Fails
  <2> QED BY <2>3, <2>4, <2>5, StepIsSole DEF StepsInv
<1>2. ASSUME NEW type \in FinalType, ControlAnswer(type) PROVE StepsInv'
  <2>1. pending = "UPSDA" /\ pending' = "none" /\ OnLine = 1 /\ OnLine' = 0
    BY <1>2 DEF ControlAnswer, Final, OnLine
  <2>2. CASE CheckLater /\ UNCHANGED <<apnState, stack, lost>>
    BY <2>1, <2>2, Timers, StepIsSole DEF StepsInv
  <2>3. CASE Fails({}) /\ UNCHANGED <<timer, profile>>
    <3>1. lost \subseteq lost' /\ (N(stack') = N(stack) + 1 \/ (N(stack') = N(stack) /\ "refused" \in lost'))
      BY <2>3, Forced DEF Fails
    <3>2. Steps >= 1 /\ (Steps' = Steps \/ (Steps' = Steps - 1 /\ "refused" \in lost'))
      BY <2>1, <2>3, <3>1 DEF timer
    <3> QED BY <2>3, <3>1, <3>2, StepIsSole DEF StepsInv, Fails
  <2> QED BY <1>2, <2>2, <2>3 DEF ControlAnswer
<1>3. ASSUME NEW type \in FinalType, StatusAnswer(type) PROVE StepsInv'
  <2>1. /\ pending = "STATUS" /\ pending' = "none" /\ OnLine' = 0
        /\ OnLine = IF answered THEN 0 ELSE 1
        /\ N(stack') = N(stack) /\ apnState' = apnState /\ lost \subseteq lost'
    BY <1>3 DEF StatusAnswer, Final, OnLine
  <2>2. CASE lost' = lost \cup (IF answered THEN {} ELSE {"silent"}) /\ UNCHANGED timer
    <3>1. Steps' = Steps - OnLine
      BY <2>1, <2>2 DEF timer
    <3> QED BY <2>1, <2>2, <3>1, StepIsSole DEF StepsInv
  <2>3. CASE CheckLater /\ lost' = lost \cup IF answered THEN {"crossed"} ELSE {}
    <3>1. CASE answered
      BY <2>3, <3>1 DEF StepsInv
    <3>2. CASE ~answered
      <4>1. "crossed" \notin lost' => Steps = 1 /\ timers = 0
        BY <2>1, <2>3, <3>2, StepIsSole
      <4> QED BY <2>1, <2>3, <3>2, <4>1, Timers, StepIsSole DEF StepsInv
    <3> QED BY <3>1, <3>2
  <2> QED BY <1>3, <2>2, <2>3 DEF StatusAnswer
<1>4. ASSUME NEW type \in FinalType, IpAnswer(type) PROVE StepsInv'
  <2>1. pending = "IP" /\ pending' = "none" /\ OnLine = 1 /\ OnLine' = 0 /\ timers' = timers
    BY <1>4 DEF IpAnswer, Final, OnLine, timer
  <2>2. CASE /\ apnState' = "ACTIVE" /\ UNCHANGED stack
             /\ lost' = lost \cup IF answered THEN {} ELSE {"silent"}
    BY <2>1, <2>2, StepIsSole DEF StepsInv
  <2>3. CASE ForceCommand("CGATT", {}) /\ UNCHANGED apnState
    <3>1. lost \subseteq lost' /\ (N(stack') = N(stack) + 1 \/ (N(stack') = N(stack) /\ "refused" \in lost'))
      BY <2>3, Forced
    <3>2. Steps >= 1 /\ (Steps' = Steps \/ (Steps' = Steps - 1 /\ "refused" \in lost'))
      BY <2>1, <3>1
    <3> QED BY <2>3, <3>1, <3>2, StepIsSole DEF StepsInv
  <2> QED BY <1>4, <2>2, <2>3 DEF IpAnswer
<1>5. ASSUME NEW type \in FinalType, GattAnswer(type) PROVE StepsInv'
  <2>1. /\ pending = "CGATT" /\ pending' = "none" /\ OnLine = 1 /\ OnLine' = 0
        /\ timers' = timers /\ stack' = stack /\ lost' = lost /\ apnState' = "DEACTIVATED"
    BY <1>5 DEF GattAnswer, Final, OnLine, timer
  <2> QED BY <2>1, StepIsSole DEF StepsInv
<1>6. ASSUME UNCHANGED <<apnState, lost>>, Steps' = Steps PROVE StepsInv'
  BY <1>6, StepsStay
<1>7. CASE OtherAnswer
  <2>1. /\ pending = "other" /\ pending' = "none" /\ OnLine = 0 /\ OnLine' = 0
        /\ timers' = timers /\ stack' = stack /\ lost' = lost /\ apnState' = apnState
    BY <1>7 DEF OtherAnswer, Final, OnLine, timer
  <2> QED BY <1>6, <2>1
<1>8. CASE StatusData
  <2>1. pending = "STATUS" /\ OnLine = 1 /\ OnLine' = 0 /\ apnState' = apnState
    BY <1>8 DEF StatusData, OnLine
  <2>2. CASE ForceCommand("IP", {}) /\ UNCHANGED timer
    <3>1. lost \subseteq lost' /\ (N(stack') = N(stack) + 1 \/ (N(stack') = N(stack) /\ "refused" \in lost'))
      BY <2>2, Forced
    <3>2. Steps >= 1 /\ (Steps' = Steps \/ (Steps' = Steps - 1 /\ "refused" \in lost'))
      BY <2>1, <2>2, <3>1 DEF timer
    <3> QED BY <2>1, <3>1, <3>2, StepIsSole DEF StepsInv
  <2>3. CASE CheckLater /\ UNCHANGED <<stack, lost>>
    <3>1. "crossed" \notin lost => Steps = 1 /\ timers = 0
      BY <2>1, StepIsSole
    <3> QED BY <2>1, <2>3, <3>1, Timers, StepIsSole DEF StepsInv
  <2> QED BY <1>8, <2>2, <2>3 DEF StatusData, StatusSays
<1>9. CASE IpData
  <2>1. pending = "IP" /\ OnLine' = OnLine /\ timers' = timers /\ UNCHANGED <<stack, apnState, lost>>
    BY <1>9 DEF IpData, OnLine, timer
  <2> QED BY <1>6, <2>1
<1>10. CASE EventTaken
  <2>1. /\ UNCHANGED <<apnState, pending, answered>> /\ OnLine' = OnLine
        /\ "crossed" \in lost' \/ (UNCHANGED <<stack, timer>> /\ lost \subseteq lost')
    <3>1. UNCHANGED <<apnState, pending, answered>>
      BY <1>10, TakenCases
    <3>2. OnLine' = OnLine
      BY <3>1 DEF OnLine
    <3>3. ForceCommand("IP", {"crossed"}) => "crossed" \in lost'
      BY Forced
    <3> QED BY <1>10, <3>1, <3>2, <3>3, TakenCases
  <2>2. CASE "crossed" \in lost'
    BY <2>2 DEF StepsInv
  <2>3. CASE UNCHANGED <<stack, timer>> /\ lost \subseteq lost'
    <3>1. Steps' = Steps
      BY <2>1, <2>3 DEF timer
    <3> QED BY <2>1, <2>3, <3>1, StepsStay
  <2> QED BY <2>1, <2>2, <2>3
<1>11. CASE DeactivatedEvent
  <2>1. /\ timers' = timers /\ OnLine = 0 /\ OnLine' = 0 /\ apnState' = "DEACTIVATING"
        /\ ForceCommand("CGATT", IF Steps = 0 THEN {} ELSE {"crossed"})
    BY <1>11 DEF DeactivatedEvent, OnLine, timer
  <2>2. /\ Steps = 0 \/ "crossed" \in lost'
        /\ N(stack') = N(stack) + 1 \/ (N(stack') = N(stack) /\ "refused" \in lost')
    BY <2>1, Forced
  <2>3. Steps = 0 => Steps' = 1 \/ (Steps' = 0 /\ "refused" \in lost')
    BY <2>1, <2>2
  <2> QED BY <2>1, <2>2, <2>3 DEF StepsInv
<1>12. CASE ComesUp
  <2>1. OnLine' = OnLine /\ timers' = timers /\ UNCHANGED <<stack, apnState, lost>>
    BY <1>12 DEF ComesUp, OnLine, timer, service
  <2> QED BY <1>6, <2>1
<1>13. ASSUME Attempt, timers' = timers \/ timers' = 0 PROVE StepsInv'
  <2>1. apnState = "DEACTIVATED" /\ apnState' = "ACTIVATING" /\ OnLine' = OnLine
    BY <1>13 DEF Attempt, OnLine
  <2>2. CASE Steps = 0
    <3>1. N(stack) = 0 /\ timers = 0 /\ OnLine = 0
      BY <2>2
    <3>2. N(stack') = 1 \/ (N(stack') = 0 /\ "refused" \in lost')
      BY <1>13, <3>1, Pushed DEF Attempt
    <3> QED BY <1>13, <2>1, <3>1, <3>2 DEF StepsInv
  <2>3. CASE Steps # 0
    <3>1. "crossed" \in lost
      BY <2>1, <2>3, StepIsSole
    <3> QED BY <1>13, <2>3, <3>1 DEF Attempt, StepsInv
  <2> QED BY <2>2, <2>3
<1>14. CASE (\E texts \in Given : ConnectTo(texts)) \/ Connect
  BY <1>13, <1>14, Timers DEF ConnectTo, Connect
<1>15. CASE Deactivate
  <2>1. /\ timers' = timers /\ OnLine' = OnLine /\ apnState' = "DEACTIVATING" /\ apnState = "ACTIVE"
        /\ ForceCommand("CGATT", {})
    BY <1>15 DEF Deactivate, OnLine, timer
  <2>2. /\ lost \subseteq lost'
        /\ N(stack') = N(stack) + 1 \/ (N(stack') = N(stack) /\ "refused" \in lost')
    BY <2>1, Forced
  <2>3. "crossed" \notin lost => Steps = 0
    BY <2>1 DEF StepsInv
  <2> QED BY <2>1, <2>2, <2>3 DEF StepsInv
<1>16. CASE OtherCommand
  <2>1. timers' = timers /\ OnLine' = OnLine /\ UNCHANGED <<apnState, lost>>
    BY <1>16 DEF OtherCommand, OnLine, timer
  <2>2. stack' = Append(stack, "other") \/ stack' = <<"other">> \o stack
    BY <1>16 DEF OtherCommand
  <2>3. N(stack') = N(stack)
    <3>1. N(Append(stack, "other")) = N(stack)
      BY StackType, CountAppend
    <3>2. N(<<"other">> \o stack) = N(stack) + 0 /\ N(stack) \in Nat
      BY StackType, CountPush, CountType
    <3>3. N(<<"other">> \o stack) = N(stack)
      BY <3>2
    <3>4. CASE stack' = Append(stack, "other")
      BY <3>1, <3>4
    <3>5. CASE stack' = <<"other">> \o stack
      BY <3>3, <3>5
    <3> QED BY <2>2, <3>4, <3>5
  <2> QED BY <1>6, <2>1, <2>3
<1>17. CASE StartModem
  <2>1. /\ timers' = 0 /\ OnLine' = 0 /\ stack' = <<>> /\ apnState' = "DEACTIVATED"
    BY <1>17, Timers DEF StartModem, Reboots, OnLine
  <2> QED BY <2>1, CountEmpty DEF StepsInv
<1>18. CASE LoopSend
  <2>1. /\ stack # <<>> /\ stack \in Seq(Command) /\ pending = "none" /\ pending' = Head(stack)
        /\ stack' = Tail(stack) /\ answered' = FALSE /\ timers' = timers /\ UNCHANGED <<apnState, lost>>
    BY <1>18, StackType DEF LoopSend, timer
  <2>2. OnLine = 0 /\ OnLine' = IF Head(stack) \in Step THEN 1 ELSE 0
    BY <2>1 DEF OnLine
  <2>3. /\ N(stack) = N(Tail(stack)) + IF Head(stack) \in Step THEN 1 ELSE 0
        /\ N(Tail(stack)) \in Nat
    BY <2>1, CountPop, CountType
  <2> QED BY <1>6, <2>1, <2>2, <2>3
<1>19. CASE OnTimerComplete
  <2>1. /\ timers = 1 /\ timers' = 0 /\ OnLine' = OnLine /\ UNCHANGED apnState
        /\ ForceCommand("STATUS", {})
    BY <1>19 DEF OnTimerComplete, OnLine, TypeOK
  <2>2. lost \subseteq lost' /\ (N(stack') = N(stack) + 1 \/ (N(stack') = N(stack) /\ "refused" \in lost'))
    BY <2>1, Forced
  <2>3. Steps >= 1 /\ (Steps' = Steps \/ (Steps' = Steps - 1 /\ "refused" \in lost'))
    BY <2>1, <2>2
  <2> QED BY <2>1, <2>2, <2>3, StepIsSole DEF StepsInv
<1>20. CASE BootCompletes
  <2>1. OnLine' = OnLine /\ timers' = timers /\ UNCHANGED <<stack, apnState, lost>>
    BY <1>20 DEF BootCompletes, OnLine, timer
  <2> QED BY <1>6, <2>1
<1>21. CASE UNCHANGED vars
  <2>1. OnLine' = OnLine /\ timers' = timers /\ UNCHANGED <<stack, apnState, lost>>
    BY <1>21 DEF vars, service, OnLine, timer
  <2> QED BY <1>6, <2>1
<1> QED BY <1>1, <1>2, <1>3, <1>4, <1>5, <1>7, <1>8, <1>9, <1>10, <1>11, <1>12, <1>14, <1>15, <1>16,
           <1>17, <1>18, <1>19, <1>20, <1>21 DEF Next, Answers, Users

-----------------------------------------------------------------------------
(* What ACTIVE means                                                       *)

\* The address is asked for when the profile is up, and it stays up until the
\* handler is active or has begun to deactivate.
UpInv ==
  lost = {} =>
    /\ apnState = "ACTIVE" => profile = "up" /\ deviceAddr = "current"
    /\ Waits("IP") => profile = "up"
    /\ pending = "IP" /\ answered => deviceAddr = "current"

Has(s, c) == \E i \in DOMAIN s : s[i] = c

LEMMA HasCounts ==
  ASSUME NEW s \in Seq(Command), Has(s, "IP")
  PROVE  N(s) >= 1
BY CountType, CommandNames DEF Has

\* Where another step is on the line or none is, the address is not asked for.
LEMMA NoneAsked ==
  ASSUME TypeOK, Waits("IP"), Steps <= 1, StepsInv
  PROVE  /\ Steps = 1
         /\ OnLine = 1 => pending = "IP"
         /\ timers = 0
<1>1. pending = "IP" \/ Has(stack, "IP")
  BY DEF Waits, Has
<1>2. pending = "IP" => OnLine = 1
  BY CommandNames DEF OnLine
<1>3. Has(stack, "IP") => N(stack) >= 1
  BY StackType, HasCounts
<1> QED BY <1>1, <1>2, <1>3, StepsAre

\* A push of a command puts nothing else in the stack.
LEMMA HasPushed ==
  ASSUME NEW s \in Seq(Command), NEW c \in Command, Has(<<c>> \o s, "IP")
  PROVE  c = "IP" \/ Has(s, "IP")
<1> DEFINE t == <<c>> \o s
<1>1. /\ Len(t) = Len(s) + 1 /\ t[1] = c /\ t \in Seq(Command)
      /\ \A i \in 2 .. Len(t) : t[i] = s[i - 1]
  OBVIOUS
<1>2. \A i \in DOMAIN t : i = 1 \/ (i - 1 \in DOMAIN s /\ t[i] = s[i - 1])
  BY <1>1
<1> HIDE DEF t
<1>3. Has(t, "IP") => c = "IP" \/ Has(s, "IP")
  BY <1>1, <1>2 DEF Has
<1> QED BY <1>3 DEF t

LEMMA WaitsForced ==
  ASSUME TypeOK, NEW c \in Step, c # "IP",
         stack' = IF HasRoom THEN <<c>> \o stack ELSE stack, pending' \in {pending, "none"}, Waits("IP")'
  PROVE  Waits("IP") /\ (pending' = "none" => Has(stack, "IP"))
<1>1. c \in Command
  BY CommandNames
<1>2. Has(stack', "IP") => Has(stack, "IP")
  BY <1>1, StackType, HasPushed
<1> QED BY <1>2 DEF Waits, Has

LEMMA WaitsOther ==
  ASSUME TypeOK, stack' = Append(stack, "other") \/ stack' = <<"other">> \o stack,
         UNCHANGED pending, Waits("IP")'
  PROVE  Waits("IP")
<1>1. "other" \in Command
  BY CommandNames
<1>2. CASE stack' = <<"other">> \o stack
  BY <1>1, <1>2, StackType, HasPushed DEF Waits, Has
<1>3. CASE stack' = Append(stack, "other")
  <2>1. /\ DOMAIN stack' = 1 .. Len(stack) + 1 /\ DOMAIN stack = 1 .. Len(stack)
        /\ stack'[Len(stack) + 1] = "other" /\ \A i \in 1 .. Len(stack) : stack'[i] = stack[i]
    BY <1>1, <1>3, StackType
  <2> QED BY <2>1, StackType DEF Waits
<1> QED BY <1>2, <1>3

LEMMA WaitsSent ==
  ASSUME TypeOK, LoopSend, Waits("IP")'
  PROVE  Waits("IP")
<1>1. stack \in Seq(Command) /\ stack # <<>> /\ pending' = Head(stack) /\ stack' = Tail(stack)
  BY StackType DEF LoopSend
<1>2. /\ Head(stack) = stack[1] /\ 1 \in DOMAIN stack
      /\ \A i \in DOMAIN stack' : i + 1 \in DOMAIN stack /\ stack'[i] = stack[i + 1]
  BY <1>1, HeadTailProperties
<1> QED BY <1>1, <1>2 DEF Waits

\* A step that leaves the state, the profile and the address alone.
LEMMA UpStays ==
  ASSUME UpInv, UNCHANGED <<profile, deviceAddr>>, lost \subseteq lost',
         apnState' = "ACTIVE" => apnState = "ACTIVE",
         Waits("IP")' => Waits("IP"),
         pending' = "IP" /\ answered' => pending = "IP" /\ answered
  PROVE  UpInv'
BY DEF UpInv

LEMMA UpStep ==
  ASSUME TypeOK, StepsInv, UpInv, [Next]_vars
  PROVE  UpInv'
<1> USE CommandNames
<1>1. ASSUME ~Waits("IP")', apnState' # "ACTIVE" PROVE UpInv'
  BY <1>1 DEF UpInv, Waits
<1>2. ASSUME lost = {}, pending \in Step \ {"STATUS", "IP"}
      PROVE  ~Waits("IP") /\ apnState # "ACTIVE"
  <2>1. OnLine = 1
    BY <1>2 DEF OnLine
  <2>2. Steps = 1 /\ apnState # "ACTIVE"
    BY <1>2, <2>1, StepsAre, StepIsSole
  <2> QED BY <1>2, <2>1, <2>2, NoneAsked
<1>3. ASSUME lost' # {} PROVE UpInv'
  BY <1>3 DEF UpInv
<1>4. ASSUME NEW type \in FinalType, NEW c \in Setting, ConfigAnswer(c, type) PROVE UpInv'
  <2>1. pending = c /\ pending' = "none" /\ (apnState' = "ACTIVE" => apnState = "ACTIVE")
    BY <1>4 DEF ConfigAnswer, Final, Fails
  <2>2. PICK d \in Step \ {"IP"} : ForceCommand(d, {})
    BY <1>4 DEF ConfigAnswer, Fails
  <2>3. lost \subseteq lost' /\ stack' = IF HasRoom THEN <<d>> \o stack ELSE stack
    BY <2>2 DEF ForceCommand
  <2>4. Waits("IP")' => Waits("IP")
    BY <2>1, <2>3, WaitsForced
  <2> QED BY <1>1, <1>2, <1>3, <2>1, <2>3, <2>4
<1>5. ASSUME NEW type \in FinalType, ControlAnswer(type) PROVE UpInv'
  <2>1. pending = "UPSDA" /\ pending' = "none"
    BY <1>5 DEF ControlAnswer, Final
  <2>2. CASE UNCHANGED <<apnState, stack, lost>>
    BY <1>1, <1>2, <1>3, <2>1, <2>2 DEF Waits
  <2>3. CASE Fails({})
    <3>1. /\ lost \subseteq lost' /\ stack' = (IF HasRoom THEN <<"CGATT">> \o stack ELSE stack)
          /\ apnState' = "DEACTIVATING"
      BY <2>3 DEF Fails, ForceCommand
    <3>2. Waits("IP")' => Waits("IP")
      BY <2>1, <3>1, WaitsForced
    <3> QED BY <1>1, <1>2, <1>3, <2>1, <3>1, <3>2
  <2> QED BY <1>5, <2>2, <2>3 DEF ControlAnswer
<1>6. ASSUME NEW type \in FinalType, StatusAnswer(type) PROVE UpInv'
  <2>1. UNCHANGED <<apnState, profile, deviceAddr, stack>> /\ lost \subseteq lost' /\ pending' = "none"
    BY <1>6 DEF StatusAnswer, Final
  <2> QED BY <2>1, UpStays DEF Waits
<1>7. ASSUME NEW type \in FinalType, IpAnswer(type) PROVE UpInv'
  <2>1. pending = "IP" /\ pending' = "none" /\ UNCHANGED <<profile, deviceAddr>> /\ Waits("IP")
    BY <1>7 DEF IpAnswer, Final, Waits
  <2>2. CASE /\ apnState' = "ACTIVE" /\ UNCHANGED stack
             /\ lost' = lost \cup IF answered THEN {} ELSE {"silent"}
    BY <2>1, <2>2 DEF UpInv
  <2>3. CASE ForceCommand("CGATT", {}) /\ UNCHANGED apnState
    BY <2>1, <2>3, UpStays DEF ForceCommand
  <2> QED BY <1>7, <2>2, <2>3 DEF IpAnswer
<1>8. ASSUME NEW type \in FinalType, GattAnswer(type) PROVE UpInv'
  <2>1. pending = "CGATT" /\ pending' = "none" /\ UNCHANGED <<stack, lost>> /\ apnState' = "DEACTIVATED"
    BY <1>8 DEF GattAnswer, Final
  <2> QED BY <1>1, <1>2, <1>3, <2>1 DEF Waits
<1>9. CASE OtherAnswer \/ BootCompletes \/ UNCHANGED vars
  <2>1. /\ UNCHANGED <<apnState, profile, deviceAddr, stack, lost>>
        /\ pending' = "none" \/ UNCHANGED <<pending, answered>>
    BY <1>9 DEF OtherAnswer, Final, BootCompletes, vars, service
  <2> QED BY <2>1, UpStays DEF Waits
<1>10. CASE StatusData
  <2>1. pending = "STATUS" /\ UNCHANGED <<apnState, profile, deviceAddr, pending>>
    BY <1>10 DEF StatusData
  <2>2. CASE profile = "up" /\ ForceCommand("IP", {})
    <3>1. lost \subseteq lost'
      BY <2>2 DEF ForceCommand
    <3> QED BY <2>1, <2>2, <3>1 DEF UpInv
  <2>3. CASE UNCHANGED <<stack, lost>>
    BY <2>1, <2>3, UpStays DEF Waits
  <2> QED BY <1>10, <2>2, <2>3 DEF StatusData, StatusSays
<1>11. CASE IpData
  <2>1. /\ pending = "IP" /\ Waits("IP") /\ UNCHANGED <<apnState, profile, stack, pending, lost>>
        /\ profile = "up" => deviceAddr' = "current"
    BY <1>11 DEF IpData, Waits
  <2> QED BY <2>1 DEF UpInv
<1>12. CASE EventTaken
  <2>1. ForceCommand("IP", {"crossed"}) => lost' # {}
    BY DEF ForceCommand
  <2>2. CASE lost' # {}
    BY <1>3, <2>2
  <2>3. CASE lost' = {}
    <3>1. UNCHANGED <<apnState, pending, answered, profile, deviceAddr, stack>> /\ lost = {}
      BY <1>12, <2>1, <2>3, TakenCases
    <3> QED BY <2>3, <3>1, UpStays DEF Waits
  <2> QED BY <2>2, <2>3
<1>13. CASE DeactivatedEvent
  <2>1. /\ pending' = pending /\ apnState' = "DEACTIVATING"
        /\ stack' = IF HasRoom THEN <<"CGATT">> \o stack ELSE stack
        /\ Steps = 0 \/ lost' # {}
    BY <1>13 DEF DeactivatedEvent, ForceCommand
  <2>2. Waits("IP")' => Waits("IP")
    BY <2>1, WaitsForced
  <2>3. Steps = 0 => ~Waits("IP")
    BY NoneAsked
  <2> QED BY <1>1, <1>3, <2>1, <2>2, <2>3
<1>14. CASE ComesUp
  <2>1. profile = "rising" /\ UNCHANGED <<apnState, stack, pending, answered, lost>>
    BY <1>14 DEF ComesUp, service
  <2>2. lost = {} => ~Waits("IP") /\ apnState # "ACTIVE"
    BY <2>1 DEF UpInv
  <2> QED BY <1>1, <1>3, <2>1, <2>2 DEF Waits
<1>15. CASE (\E texts \in Given : ConnectTo(texts)) \/ Connect
  <2>1. Attempt
    BY <1>15 DEF ConnectTo, Connect
  <2>2. /\ apnState = "DEACTIVATED" /\ apnState' = "ACTIVATING" /\ pending' = pending
        /\ stack' = IF HasRoom THEN <<"APN">> \o stack ELSE stack
        /\ Steps = 0 \/ lost \subseteq lost'
    BY <2>1 DEF Attempt
  <2>3. lost = {} => Steps = 0
    BY <2>2 DEF StepsInv
  <2>4. Steps = 0 => ~Waits("IP")
    BY NoneAsked
  <2>5. Waits("IP")' => Waits("IP")
    BY <2>2, WaitsForced
  <2> QED BY <1>1, <1>3, <2>2, <2>3, <2>4, <2>5
<1>16. CASE Deactivate \/ OnTimerComplete
  <2>1. /\ UNCHANGED <<profile, deviceAddr, pending, answered>>
        /\ apnState' = "ACTIVE" => apnState = "ACTIVE"
    BY <1>16 DEF Deactivate, OnTimerComplete
  <2>2. PICK d \in Step \ {"IP"} : ForceCommand(d, {})
    BY <1>16 DEF Deactivate, OnTimerComplete
  <2>3. lost \subseteq lost' /\ stack' = IF HasRoom THEN <<d>> \o stack ELSE stack
    BY <2>2 DEF ForceCommand
  <2>4. Waits("IP")' => Waits("IP")
    BY <2>1, <2>3, WaitsForced
  <2> QED BY <2>1, <2>3, <2>4, UpStays
<1>17. CASE OtherCommand
  <2>1. UNCHANGED <<apnState, profile, deviceAddr, pending, answered, lost>>
    BY <1>17 DEF OtherCommand
  <2>2. Waits("IP")' => Waits("IP")
    BY <1>17, <2>1, WaitsOther DEF OtherCommand
  <2> QED BY <2>1, <2>2, UpStays
<1>18. CASE StartModem
  <2>1. stack' = <<>> /\ pending' = "none" /\ apnState' = "DEACTIVATED"
    BY <1>18 DEF StartModem, Reboots
  <2> QED BY <1>1, <2>1 DEF Waits
<1>19. CASE LoopSend
  <2>1. UNCHANGED <<apnState, profile, deviceAddr, lost>> /\ answered' = FALSE
    BY <1>19 DEF LoopSend
  <2> QED BY <1>19, <2>1, WaitsSent, UpStays
<1> QED BY <1>4, <1>5, <1>6, <1>7, <1>8, <1>9, <1>10, <1>11, <1>12, <1>13, <1>14, <1>15, <1>16, <1>17,
           <1>18, <1>19 DEF Next, Answers, Users

-----------------------------------------------------------------------------
(* The theorems                                                            *)

IInv == TypeOK /\ StepsInv /\ UpInv

LEMMA Inductive == Spec => []IInv
<1>1. Init => IInv
  <2> SUFFICES ASSUME Init PROVE IInv
    OBVIOUS
  <2>1. ApnType /\ AddressType /\ FlagType /\ LostType
    BY DEF Init, ApnType, AddressType, FlagType, LostType, GSM_APN_STATE
  <2>2. StackOK
    BY GprsAssumption DEF Init, StackOK
  <2>3. TimerType
    <3>1. timers \in {0, 1} /\ timers # 1 /\ checkTimer = FALSE
      BY DEF Init
    <3> QED BY <3>1 DEF TimerType
  <2>4. TypeOK
    BY <2>1, <2>2, <2>3, TypeParts
  <2>5. stack = <<>> /\ timers = 0 /\ OnLine = 0 /\ apnState = "DEACTIVATED"
    BY CommandNames DEF Init, OnLine
  <2>6. StepsInv
    BY <2>4, <2>5, StepsAre, CountEmpty DEF StepsInv
  <2>7. UpInv
    BY DEF Init, UpInv, Waits
  <2> QED BY <2>4, <2>6, <2>7 DEF IInv
<1>2. IInv /\ [Next]_vars => IInv'
  BY TypeStep, StepsStep, UpStep DEF IInv
<1> QED BY <1>1, <1>2, PTL DEF Spec

\* GPRSHandler::OnGSMResponse and OnTimerComplete: one step at a time while the handler
\* activates or deactivates and none before and after, unless a poll was crossed.
THEOREM StepIsOne == Spec => []OneStep
<1>1. IInv => OneStep
  BY DEF IInv, StepsInv, OneStep
<1> QED BY <1>1, Inductive, PTL

\* GPRSHandler::IsActive and GetDeviceAddr: an active handler's profile is up and its
\* address is that of the profile, unless an answer had no data or an event was lost.
THEOREM ActiveHasAddress == Spec => []ActiveIsUp
<1>1. IInv => ActiveIsUp
  BY DEF IInv, UpInv, ActiveIsUp
<1> QED BY <1>1, Inductive, PTL

=============================================================================
