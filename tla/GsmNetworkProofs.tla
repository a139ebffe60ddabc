--------------------------- MODULE GsmNetworkProofs ---------------------------
(***************************************************************************)
(* The chain of the set-up, the poll, texts and calling numbers for every  *)
(* capacity of the command stack and any traffic of other handlers.        *)
(***************************************************************************)
EXTENDS GsmNetwork, FiniteSetTheorems, SequenceTheorems, TLAPS

-----------------------------------------------------------------------------
(* The settings by name                                                    *)

LEMMA SettingNames ==
  /\ DOMAIN Settings = 1 .. 9
  /\ Setting = {"CREG", "USTS", "CMGF", "CNMI", "UDCONF", "CTZU", "UDTMFD", "UREG", "UCALLSTAT"}
  /\ \A k \in 1 .. 9 : Settings[k] = "UCALLSTAT" <=> k = 9
  /\ \A j, k \in 1 .. 9 : Settings[j] = Settings[k] => j = k
<1>1. DOMAIN Settings = 1 .. 9
  BY DEF Settings
<1>2. /\ Settings[1] = "CREG" /\ Settings[2] = "USTS" /\ Settings[3] = "CMGF"
      /\ Settings[4] = "CNMI" /\ Settings[5] = "UDCONF" /\ Settings[6] = "CTZU"
      /\ Settings[7] = "UDTMFD" /\ Settings[8] = "UREG" /\ Settings[9] = "UCALLSTAT"
  BY DEF Settings
<1>3. 1 .. 9 = {1, 2, 3, 4, 5, 6, 7, 8, 9}
  OBVIOUS
<1>4. Setting = {"CREG", "USTS", "CMGF", "CNMI", "UDCONF", "CTZU", "UDTMFD", "UREG", "UCALLSTAT"}
  BY <1>1, <1>2, <1>3 DEF Setting
<1>5. \A j, k \in 1 .. 9 : Settings[j] = Settings[k] => j = k
  BY <1>2, <1>3
<1> QED BY <1>1, <1>2, <1>3, <1>4, <1>5

LEMMA AfterIsNext ==
  ASSUME NEW k \in 1 .. 8
  PROVE  After(Settings[k]) = Settings[k + 1]
<1>1. (CHOOSE i \in DOMAIN Settings : Settings[i] = Settings[k]) = k
  BY SettingNames
<1> QED BY <1>1 DEF After

\* Commands of the chain, and those that are not.
LEMMA CommandNames ==
  /\ ChainCommand \subseteq Command /\ Setting \subseteq ChainCommand
  /\ "CPIN?" \in ChainCommand /\ "CPIN" \in ChainCommand
  /\ "CPIN?" \notin Setting /\ "CPIN" \notin Setting
  /\ \A c \in {"CCLK", "CSQ", "CLCC", "other"} : c \in Command /\ c \notin ChainCommand
  /\ "none" \notin Command
  /\ \A c \in Setting : \E k \in 1 .. 9 : c = Settings[k]
  /\ \A k \in 1 .. 9 : Settings[k] \in Setting
<1>1. Setting = {"CREG", "USTS", "CMGF", "CNMI", "UDCONF", "CTZU", "UDTMFD", "UREG", "UCALLSTAT"}
  BY SettingNames
<1>2. \A c \in Setting : \E k \in 1 .. 9 : c = Settings[k]
  BY SettingNames DEF Setting
<1>3. \A k \in 1 .. 9 : Settings[k] \in Setting
  BY SettingNames DEF Setting
<1> QED BY <1>1, <1>2, <1>3 DEF ChainCommand, Command

-----------------------------------------------------------------------------
(* The stack: what is in it, and that the chain is in it at most once      *)

Has(s, c) == \E i \in DOMAIN s : s[i] = c

Sole(s) == \A i, j \in DOMAIN s : s[i] \in ChainCommand /\ s[j] \in ChainCommand => i = j

LEMMA PushFront ==
  ASSUME NEW s \in Seq(Command), NEW c \in Command
  PROVE  /\ <<c>> \o s \in Seq(Command)
         /\ Len(<<c>> \o s) = Len(s) + 1
         /\ \A x : Has(<<c>> \o s, x) <=> x = c \/ Has(s, x)
         /\ Sole(s) /\ (c \notin ChainCommand \/ \A x \in ChainCommand : ~Has(s, x))
              => Sole(<<c>> \o s)
<1> DEFINE t == <<c>> \o s
<1>1. /\ t \in Seq(Command) /\ Len(t) = Len(s) + 1 /\ t[1] = c
      /\ \A i \in 2 .. Len(t) : t[i] = s[i - 1]
  OBVIOUS
<1>2. DOMAIN t = 1 .. Len(s) + 1 /\ DOMAIN s = 1 .. Len(s) /\ Len(s) \in Nat
  BY <1>1
<1>3. \A i \in DOMAIN s : i + 1 \in DOMAIN t /\ t[i + 1] = s[i]
  BY <1>1, <1>2
<1>4. \A i \in DOMAIN t : i = 1 \/ (i - 1 \in DOMAIN s /\ t[i] = s[i - 1])
  BY <1>1, <1>2
<1> HIDE DEF t
<1>5. \A x : Has(t, x) <=> x = c \/ Has(s, x)
  <2> SUFFICES ASSUME NEW x PROVE Has(t, x) <=> x = c \/ Has(s, x)
    OBVIOUS
  <2>1. Has(t, x) => x = c \/ Has(s, x)
    BY <1>1, <1>4 DEF Has
  <2>2. x = c => Has(t, x)
    BY <1>1, <1>2 DEF Has
  <2>3. Has(s, x) => Has(t, x)
    BY <1>3 DEF Has
  <2> QED BY <2>1, <2>2, <2>3
<1>6. ASSUME Sole(s), c \notin ChainCommand \/ \A x \in ChainCommand : ~Has(s, x)
      PROVE  Sole(t)
  <2> SUFFICES ASSUME NEW i \in DOMAIN t, NEW j \in DOMAIN t,
                      t[i] \in ChainCommand, t[j] \in ChainCommand
               PROVE  i = j
    BY DEF Sole
  <2>1. CASE c \notin ChainCommand
    <3>1. i - 1 \in DOMAIN s /\ j - 1 \in DOMAIN s /\ t[i] = s[i - 1] /\ t[j] = s[j - 1]
      BY <1>1, <1>4, <2>1
    <3>2. i - 1 = j - 1
      BY <1>6, <3>1 DEF Sole
    <3> QED BY <1>2, <3>2
  <2>2. CASE \A x \in ChainCommand : ~Has(s, x)
    BY <1>4, <2>2 DEF Has
  <2> QED BY <1>6, <2>1, <2>2
<1> QED BY <1>1, <1>5, <1>6 DEF t

LEMMA PopFront ==
  ASSUME NEW s \in Seq(Command), s # <<>>
  PROVE  /\ Head(s) \in Command /\ Tail(s) \in Seq(Command)
         /\ Len(Tail(s)) = Len(s) - 1
         /\ \A x : Has(s, x) <=> x = Head(s) \/ Has(Tail(s), x)
         /\ Sole(s) => /\ Sole(Tail(s))
                       /\ Head(s) \in ChainCommand => \A x \in ChainCommand : ~Has(Tail(s), x)
<1> DEFINE t == Tail(s)
<1>1. /\ t \in Seq(Command) /\ Head(s) \in Command /\ Head(s) = s[1]
      /\ Len(t) = Len(s) - 1 /\ \A i \in 1 .. Len(t) : t[i] = s[i + 1]
  BY HeadTailProperties
<1>2. /\ DOMAIN s = 1 .. Len(s) /\ DOMAIN t = 1 .. Len(s) - 1
      /\ Len(s) \in Nat /\ Len(s) >= 1
  BY <1>1
<1>3. \A i \in DOMAIN t : i + 1 \in DOMAIN s /\ t[i] = s[i + 1] /\ i + 1 # 1
  BY <1>1, <1>2
<1>4. \A i \in DOMAIN s : i = 1 \/ (i - 1 \in DOMAIN t /\ s[i] = t[i - 1])
  BY <1>1, <1>2
<1> HIDE DEF t
<1>5. \A x : Has(s, x) <=> x = Head(s) \/ Has(t, x)
  <2> SUFFICES ASSUME NEW x PROVE Has(s, x) <=> x = Head(s) \/ Has(t, x)
    OBVIOUS
  <2>1. Has(s, x) => x = Head(s) \/ Has(t, x)
    BY <1>1, <1>4 DEF Has
  <2>2. x = Head(s) => Has(s, x)
    BY <1>1, <1>2 DEF Has
  <2>3. Has(t, x) => Has(s, x)
    BY <1>3 DEF Has
  <2> QED BY <2>1, <2>2, <2>3
<1>6. ASSUME Sole(s) PROVE Sole(t)
  <2> SUFFICES ASSUME NEW i \in DOMAIN t, NEW j \in DOMAIN t,
                      t[i] \in ChainCommand, t[j] \in ChainCommand
               PROVE  i = j
    BY DEF Sole
  <2>1. i + 1 = j + 1
    BY <1>3, <1>6 DEF Sole
  <2> QED BY <1>2, <2>1
<1>7. ASSUME Sole(s), Head(s) \in ChainCommand, NEW x \in ChainCommand PROVE ~Has(t, x)
  BY <1>1, <1>2, <1>3, <1>7 DEF Has, Sole
<1> QED BY <1>1, <1>5, <1>6, <1>7 DEF t

LEMMA StackType ==
  ASSUME TypeOK
  PROVE  /\ stack \in Seq(Command) /\ Len(stack) <= OUT_MESSAGE_STACK_SIZE
         /\ Len(stack) \in Nat /\ OUT_MESSAGE_STACK_SIZE \in Nat
<1>1. stack \in Seq(Command) /\ Len(stack) <= OUT_MESSAGE_STACK_SIZE
  BY DEF TypeOK
<1> QED BY <1>1, NetworkAssumption

\* Commands that are not of the chain, added behind or forced in front.
LEMMA PushBack ==
  ASSUME TypeOK, NEW cs \in Seq(Command \ ChainCommand)
  PROVE  /\ Added(cs) \in Seq(Command) /\ Len(Added(cs)) <= OUT_MESSAGE_STACK_SIZE
         /\ \A x \in ChainCommand : Has(Added(cs), x) <=> Has(stack, x)
         /\ Sole(stack) => Sole(Added(cs))
<1> DEFINE all == stack \o cs
           n == IF Len(all) < OUT_MESSAGE_STACK_SIZE THEN Len(all) ELSE OUT_MESSAGE_STACK_SIZE
           t == SubSeq(all, 1, n)
<1>1. /\ stack \in Seq(Command) /\ Len(stack) <= OUT_MESSAGE_STACK_SIZE /\ Len(stack) \in Nat
      /\ OUT_MESSAGE_STACK_SIZE \in Nat
      /\ cs \in Seq(Command) /\ Len(cs) \in Nat
  <2>1. \A i \in 1 .. Len(cs) : cs[i] \in Command
    OBVIOUS
  <2> QED BY <2>1, StackType
<1>2. /\ all \in Seq(Command) /\ Len(all) = Len(stack) + Len(cs)
      /\ \A i \in 1 .. Len(all) : all[i] = IF i <= Len(stack) THEN stack[i] ELSE cs[i - Len(stack)]
  BY <1>1, ConcatProperties
<1> HIDE DEF all
<1>3. n \in Nat /\ n <= Len(all) /\ Len(stack) <= n /\ n <= OUT_MESSAGE_STACK_SIZE
  BY <1>1, <1>2
<1> HIDE DEF n
<1>4. t \in Seq(Command) /\ Len(t) = n /\ \A i \in 1 .. n : t[i] = all[i]
  BY <1>1, <1>2, <1>3
<1> HIDE DEF t
<1>5. DOMAIN t = 1 .. n /\ DOMAIN stack = 1 .. Len(stack) /\ DOMAIN cs = 1 .. Len(cs)
  BY <1>1, <1>4
<1>6. \A i \in DOMAIN stack : i \in DOMAIN t /\ t[i] = stack[i]
  BY <1>1, <1>2, <1>3, <1>4, <1>5
<1>7. \A i \in DOMAIN t : t[i] \in ChainCommand => i \in DOMAIN stack /\ t[i] = stack[i]
  <2> SUFFICES ASSUME NEW i \in DOMAIN t, i \notin DOMAIN stack PROVE t[i] \notin ChainCommand
    BY <1>6
  <2>1. i - Len(stack) \in 1 .. Len(cs) /\ t[i] = cs[i - Len(stack)]
    BY <1>1, <1>2, <1>3, <1>4, <1>5
  <2>2. \A j \in 1 .. Len(cs) : cs[j] \in Command \ ChainCommand
    OBVIOUS
  <2> QED BY <2>1, <2>2
<1>8. \A x \in ChainCommand : Has(t, x) <=> Has(stack, x)
  BY <1>6, <1>7 DEF Has
<1>9. Sole(stack) => Sole(t)
  BY <1>7 DEF Sole
<1>10. t = Added(cs)
  BY DEF t, n, all, Added
<1> QED BY <1>3, <1>4, <1>8, <1>9, <1>10

LEMMA Poll ==
  /\ <<"CCLK", "CSQ">> \in Seq(Command \ ChainCommand)
  /\ <<"other">> \in Seq(Command \ ChainCommand)
<1>1. \A c \in {"CCLK", "CSQ", "other"} : c \in Command \ ChainCommand
  BY CommandNames
<1> QED BY <1>1

LEMMA ForcedStack ==
  ASSUME TypeOK, NEW c \in Command
  PROVE  Forced(c) \in Seq(Command) /\ Len(Forced(c)) <= OUT_MESSAGE_STACK_SIZE
BY StackType, PushFront DEF Forced, HasRoom

-----------------------------------------------------------------------------
(* Every variable keeps its type                                           *)

LEMMA NextCallCases ==
  ASSUME NEW s \in CallState, NextCall(s), modem.call \in CallState
  PROVE  \/ s = "INCOMING" /\ modem.call = "DISCONNECTED"
         \/ s \in {"ACTIVE", "DISCONNECTED"} /\ modem.call # "DISCONNECTED"
BY DEF NextCall, CallState

LEMMA CallChangesCases ==
  ASSUME NEW s \in CallState, CallChanges(s)
  PROVE  /\ UNCHANGED <<network, poll, incomingSms, pending, booted, chain, acked>>
         /\ \/ /\ s = "INCOMING"
               /\ stack' = Forced("CLCC")
               /\ callingNumber' = Aged
               /\ IF HasRoom THEN UNCHANGED wrong ELSE Tells(Aged)
               /\ UNCHANGED lost
            \/ /\ s = "ACTIVE"
               /\ Tells(callingNumber)
               /\ UNCHANGED <<stack, callingNumber, lost>>
            \/ s = "DISCONNECTED" /\ Disconnects
BY DEF CallChanges, CallState

\* The type invariant in five parts, by the variables that change together.
NetworkType ==
  /\ initState \in {"NONE", "PIN", "CONFIG", "WAIT_CREG", "READY"}
  /\ isSimUnlocked \in BOOLEAN /\ pinState \in {"SIM PIN", "other"}
PollType == delayedRequest \in BOOLEAN /\ polls \in Nat
TextType == incomingSms \in BOOLEAN /\ booted \in BOOLEAN
NumberType == callingNumber \in {"NULL", "freed", "current", "old"}
ServiceType ==
  /\ stack \in Seq(Command) /\ Len(stack) <= OUT_MESSAGE_STACK_SIZE
  /\ pending \in Command \cup {"none"}
ModemType == modem \in [call : CallState, due : {"none", "heard", "missed"}, late : BOOLEAN]
HistoryType ==
  /\ chain \in {"none", "going", "stopped", "done"}
  /\ acked \subseteq ChainCommand
  /\ lost \subseteq {"end", "text", "answer", "reboot"}
  /\ wrong \subseteq {"text", "number", "freed"}

LEMMA TypeParts ==
  TypeOK <=> /\ NetworkType /\ PollType /\ TextType /\ NumberType
             /\ ServiceType /\ ModemType /\ HistoryType
BY DEF TypeOK, NetworkType, PollType, TextType, NumberType, ServiceType, ModemType, HistoryType

LEMMA TypePartsNext ==
  ASSUME NetworkType', PollType', TextType', NumberType', ServiceType', ModemType', HistoryType'
  PROVE  TypeOK'
BY DEF TypeOK, NetworkType, PollType, TextType, NumberType, ServiceType, ModemType, HistoryType

LEMMA GoOnType ==
  ASSUME TypeOK, NEW c \in ChainCommand, GoOn(c)
  PROVE  /\ stack' \in Seq(Command) /\ Len(stack') <= OUT_MESSAGE_STACK_SIZE
         /\ chain' \in {"going", "stopped"}
<1>1. c \in Command
  BY CommandNames
<1> QED BY <1>1, ForcedStack DEF GoOn

LEMMA EndsType ==
  ASSUME TypeOK, Ends
  PROVE  /\ stack' \in Seq(Command) /\ Len(stack') <= OUT_MESSAGE_STACK_SIZE
         /\ chain' = "stopped"
BY StackType DEF Ends

LEMMA FinalTypes ==
  ASSUME TypeOK, NEW type \in FinalType, Final(type)
  PROVE  /\ PollType' /\ TextType' /\ NumberType' /\ ModemType'
         /\ pinState' = "other" /\ pending' = "none"
         /\ acked' \subseteq ChainCommand
         /\ lost' \subseteq {"end", "text", "answer", "reboot"}
         /\ wrong' \subseteq {"text", "number", "freed"}
<1>1. PollType' /\ TextType' /\ NumberType'
  BY TypeParts DEF Final, poll, PollType, TextType, NumberType
<1>2. ModemType'
  BY TypeParts DEF Final, ModemType
<1>3. pinState' = "other" /\ pending' = "none"
  BY DEF Final
<1>4. acked' \subseteq ChainCommand
  BY TypeParts DEF Final, HistoryType
<1>5. lost' \subseteq {"end", "text", "answer", "reboot"}
  BY TypeParts DEF Final, HistoryType
<1>6. wrong' \subseteq {"text", "number", "freed"}
  BY TypeParts DEF Final, HistoryType
<1> QED BY <1>1, <1>2, <1>3, <1>4, <1>5, <1>6

LEMMA MissedTypes ==
  ASSUME TypeOK, NEW kinds \in SUBSET {"end", "text"}, NEW own, Missed(kinds, own)
  PROVE  NetworkType' /\ PollType' /\ TextType' /\ ServiceType' /\ HistoryType'
<1>1. NetworkType' /\ PollType' /\ TextType'
  BY TypeParts DEF Missed, poll, service, NetworkType, PollType, TextType
<1>2. ServiceType'
  BY TypeParts DEF Missed, service, ServiceType
<1>3. HistoryType'
  BY TypeParts DEF Missed, HistoryType
<1> QED BY <1>1, <1>2, <1>3

LEMMA NumberTypes ==
  ASSUME TypeOK
  PROVE  /\ Aged \in {"NULL", "freed", "current", "old"}
         /\ Frees => wrong' \subseteq {"text", "number", "freed"}
         /\ \A n : Tells(n) => wrong' \subseteq {"text", "number", "freed"}
<1>1. Aged \in {"NULL", "freed", "current", "old"}
  BY TypeParts DEF Aged, NumberType
<1>2. Frees => wrong' \subseteq {"text", "number", "freed"}
  BY TypeParts DEF Frees, HistoryType
<1>3. \A n : Tells(n) => wrong' \subseteq {"text", "number", "freed"}
  BY TypeParts DEF Tells, HistoryType
<1> QED BY <1>1, <1>2, <1>3

LEMMA AnswersTypes ==
  ASSUME TypeOK, Answers
  PROVE  TypeOK'
<1>1. CASE \E type \in FinalType :
             CheckAnswer(type) \/ UnlockAnswer(type) \/ SettingAnswer(type) \/ OtherAnswer(type)
  <2> PICK type \in FinalType :
             CheckAnswer(type) \/ UnlockAnswer(type) \/ SettingAnswer(type) \/ OtherAnswer(type)
    BY <1>1
  <2>1. Final(type)
    BY DEF CheckAnswer, UnlockAnswer, SettingAnswer, OtherAnswer
  <2>2. /\ stack' \in Seq(Command) /\ Len(stack') <= OUT_MESSAGE_STACK_SIZE
        /\ chain' \in {"none", "going", "stopped", "done"}
    <3>1. CASE CheckAnswer(type)
      BY <3>1, CommandNames, GoOnType, EndsType DEF CheckAnswer
    <3>2. CASE UnlockAnswer(type)
      <4>1. "CREG" \in ChainCommand
        BY SettingNames, CommandNames
      <4> QED BY <3>2, <4>1, GoOnType, EndsType DEF UnlockAnswer
    <3>3. CASE SettingAnswer(type)
      <4>1. pending \in Setting /\ pending # "UCALLSTAT" => After(pending) \in ChainCommand
        <5> SUFFICES ASSUME pending \in Setting, pending # "UCALLSTAT"
                     PROVE  After(pending) \in ChainCommand
          OBVIOUS
        <5>1. PICK k \in 1 .. 9 : pending = Settings[k]
          BY CommandNames
        <5>2. k \in 1 .. 8
          BY <5>1, SettingNames
        <5>3. After(pending) = Settings[k + 1] /\ k + 1 \in 1 .. 9
          BY <5>1, <5>2, AfterIsNext
        <5> QED BY <5>3, CommandNames
      <4>2. CASE GoOn(After(pending)) /\ pending # "UCALLSTAT"
        BY <3>3, <4>1, <4>2, GoOnType DEF SettingAnswer
      <4>3. CASE Ends
        BY <4>3, EndsType
      <4>4. CASE UNCHANGED stack /\ chain' = "done"
        BY <4>4, StackType
      <4> QED BY <3>3, <4>2, <4>3, <4>4 DEF SettingAnswer
    <3>4. CASE OtherAnswer(type)
      BY <3>4, StackType, TypeParts DEF OtherAnswer, HistoryType
    <3> QED BY <3>1, <3>2, <3>3, <3>4
  <2>3. NetworkType'
    <3>1. initState' \in {"NONE", "PIN", "CONFIG", "WAIT_CREG", "READY"}
      BY TypeParts DEF CheckAnswer, UnlockAnswer, SettingAnswer, OtherAnswer, NetworkType
    <3>2. isSimUnlocked' \in BOOLEAN
      BY TypeParts DEF CheckAnswer, UnlockAnswer, SettingAnswer, OtherAnswer, NetworkType
    <3> QED BY <2>1, <3>1, <3>2, FinalTypes DEF NetworkType
  <2>4. ServiceType' /\ HistoryType'
    BY <2>1, <2>2, FinalTypes DEF ServiceType, HistoryType
  <2> QED BY <2>1, <2>3, <2>4, FinalTypes, TypePartsNext
<1>2. CASE \E state \in {"SIM PIN", "other"} : PinData(state)
  <2> PICK state \in {"SIM PIN", "other"} : PinData(state)
    BY <1>2
  <2>1. NetworkType'
    BY TypeParts DEF PinData, NetworkType
  <2>2. PollType' /\ TextType' /\ NumberType' /\ ServiceType' /\ ModemType' /\ HistoryType'
    BY TypeParts DEF PinData, poll, service, history, PollType, TextType, NumberType,
       ServiceType, ModemType, HistoryType
  <2> QED BY <2>1, <2>2, TypePartsNext
<1>3. CASE CallData
  <2>1. NetworkType' /\ PollType' /\ TextType' /\ NumberType' /\ ServiceType' /\ ModemType'
    BY <1>3, TypeParts DEF CallData, network, poll, service, NetworkType, PollType, TextType,
       NumberType, ServiceType, ModemType
  <2>2. HistoryType'
    BY <1>3, TypeParts, NumberTypes DEF CallData, HistoryType
  <2> QED BY <2>1, <2>2, TypePartsNext
<1> QED BY <1>1, <1>2, <1>3 DEF Answers

LEMMA EventsTypes ==
  ASSUME TypeOK, Events
  PROVE  TypeOK'
<1>1. ASSUME NEW connected \in BOOLEAN, RegEvent(connected) PROVE TypeOK'
  <2>1. CASE Register(connected)
    <3>1. NetworkType' /\ TextType' /\ NumberType' /\ ModemType' /\ HistoryType'
      BY <1>1, <2>1, TypeParts DEF RegEvent, Register, history, NetworkType, TextType,
         NumberType, ModemType, HistoryType
    <3>2. PollType'
      <4>1. /\ delayedRequest' = TRUE \/ delayedRequest' = delayedRequest
            /\ polls' \in {polls, polls + 1, polls - 1 + 1}
        BY <2>1 DEF Register, FetchTime, poll
      <4>2. delayedRequest' \in BOOLEAN
        BY <4>1, TypeParts DEF PollType
      <4>3. polls \in Nat
        BY TypeParts DEF PollType
      <4>4. polls' \in Nat
        BY <4>1, <4>3
      <4> QED BY <4>2, <4>4 DEF PollType
    <3>3. ServiceType'
      BY <2>1, TypeParts, PushBack, Poll, StackType DEF Register, FetchTime, ServiceType
    <3> QED BY <3>1, <3>2, <3>3, TypePartsNext
  <2>2. CASE Missed({}, FALSE) /\ UNCHANGED callingNumber
    BY <1>1, <2>2, MissedTypes, TypeParts, TypePartsNext DEF RegEvent, NumberType, ModemType
  <2> QED BY <1>1, <2>1, <2>2 DEF RegEvent
<1>2. CASE TextHeader
  <2>1. ModemType' /\ NumberType'
    BY <1>2, TypeParts DEF TextHeader, Missed, ModemType, NumberType
  <2>2. CASE Missed({}, FALSE)
    BY <2>1, <2>2, MissedTypes, TypePartsNext
  <2>3. CASE incomingSms' = TRUE /\ UNCHANGED <<network, poll, callingNumber, service, history>>
    BY <1>2, <2>1, <2>3, TypeParts, TypePartsNext DEF network, poll, service, history, NetworkType,
       PollType, TextType, ServiceType, HistoryType
  <2> QED BY <1>2, <2>2, <2>3 DEF TextHeader
<1>3. CASE TextLine
  <2>1. ModemType' /\ NumberType'
    BY <1>3, TypeParts DEF TextLine, Missed, ModemType, NumberType
  <2>2. CASE Missed(IF pending # "none" /\ incomingSms THEN {"text"} ELSE {}, modem.due = "heard")
    BY <2>1, <2>2, MissedTypes, TypePartsNext
  <2>3. CASE UNCHANGED <<network, poll, incomingSms, callingNumber, service, history>>
    BY <1>3, <2>1, <2>3, TypeParts, TypePartsNext DEF network, poll, service, history, NetworkType,
       PollType, TextType, ServiceType, HistoryType
  <2> QED BY <1>3, <2>2, <2>3 DEF TextLine
<1>4. ASSUME NEW s \in CallState, CallEvent(s) PROVE TypeOK'
  <2>1. ModemType'
    BY <1>4, TypeParts DEF CallEvent, ModemType
  <2>2. CASE CallChanges(s)
    <3>1. NetworkType' /\ PollType' /\ TextType' /\ UNCHANGED <<pending, chain, acked>>
      BY <2>2, CallChangesCases, TypeParts DEF network, poll, NetworkType, PollType, TextType
    <3>2. NumberType' /\ lost' \subseteq {"end", "text", "answer", "reboot"}
      BY <2>2, CallChangesCases, TypeParts, NumberTypes DEF Disconnects, NumberType, HistoryType
    <3>3. wrong' \subseteq {"text", "number", "freed"}
      BY <2>2, CallChangesCases, TypeParts, NumberTypes DEF Disconnects, HistoryType
    <3>4. stack' \in Seq(Command) /\ Len(stack') <= OUT_MESSAGE_STACK_SIZE
      BY <2>2, CallChangesCases, CommandNames, ForcedStack, StackType DEF Disconnects
    <3>5. ServiceType' /\ HistoryType'
      BY <3>1, <3>2, <3>3, <3>4, TypeParts DEF ServiceType, HistoryType
    <3> QED BY <2>1, <3>1, <3>2, <3>5, TypePartsNext
  <2>3. CASE /\ Missed(IF s = "DISCONNECTED" /\ callingNumber # "NULL" THEN {"end"} ELSE {}, FALSE)
             /\ callingNumber' = IF s = "INCOMING" THEN Aged ELSE callingNumber
    <3>1. NumberType'
      BY <2>3, NumberTypes, TypeParts DEF NumberType
    <3> QED BY <2>1, <2>3, <3>1, MissedTypes, TypePartsNext
  <2> QED BY <1>4, <2>2, <2>3 DEF CallEvent
<1>5. CASE OtherEvent
  BY <1>5, MissedTypes, TypeParts, TypePartsNext DEF OtherEvent, NumberType, ModemType
<1>6. CASE LateAnswer
  <2>1. ModemType' /\ NumberType'
    BY <1>6, TypeParts DEF LateAnswer, Missed, ModemType, NumberType
  <2>2. CASE Missed({}, FALSE)
    BY <2>1, <2>2, MissedTypes, TypePartsNext
  <2>3. CASE UNCHANGED <<network, poll, incomingSms, callingNumber, service, history>>
    BY <1>6, <2>1, <2>3, TypeParts, TypePartsNext DEF network, poll, service, history, NetworkType,
       PollType, TextType, ServiceType, HistoryType
  <2> QED BY <1>6, <2>2, <2>3 DEF LateAnswer
<1> QED BY <1>1, <1>2, <1>3, <1>4, <1>5, <1>6 DEF Events

\* One timer while the field holds its id, none while it does not.
PollInv ==
  /\ polls = IF delayedRequest THEN 1 ELSE 0
  /\ initState = "READY" => delayedRequest

LEMMA PollStep ==
  ASSUME TypeOK, PollInv, [Next]_vars
  PROVE  PollInv'
<1>1. CASE UNCHANGED poll /\ (initState' = "READY" => initState = "READY")
  BY <1>1 DEF PollInv, poll
<1>2. ASSUME NEW running, FetchTime(running, delayedRequest), running = polls PROVE PollInv'
  BY <1>2 DEF PollInv, FetchTime
<1>3. CASE Answers
  <2>1. UNCHANGED poll /\ (initState' = "READY" => initState = "READY")
    BY <1>3 DEF Answers, CheckAnswer, UnlockAnswer, SettingAnswer, OtherAnswer, Final, PinData, CallData,
       network
  <2> QED BY <1>1, <2>1
<1>4. CASE Events
  <2>1. ASSUME NEW connected \in BOOLEAN, RegEvent(connected) PROVE PollInv'
    <3>1. CASE FetchTime(polls, delayedRequest)
      BY <1>2, <3>1
    <3>2. CASE UNCHANGED poll /\ UNCHANGED initState
      BY <1>1, <3>2
    <3> QED BY <2>1, <3>1, <3>2 DEF RegEvent, Register, Missed, poll
  <2>2. ASSUME NEW s \in CallState, CallEvent(s) PROVE UNCHANGED poll /\ UNCHANGED initState
    <3>1. CASE CallChanges(s)
      BY <3>1, CallChangesCases DEF network
    <3> QED BY <2>2, <3>1 DEF CallEvent, Missed
  <2>3. CASE TextHeader \/ TextLine \/ OtherEvent \/ LateAnswer
    <3>1. UNCHANGED poll /\ UNCHANGED initState
      BY <2>3 DEF TextHeader, TextLine, OtherEvent, LateAnswer, Missed, network
    <3> QED BY <1>1, <3>1
  <2> QED BY <1>1, <1>4, <2>1, <2>2, <2>3 DEF Events
<1>5. CASE Users
  <2>1. CASE Connect \/ AddCommand \/ ForceCommand
    BY <1>1, <2>1 DEF Connect, AddCommand, ForceCommand, network
  <2>2. CASE StartModem
    BY <2>2 DEF StartModem, Reboots, PollInv
  <2> QED BY <1>5, <2>1, <2>2 DEF Users
<1>6. CASE OnTimerComplete
  BY <1>6 DEF OnTimerComplete, FetchTime, PollInv
<1>7. CASE LoopSend \/ BootCompletes \/ UNCHANGED vars
  BY <1>1, <1>7 DEF LoopSend, BootCompletes, vars, network
<1> QED BY <1>3, <1>4, <1>5, <1>6, <1>7 DEF Next

LEMMA TypeStep ==
  ASSUME TypeOK, PollInv, [Next]_vars
  PROVE  TypeOK'
<1>1. CASE Answers
  BY <1>1, AnswersTypes
<1>2. CASE Events
  BY <1>2, EventsTypes
<1>3. CASE Connect
  <2>1. "CPIN?" \in ChainCommand /\ GoOn("CPIN?")
    BY <1>3, CommandNames DEF Connect
  <2>2. NetworkType' /\ PollType' /\ TextType' /\ NumberType' /\ ModemType'
    BY <1>3, TypeParts DEF Connect, poll, NetworkType, PollType, TextType, NumberType, ModemType
  <2>3. ServiceType'
    BY <1>3, <2>1, GoOnType, TypeParts DEF Connect, ServiceType
  <2>4. HistoryType'
    BY <1>3, <2>1, GoOnType, TypeParts DEF Connect, HistoryType
  <2> QED BY <2>2, <2>3, <2>4, TypePartsNext
<1>4. CASE AddCommand \/ ForceCommand
  <2>1. stack' \in Seq(Command) /\ Len(stack') <= OUT_MESSAGE_STACK_SIZE
    BY <1>4, CommandNames, ForcedStack, PushBack, Poll DEF AddCommand, ForceCommand
  <2>2. NetworkType' /\ PollType'
    BY <1>4, TypeParts DEF AddCommand, ForceCommand, network, poll, NetworkType, PollType
  <2>3. TextType' /\ NumberType' /\ ServiceType' /\ ModemType' /\ HistoryType'
    BY <1>4, <2>1, TypeParts DEF AddCommand, ForceCommand, history, TextType, NumberType,
       ServiceType, ModemType, HistoryType
  <2> QED BY <2>2, <2>3, TypePartsNext
<1>5. CASE StartModem
  <2>1. NetworkType' /\ TextType' /\ NumberType'
    BY <1>5, TypeParts DEF StartModem, Reboots, NetworkType, TextType, NumberType
  <2>2. ServiceType'
    BY <1>5, NetworkAssumption DEF StartModem, Reboots, ServiceType
  <2>3. ModemType'
    BY <1>5 DEF StartModem, Reboots, Silent, CallState, ModemType
  <2>4. HistoryType'
    BY <1>5, NumberTypes DEF StartModem, Reboots, HistoryType
  <2>5. PollType'
    <3>1. delayedRequest' = FALSE /\ polls' = 0
      BY <1>5 DEF StartModem, Reboots, PollInv
    <3> QED BY <3>1 DEF PollType
  <2> QED BY <2>1, <2>2, <2>3, <2>4, <2>5, TypePartsNext
<1>6. CASE LoopSend
  <2>1. pending' \in Command /\ stack' \in Seq(Command) /\ Len(stack') <= OUT_MESSAGE_STACK_SIZE
    <3>1. stack \in Seq(Command) /\ stack # <<>> /\ pending' = Head(stack) /\ stack' = Tail(stack)
      BY <1>6, StackType DEF LoopSend
    <3>2. Head(stack) \in Command /\ Tail(stack) \in Seq(Command) /\ Len(Tail(stack)) = Len(stack) - 1
      BY <3>1, PopFront
    <3> QED BY <3>1, <3>2, StackType
  <2>2. NetworkType'
    BY <1>6, TypeParts DEF LoopSend, NetworkType
  <2> QED BY <1>6, <2>1, <2>2, TypeParts, TypePartsNext DEF LoopSend, history, poll, PollType, TextType,
             NumberType, ServiceType, ModemType, HistoryType
<1>7. CASE OnTimerComplete
  <2>1. stack' \in Seq(Command) /\ Len(stack') <= OUT_MESSAGE_STACK_SIZE
    BY <1>7, PushBack, Poll DEF OnTimerComplete, FetchTime
  <2>2. PollType'
    BY <1>7, TypeParts DEF OnTimerComplete, FetchTime, PollType
  <2>3. NetworkType'
    BY <1>7, TypeParts DEF OnTimerComplete, network, NetworkType
  <2> QED BY <1>7, <2>1, <2>2, <2>3, TypeParts, TypePartsNext DEF OnTimerComplete, history,
             TextType, NumberType, ServiceType, ModemType, HistoryType
<1>8. CASE BootCompletes \/ UNCHANGED vars
  <2>1. NetworkType' /\ PollType'
    BY <1>8, TypeParts DEF BootCompletes, vars, network, poll, NetworkType, PollType
  <2>2. TextType' /\ NumberType' /\ ServiceType' /\ ModemType' /\ HistoryType'
    <3>1. incomingSms' = incomingSms /\ booted' \in BOOLEAN /\ UNCHANGED <<callingNumber, stack, pending, modem, history>>
      BY <1>8, TypeParts DEF BootCompletes, vars, service, TextType
    <3> QED BY <3>1, TypeParts DEF history, TextType, NumberType, ServiceType, ModemType, HistoryType
  <2> QED BY <2>1, <2>2, TypePartsNext
<1> QED BY <1>1, <1>2, <1>3, <1>4, <1>5, <1>6, <1>7, <1>8 DEF Next, Users

-----------------------------------------------------------------------------
(* The chain                                                               *)

\* A command is in the stack or on the line.
Current(c) == pending = c \/ Has(stack, c)

\* At most one command of the chain is, and just while the chain goes on.
OneInv ==
  /\ Sole(stack)
  /\ pending \in ChainCommand => \A c \in ChainCommand : ~Has(stack, c)

ChainInv ==
  /\ OneInv
  /\ chain = "going" <=> \E c \in ChainCommand : Current(c)
  /\ initState = "NONE" => chain = "none"

\* A setting is sent once the SIM is unlocked and the settings before it are acknowledged.
Before(k) == {"CPIN"} \cup {Settings[j] : j \in 1 .. k - 1}

ConfigInv ==
  /\ acked \subseteq ChainCommand \ {"CPIN?"}
  /\ \A k \in 1 .. 9 : Current(Settings[k]) =>
       isSimUnlocked /\ ("answer" \in lost \/ Before(k) \subseteq acked)
  /\ initState = "WAIT_CREG" => chain = "done" /\ Configured

\* What every step but those of the chain, Connect and StartModem leaves alone.
Quiet ==
  /\ OneInv'
  /\ \A c \in ChainCommand : Current(c)' <=> Current(c)
  /\ chain' = chain
  /\ initState' \in {initState, "READY"}
  /\ isSimUnlocked' = isSimUnlocked \/ pending = "CPIN"
  /\ acked' = acked \/ (acked' = {} /\ "answer" \in lost)
  /\ "answer" \in lost' <=> "answer" \in lost

LEMMA QuietKeeps ==
  ASSUME ChainInv, ConfigInv, Quiet
  PROVE  ChainInv' /\ ConfigInv'
<1>1. ChainInv'
  BY DEF ChainInv, Quiet
<1>2. acked' \subseteq ChainCommand \ {"CPIN?"}
  BY DEF ConfigInv, Quiet
<1>3. ASSUME NEW c \in Setting, Current(c) PROVE pending # "CPIN"
  BY <1>3, CommandNames DEF ChainInv, OneInv, Current
<1>4. ASSUME NEW k \in 1 .. 9, Current(Settings[k])'
      PROVE  isSimUnlocked' /\ ("answer" \in lost' \/ Before(k) \subseteq acked')
  <2>1. Settings[k] \in Setting /\ Settings[k] \in ChainCommand
    BY CommandNames
  <2>2. Current(Settings[k])
    BY <1>4, <2>1 DEF Quiet
  <2>3. isSimUnlocked' = isSimUnlocked
    BY <1>3, <2>1, <2>2 DEF Quiet
  <2> QED BY <2>2, <2>3 DEF ConfigInv, Quiet
<1>5. ASSUME initState' = "WAIT_CREG" PROVE chain' = "done" /\ Configured'
  <2>1. initState = "WAIT_CREG"
    BY <1>5 DEF Quiet
  <2>2. chain = "done" /\ chain' = "done"
    BY <2>1 DEF ConfigInv, Quiet
  <2>3. pending # "CPIN"
    BY <2>2, CommandNames DEF ChainInv, Current
  <2>4. isSimUnlocked /\ (acked = ChainCommand \ {"CPIN?"} \/ "answer" \in lost)
    BY <2>1 DEF ConfigInv, Configured
  <2>5. isSimUnlocked' /\ (acked' = ChainCommand \ {"CPIN?"} \/ "answer" \in lost')
    BY <2>3, <2>4 DEF Quiet
  <2> QED BY <2>2, <2>5 DEF Configured
<1> QED BY <1>1, <1>2, <1>4, <1>5 DEF ConfigInv

LEMMA KeepsStack ==
  ASSUME ChainInv, UNCHANGED stack,
         pending' = pending \/ (pending \notin ChainCommand /\ pending' \notin ChainCommand)
  PROVE  OneInv' /\ \A c \in ChainCommand : Current(c)' <=> Current(c)
BY DEF ChainInv, OneInv, Current

LEMMA AddsOther ==
  ASSUME TypeOK, ChainInv, UNCHANGED pending,
         \/ stack' = Added(<<"other">>) \/ stack' = Added(<<"CCLK", "CSQ">>)
         \/ stack' = Forced("other") \/ stack' = Forced("CLCC")
  PROVE  OneInv' /\ \A c \in ChainCommand : Current(c)' <=> Current(c)
<1>1. Sole(stack') /\ \A c \in ChainCommand : Has(stack', c) <=> Has(stack, c)
  <2>1. Sole(stack)
    BY DEF ChainInv, OneInv
  <2>2. CASE stack' = Added(<<"other">>) \/ stack' = Added(<<"CCLK", "CSQ">>)
    BY <2>1, <2>2, PushBack, Poll
  <2>3. ASSUME NEW d \in {"other", "CLCC"}, stack' = Forced(d)
        PROVE  Sole(stack') /\ \A c \in ChainCommand : Has(stack', c) <=> Has(stack, c)
    <3>1. d \in Command /\ d \notin ChainCommand
      BY CommandNames
    <3>2. /\ \A x : Has(<<d>> \o stack, x) <=> x = d \/ Has(stack, x)
          /\ Sole(<<d>> \o stack)
      BY <2>1, <3>1, PushFront, StackType
    <3> QED BY <2>1, <2>3, <3>1, <3>2 DEF Forced
  <2> QED BY <2>2, <2>3
<1> QED BY <1>1 DEF ChainInv, OneInv, Current

LEMMA SendsNext ==
  ASSUME TypeOK, ChainInv, LoopSend
  PROVE  OneInv' /\ \A c \in ChainCommand : Current(c)' <=> Current(c)
<1>1. stack \in Seq(Command) /\ stack # <<>> /\ pending = "none"
  BY StackType DEF LoopSend
<1>2. pending' = Head(stack) /\ stack' = Tail(stack)
  BY DEF LoopSend
<1>3. Sole(stack) /\ "none" \notin ChainCommand
  BY CommandNames DEF ChainInv, OneInv
<1>4. /\ \A x : Has(stack, x) <=> x = Head(stack) \/ Has(Tail(stack), x)
      /\ Sole(Tail(stack))
      /\ Head(stack) \in ChainCommand => \A x \in ChainCommand : ~Has(Tail(stack), x)
  BY <1>1, <1>3, PopFront
<1> QED BY <1>1, <1>2, <1>3, <1>4 DEF OneInv, Current

\* The next command of the chain, once the last one is off the line.
LEMMA GoesOn ==
  ASSUME TypeOK, OneInv, NEW c \in ChainCommand, GoOn(c), pending' \notin ChainCommand,
         \A x \in ChainCommand : ~Has(stack, x)
  PROVE  /\ OneInv'
         /\ chain' = "going" <=> \E x \in ChainCommand : Current(x)'
         /\ \A x \in ChainCommand : Current(x)' => x = c
<1>1. c \in Command
  BY CommandNames
<1>2. CASE HasRoom
  <2>1. /\ \A x : Has(<<c>> \o stack, x) <=> x = c \/ Has(stack, x)
        /\ Sole(<<c>> \o stack)
    BY <1>1, PushFront, StackType DEF OneInv
  <2>2. stack' = <<c>> \o stack /\ chain' = "going"
    BY <1>2 DEF GoOn, Forced
  <2> QED BY <2>1, <2>2 DEF OneInv, Current
<1>3. CASE ~HasRoom
  BY <1>3 DEF GoOn, Forced, OneInv, Current
<1> QED BY <1>2, <1>3

\* No command of the chain is left.
LEMMA ChainEnds ==
  ASSUME OneInv, UNCHANGED stack, pending' \notin ChainCommand, \A x \in ChainCommand : ~Has(stack, x)
  PROVE  OneInv' /\ \A x \in ChainCommand : ~Current(x)'
BY DEF OneInv, Current

LEMMA MissedQuiet ==
  ASSUME TypeOK, ChainInv, NEW kinds \in SUBSET {"end", "text"}, NEW own, Missed(kinds, own)
  PROVE  Quiet
<1>1. UNCHANGED <<stack, pending, chain, acked, initState>>
  BY DEF Missed, service
<1>2. isSimUnlocked' = isSimUnlocked \/ pending = "CPIN"
  <2>1. isSimUnlocked' = isSimUnlocked \/ isSimUnlocked' = (isSimUnlocked /\ pending # "CPIN")
    BY DEF Missed
  <2>2. isSimUnlocked \in BOOLEAN
    BY DEF TypeOK
  <2>3. pending # "CPIN" => (isSimUnlocked /\ pending # "CPIN") = isSimUnlocked
    BY <2>2
  <2> QED BY <2>1, <2>3
<1>3. "answer" \in lost' <=> "answer" \in lost
  BY DEF Missed
<1> QED BY <1>1, <1>2, <1>3, KeepsStack DEF Quiet

LEMMA QuietEvents ==
  ASSUME TypeOK, ChainInv, Events
  PROVE  Quiet
<1>1. ASSUME NEW connected \in BOOLEAN, RegEvent(connected) PROVE Quiet
  <2>1. CASE Register(connected)
    <3>1. UNCHANGED <<pending, chain, acked, lost, isSimUnlocked>> /\ initState' \in {initState, "READY"}
      BY <2>1 DEF Register, history
    <3>2. CASE stack' = Added(<<"CCLK", "CSQ">>)
      BY <3>1, <3>2, AddsOther DEF Quiet
    <3>3. CASE UNCHANGED stack
      BY <3>1, <3>3, KeepsStack DEF Quiet
    <3> QED BY <2>1, <3>2, <3>3 DEF Register, FetchTime
  <2>2. CASE Missed({}, FALSE)
    BY <2>2, MissedQuiet
  <2> QED BY <1>1, <2>1, <2>2 DEF RegEvent
<1>2. CASE UNCHANGED <<network, service, history>>
  BY <1>2, KeepsStack DEF Quiet, network, service, history
<1>3. CASE TextHeader \/ TextLine \/ OtherEvent \/ LateAnswer
  <2>1. \/ UNCHANGED <<network, service, history>>
        \/ Missed({}, FALSE)
        \/ Missed(IF pending # "none" /\ incomingSms THEN {"text"} ELSE {}, modem.due = "heard")
    BY <1>3 DEF TextHeader, TextLine, OtherEvent, LateAnswer
  <2> QED BY <1>2, <2>1, MissedQuiet
<1>4. ASSUME NEW s \in CallState, CallEvent(s) PROVE Quiet
  <2>1. CASE CallChanges(s)
    <3>1. UNCHANGED <<network, pending, chain, acked>>
      BY <2>1, CallChangesCases
    <3>2. "answer" \in lost' <=> "answer" \in lost
      BY <2>1, CallChangesCases DEF Disconnects
    <3>3. stack' = stack \/ stack' = Forced("CLCC")
      BY <2>1, CallChangesCases DEF Disconnects
    <3>4. OneInv' /\ \A c \in ChainCommand : Current(c)' <=> Current(c)
      BY <3>1, <3>3, KeepsStack, AddsOther
    <3> QED BY <3>1, <3>2, <3>4 DEF Quiet, network
  <2>2. CASE Missed(IF s = "DISCONNECTED" /\ callingNumber # "NULL" THEN {"end"} ELSE {}, FALSE)
    BY <2>2, MissedQuiet
  <2> QED BY <1>4, <2>1, <2>2 DEF CallEvent
<1> QED BY <1>1, <1>3, <1>4, QuietKeeps DEF Events

LEMMA QuietOthers ==
  ASSUME TypeOK, ChainInv,
         \/ AddCommand \/ ForceCommand \/ LoopSend \/ OnTimerComplete \/ BootCompletes
         \/ UNCHANGED vars
  PROVE  Quiet
<1>1. UNCHANGED <<initState, isSimUnlocked, chain, acked, lost>>
  BY DEF AddCommand, ForceCommand, LoopSend, OnTimerComplete, BootCompletes, vars, network, history
<1>2. OneInv' /\ \A c \in ChainCommand : Current(c)' <=> Current(c)
  <2>1. CASE AddCommand \/ ForceCommand \/ OnTimerComplete
    BY <2>1, AddsOther DEF AddCommand, ForceCommand, OnTimerComplete, FetchTime
  <2>2. CASE LoopSend
    BY <2>2, SendsNext
  <2>3. CASE BootCompletes \/ UNCHANGED vars
    BY <2>3, KeepsStack DEF BootCompletes, vars, service
  <2> QED BY <2>1, <2>2, <2>3
<1> QED BY <1>1, <1>2 DEF Quiet

LEMMA QuietAnswers ==
  ASSUME TypeOK, ChainInv,
         \/ \E type \in FinalType : OtherAnswer(type)
         \/ \E state \in {"SIM PIN", "other"} : PinData(state)
         \/ CallData
  PROVE  Quiet
<1>1. ASSUME NEW type \in FinalType, OtherAnswer(type) PROVE Quiet
  <2>1. pending \notin ChainCommand /\ pending' = "none" /\ "none" \notin ChainCommand
    BY <1>1, CommandNames DEF OtherAnswer, Final
  <2>2. UNCHANGED <<initState, isSimUnlocked, stack, chain>>
    BY <1>1 DEF OtherAnswer
  <2>3. lost' = lost
    BY <1>1, <2>1 DEF OtherAnswer, Final
  <2>4. acked' = acked \/ (acked' = {} /\ "answer" \in lost)
    BY <1>1, <2>1, <2>3 DEF OtherAnswer, Final
  <2> QED BY <2>1, <2>2, <2>3, <2>4, KeepsStack DEF Quiet
<1>2. CASE \E state \in {"SIM PIN", "other"} : PinData(state)
  BY <1>2, KeepsStack DEF Quiet, PinData, service, history
<1>3. CASE CallData
  BY <1>3, KeepsStack DEF Quiet, CallData, network, service
<1> QED BY <1>1, <1>2, <1>3

\* The answer to a command of the chain: what it leaves in acked and lost.
LEMMA AnswerCounts ==
  ASSUME NEW type, Final(type), acked \subseteq ChainCommand \ {"CPIN?"}
  PROVE  /\ pending' = "none"
         /\ acked' \subseteq ChainCommand \ {"CPIN?"}
         /\ "answer" \in lost => "answer" \in lost'
         /\ type = "OK" /\ pending \in ChainCommand \ {"CPIN?"} =>
              "answer" \in lost' \/ acked' = acked \cup {pending}
<1>1. pending' = "none"
  BY DEF Final
<1>2. acked' \subseteq ChainCommand \ {"CPIN?"}
  BY DEF Final
<1>3. "answer" \in lost => "answer" \in lost'
  BY DEF Final
<1>4. ASSUME type = "OK", pending \in ChainCommand \ {"CPIN?"}
      PROVE  "answer" \in lost' \/ acked' = acked \cup {pending}
  BY <1>4 DEF Final
<1> QED BY <1>1, <1>2, <1>3, <1>4

LEMMA ChainStep ==
  ASSUME TypeOK, ChainInv, ConfigInv, [Next]_vars
  PROVE  ChainInv' /\ ConfigInv'
<1> USE CommandNames
<1>1. CASE Quiet
  BY <1>1, QuietKeeps
<1>2. CASE Connect
  <2>1. GoOn("CPIN?") /\ initState' = "PIN" /\ acked' = {} /\ UNCHANGED pending
    BY <1>2 DEF Connect
  <2>2. chain # "going"
    BY <1>2 DEF Connect, ChainInv
  <2>3. \A x \in ChainCommand : ~Has(stack, x) /\ pending # x
    BY <2>2 DEF ChainInv, Current
  <2>4. /\ OneInv'
        /\ chain' = "going" <=> \E x \in ChainCommand : Current(x)'
        /\ \A x \in ChainCommand : Current(x)' => x = "CPIN?"
    BY <2>1, <2>3, GoesOn DEF ChainInv
  <2>5. \A k \in 1 .. 9 : ~Current(Settings[k])'
    BY <2>4
  <2> QED BY <2>1, <2>4, <2>5 DEF ChainInv, ConfigInv
<1>3. CASE StartModem
  <2>1. /\ stack' = <<>> /\ pending' = "none" /\ chain' = "none" /\ initState' = "NONE" /\ acked' = {}
    BY <1>3 DEF StartModem, Reboots
  <2>2. \A c \in ChainCommand : ~Current(c)'
    BY <2>1 DEF Current, Has
  <2>3. OneInv'
    BY <2>1 DEF OneInv, Sole
  <2> QED BY <2>1, <2>2, <2>3 DEF ChainInv, ConfigInv
<1>4. ASSUME NEW type \in FinalType, CheckAnswer(type) \/ UnlockAnswer(type) \/ SettingAnswer(type)
      PROVE  ChainInv' /\ ConfigInv'
  <2>1. Final(type) /\ pending \in ChainCommand
    BY <1>4 DEF CheckAnswer, UnlockAnswer, SettingAnswer
  <2>2. OneInv /\ acked \subseteq ChainCommand \ {"CPIN?"}
    BY DEF ChainInv, ConfigInv
  <2>3. /\ \A x \in ChainCommand : ~Has(stack, x)
        /\ chain = "going" /\ initState # "NONE" /\ initState # "WAIT_CREG"
    BY <2>1 DEF ChainInv, ConfigInv, OneInv, Current
  <2>4. /\ pending' = "none" /\ pending' \notin ChainCommand
        /\ acked' \subseteq ChainCommand \ {"CPIN?"}
        /\ type = "OK" /\ pending \in ChainCommand \ {"CPIN?"} =>
              "answer" \in lost' \/ acked' = acked \cup {pending}
        /\ "answer" \in lost => "answer" \in lost'
    BY <2>1, <2>2, AnswerCounts
  <2>5. CASE Ends /\ (initState' = initState)
    <3>1. UNCHANGED stack /\ chain' = "stopped"
      BY <2>5 DEF Ends
    <3>2. OneInv' /\ \A x \in ChainCommand : ~Current(x)'
      BY <2>2, <2>3, <2>4, <3>1, ChainEnds
    <3> QED BY <2>3, <2>4, <2>5, <3>1, <3>2 DEF ChainInv, ConfigInv
  <2>6. ASSUME NEW c \in ChainCommand, GoOn(c), initState' \in {initState, "CONFIG"},
               \A k \in 1 .. 9 : c = Settings[k] =>
                 isSimUnlocked' /\ ("answer" \in lost' \/ Before(k) \subseteq acked')
        PROVE  ChainInv' /\ ConfigInv'
    <3>1. /\ OneInv'
          /\ chain' = "going" <=> \E x \in ChainCommand : Current(x)'
          /\ \A x \in ChainCommand : Current(x)' => x = c
      BY <2>2, <2>3, <2>4, <2>6, GoesOn
    <3>2. \A k \in 1 .. 9 : Current(Settings[k])' => c = Settings[k]
      BY <3>1
    <3> QED BY <2>3, <2>4, <2>6, <3>1, <3>2 DEF ChainInv, ConfigInv
  <2>7. CASE CheckAnswer(type)
    <3>1. \A k \in 1 .. 9 : "CPIN?" # Settings[k] /\ "CPIN" # Settings[k]
      OBVIOUS
    <3>2. initState' = initState /\ (GoOn("CPIN") \/ GoOn("CPIN?") \/ Ends)
      BY <2>7 DEF CheckAnswer
    <3> QED BY <2>5, <2>6, <3>1, <3>2
  <2>8. CASE UnlockAnswer(type)
    <3>1. CASE type = "OK"
      <4>1. pending = "CPIN" /\ isSimUnlocked' /\ initState' = "CONFIG" /\ GoOn("CREG")
        BY <2>8, <3>1 DEF UnlockAnswer
      <4>2. 1 \in 1 .. 9 /\ Settings[1] = "CREG" /\ Before(1) = {"CPIN"}
        BY DEF Settings, Before
      <4>3. \A k \in 1 .. 9 : "CREG" = Settings[k] => k = 1
        BY <4>2, SettingNames
      <4>4. "answer" \in lost' \/ Before(1) \subseteq acked'
        BY <2>4, <3>1, <4>1, <4>2
      <4>5. "CREG" \in ChainCommand
        BY <4>2
      <4> QED BY <2>6, <4>1, <4>3, <4>4, <4>5
    <3>2. CASE type # "OK"
      BY <2>5, <2>8, <3>2 DEF UnlockAnswer
    <3> QED BY <3>1, <3>2
  <2>9. CASE SettingAnswer(type)
    <3>1. PICK k \in 1 .. 9 : pending = Settings[k]
      BY <2>9 DEF SettingAnswer
    <3>2. isSimUnlocked /\ ("answer" \in lost \/ Before(k) \subseteq acked) /\ isSimUnlocked' = isSimUnlocked
      BY <2>9, <3>1 DEF ConfigInv, Current, SettingAnswer
    <3>3. pending \in ChainCommand \ {"CPIN?"}
      BY <3>1
    <3>4. CASE Ends /\ UNCHANGED initState
      BY <2>5, <3>4
    <3>5. CASE type = "OK" /\ pending # "UCALLSTAT" /\ GoOn(After(pending)) /\ UNCHANGED initState
      <4>1. k \in 1 .. 8 /\ k + 1 \in 1 .. 9
        BY <3>1, <3>5, SettingNames
      <4>2. After(pending) = Settings[k + 1] /\ Settings[k + 1] \in ChainCommand
        BY <3>1, <4>1, AfterIsNext
      <4>3. \A j \in 1 .. 9 : Settings[k + 1] = Settings[j] => j = k + 1
        BY <4>1, SettingNames
      <4>4. Before(k + 1) = Before(k) \cup {pending}
        <5>1. 1 .. (k + 1) - 1 = (1 .. k - 1) \cup {k}
          BY <4>1
        <5> QED BY <3>1, <5>1 DEF Before
      <4>5. "answer" \in lost' \/ Before(k + 1) \subseteq acked'
        BY <2>4, <3>2, <3>3, <3>5, <4>4
      <4> QED BY <2>6, <3>2, <3>5, <4>2, <4>3, <4>5
    <3>6. CASE /\ type = "OK" /\ pending = "UCALLSTAT"
               /\ initState' = "WAIT_CREG" /\ chain' = "done" /\ UNCHANGED stack
      <4>1. k = 9
        BY <3>1, <3>6, SettingNames
      <4>2. Before(9) \cup {Settings[9]} = ChainCommand \ {"CPIN?"}
        <5>1. 1 .. 9 = (1 .. 9 - 1) \cup {9}
          OBVIOUS
        <5>2. Setting = {Settings[j] : j \in 1 .. 9 - 1} \cup {Settings[9]}
          BY <5>1, SettingNames DEF Setting
        <5> QED BY <5>2 DEF Before, ChainCommand
      <4>3. OneInv' /\ \A x \in ChainCommand : ~Current(x)'
        BY <2>2, <2>3, <2>4, <3>6, ChainEnds
      <4>4. acked' = ChainCommand \ {"CPIN?"} \/ "answer" \in lost'
        BY <2>2, <2>4, <3>1, <3>2, <3>3, <3>6, <4>1, <4>2
      <4> QED BY <2>4, <3>2, <3>6, <4>3, <4>4 DEF ChainInv, ConfigInv, Configured
    <3> QED BY <2>9, <3>4, <3>5, <3>6 DEF SettingAnswer
  <2> QED BY <1>4, <2>7, <2>8, <2>9
<1> QED BY <1>1, <1>2, <1>3, <1>4, QuietAnswers, QuietEvents, QuietOthers DEF Next, Answers, Users

-----------------------------------------------------------------------------
(* Texts and calling numbers                                               *)

\* A text that is awaited is the one that the modem is to send, unless that was lost.
TextInv ==
  /\ TextIsItsOwn
  /\ incomingSms /\ "text" \notin lost => modem.due = "heard"

\* The number is freed memory only after a start in a call, and another call's only
\* after an end of a call that was lost.
NumberInv ==
  /\ NumberIsCallers
  /\ callingNumber = "freed" => "reboot" \in lost
  /\ callingNumber = "old" \/ (callingNumber = "current" /\ modem.call = "DISCONNECTED") =>
       lost \cap {"end", "reboot"} # {}

LEMMA MissedText ==
  ASSUME TextInv, NEW kinds \in SUBSET {"end", "text"}, NEW own,
         Missed(kinds, own), own \/ modem.due = "none"
  PROVE  "text" \notin wrong' /\ (incomingSms' => incomingSms /\ pending # "none" /\ lost \subseteq lost')
BY DEF Missed, Heard, TextInv, TextIsItsOwn

LEMMA TextStep ==
  ASSUME TypeOK, TextInv, [Next]_vars
  PROVE  TextInv'
<1> USE DEF TextInv
<1>1. CASE /\ incomingSms' = incomingSms /\ modem'.due = modem.due
           /\ "text" \in wrong' => "text" \in wrong
           /\ "text" \in lost => "text" \in lost'
  BY <1>1 DEF TextIsItsOwn
<1>2. CASE Answers
  <2>1. ASSUME NEW type \in FinalType, Final(type) PROVE TextInv'
    <3>1. modem'.due = modem.due
      BY <2>1 DEF Final, TypeOK
    <3>2. incomingSms' = incomingSms /\ wrong' = wrong /\ ("text" \in lost => "text" \in lost')
      BY <2>1 DEF Final
    <3> QED BY <1>1, <3>1, <3>2
  <2>2. CASE \E state \in {"SIM PIN", "other"} : PinData(state)
    BY <1>1, <2>2 DEF PinData, history
  <2>3. CASE CallData
    BY <1>1, <2>3 DEF CallData, Frees
  <2> QED BY <1>2, <2>1, <2>2, <2>3 DEF Answers, CheckAnswer, UnlockAnswer, SettingAnswer, OtherAnswer
<1>3. CASE Events
  <2>1. ASSUME NEW connected \in BOOLEAN, RegEvent(connected) PROVE TextInv'
    <3>1. CASE Register(connected)
      BY <1>1, <2>1, <3>1 DEF RegEvent, Register, history
    <3>2. CASE Missed({}, FALSE)
      BY <2>1, <3>2, MissedText DEF RegEvent, TextIsItsOwn
    <3> QED BY <2>1, <3>1, <3>2 DEF RegEvent
  <2>2. CASE TextHeader
    <3>1. CASE Heard
      <4>1. modem'.due = "heard" /\ wrong' = wrong
        BY <2>2, <3>1 DEF TextHeader, Missed, TypeOK, history
      <4> QED BY <4>1 DEF TextIsItsOwn
    <3>2. CASE Missed({}, FALSE)
      BY <2>2, <3>2, MissedText DEF TextHeader, TextIsItsOwn
    <3> QED BY <2>2, <3>1, <3>2 DEF TextHeader
  <2>3. CASE TextLine
    <3> DEFINE own == modem.due = "heard"
               kinds == IF pending # "none" /\ incomingSms THEN {"text"} ELSE {}
    <3>1. CASE Heard
      BY <2>3, <3>1 DEF TextLine, Heard, Missed, history, TextIsItsOwn
    <3>2. CASE Missed(kinds, own)
      <4>1. CASE pending # "none"
        BY <2>3, <3>2, <4>1 DEF Missed, TextIsItsOwn
      <4>2. CASE pending = "none"
        <5>1. incomingSms' = FALSE /\ incomingSms
          BY <3>2, <4>2 DEF Missed, Heard
        <5>2. own \/ "text" \in lost
          BY <5>1
        <5>3. wrong' = wrong
          BY <3>2, <4>2, <5>2 DEF Missed
        <5> QED BY <5>1, <5>3 DEF TextIsItsOwn
      <4> QED BY <4>1, <4>2
    <3> QED BY <2>3, <3>1, <3>2 DEF TextLine
  <2>4. ASSUME NEW s \in CallState, CallEvent(s) PROVE TextInv'
    <3>1. modem'.due = modem.due /\ modem.due = "none"
      BY <2>4 DEF CallEvent, TypeOK
    <3>2. CASE CallChanges(s)
      <4>1. incomingSms' = incomingSms
        BY <3>2, CallChangesCases
      <4>2. "text" \in wrong' => "text" \in wrong
        BY <3>2, CallChangesCases DEF Tells, Frees, Disconnects
      <4>3. "text" \in lost => "text" \in lost'
        BY <3>2, CallChangesCases DEF Disconnects
      <4> QED BY <1>1, <3>1, <4>1, <4>2, <4>3
    <3>3. CASE Missed(IF s = "DISCONNECTED" /\ callingNumber # "NULL" THEN {"end"} ELSE {}, FALSE)
      BY <3>1, <3>3, MissedText DEF TextIsItsOwn
    <3> QED BY <2>4, <3>2, <3>3 DEF CallEvent
  <2>5. CASE OtherEvent
    BY <2>5, MissedText DEF OtherEvent, TextIsItsOwn
  <2>6. CASE LateAnswer
    <3>1. modem'.due = modem.due /\ modem.due = "none"
      BY <2>6 DEF LateAnswer, TypeOK
    <3>2. CASE UNCHANGED <<incomingSms, history>>
      BY <1>1, <3>1, <3>2 DEF history
    <3>3. CASE Missed({}, FALSE)
      BY <3>1, <3>3, MissedText DEF TextIsItsOwn
    <3> QED BY <2>6, <3>2, <3>3 DEF LateAnswer
  <2> QED BY <1>3, <2>1, <2>2, <2>3, <2>4, <2>5, <2>6 DEF Events
<1>4. CASE Connect
  BY <1>1, <1>4 DEF Connect
<1>5. CASE StartModem
  BY <1>5 DEF StartModem, Reboots, Frees, TextIsItsOwn
<1>6. CASE \/ AddCommand \/ ForceCommand \/ LoopSend \/ OnTimerComplete \/ BootCompletes
           \/ UNCHANGED vars
  BY <1>1, <1>6 DEF AddCommand, ForceCommand, LoopSend, OnTimerComplete, BootCompletes, vars, history
<1> QED BY <1>2, <1>3, <1>4, <1>5, <1>6 DEF Next, Users

\* An event that is missed takes nothing from what is known of the number.
LEMMA MissedNumber ==
  ASSUME NumberInv, NEW kinds \in SUBSET {"end", "text"}, NEW own, Missed(kinds, own)
  PROVE  /\ NumberIsCallers'
         /\ lost \cap {"end", "reboot"} \subseteq lost'
         /\ kinds \subseteq lost'
BY DEF Missed, NumberInv, NumberIsCallers

LEMMA NumberStep ==
  ASSUME TypeOK, NumberInv, [Next]_vars
  PROVE  NumberInv'
<1> USE DEF NumberInv
<1>1. ASSUME callingNumber' = callingNumber, modem'.call = modem.call,
             lost \cap {"end", "reboot"} \subseteq lost', NumberIsCallers'
      PROVE  NumberInv'
  BY <1>1
<1>2. callingNumber = "freed" => "reboot" \in lost
  OBVIOUS
<1>3. Frees => NumberIsCallers'
  BY <1>2 DEF Frees, NumberIsCallers
<1>4. CASE Answers
  <2>1. ASSUME NEW type \in FinalType, Final(type) PROVE NumberInv'
    <3>1. modem'.call = modem.call
      BY <2>1 DEF Final, TypeOK
    <3>2. callingNumber' = callingNumber /\ wrong' = wrong /\ lost \subseteq lost'
      BY <2>1 DEF Final
    <3> QED BY <1>1, <3>1, <3>2 DEF NumberIsCallers
  <2>2. CASE \E state \in {"SIM PIN", "other"} : PinData(state)
    BY <1>1, <2>2 DEF PinData, history, NumberIsCallers
  <2>3. CASE CallData
    BY <1>3, <2>3 DEF CallData, service
  <2> QED BY <1>4, <2>1, <2>2, <2>3 DEF Answers, CheckAnswer, UnlockAnswer, SettingAnswer, OtherAnswer
<1>5. CASE Events
  <2>1. ASSUME NEW connected \in BOOLEAN, RegEvent(connected) PROVE NumberInv'
    <3>1. CASE Register(connected)
      BY <1>1, <2>1, <3>1 DEF RegEvent, Register, history, NumberIsCallers
    <3>2. CASE Missed({}, FALSE) /\ UNCHANGED callingNumber
      BY <1>1, <2>1, <3>2, MissedNumber DEF RegEvent
    <3> QED BY <2>1, <3>1, <3>2 DEF RegEvent
  <2>2. CASE TextHeader \/ TextLine \/ OtherEvent \/ LateAnswer
    <3>1. modem'.call = modem.call
      BY <2>2 DEF TextHeader, TextLine, OtherEvent, LateAnswer, TypeOK
    <3>2. \/ UNCHANGED <<callingNumber, history>>
          \/ Missed({}, FALSE) /\ UNCHANGED callingNumber
          \/ /\ Missed(IF pending # "none" /\ incomingSms THEN {"text"} ELSE {}, modem.due = "heard")
             /\ UNCHANGED callingNumber
      BY <2>2 DEF TextHeader, TextLine, OtherEvent, LateAnswer
    <3>3. CASE UNCHANGED <<callingNumber, history>>
      BY <1>1, <3>1, <3>3 DEF history, NumberIsCallers
    <3> QED BY <1>1, <3>1, <3>2, <3>3, MissedNumber
  <2>3. ASSUME NEW s \in CallState, CallEvent(s) PROVE NumberInv'
    <3>1. modem'.call = s /\ NextCall(s) /\ modem.call \in CallState
      BY <2>3 DEF CallEvent, TypeOK
    <3>2. \/ s = "INCOMING" /\ modem.call = "DISCONNECTED"
          \/ s \in {"ACTIVE", "DISCONNECTED"} /\ modem.call # "DISCONNECTED"
      BY <3>1, NextCallCases
    <3>3. s = "INCOMING" /\ Aged = "old" => lost \cap {"end", "reboot"} # {}
      BY <3>2 DEF Aged
    <3>4. s = "INCOMING" /\ Aged = "freed" => "reboot" \in lost
      BY <1>2 DEF Aged
    <3>5. Aged # "current"
      BY DEF Aged
    <3>6. ASSUME NEW n, Tells(n), n \in {"old", "freed"} => lost \cap {"end", "reboot"} # {}
          PROVE  NumberIsCallers'
      BY <3>6 DEF Tells, NumberIsCallers
    <3>7. CASE CallChanges(s)
      <4>1. CASE s = "INCOMING"
        <5>1. callingNumber' = Aged /\ lost' = lost /\ (wrong' = wrong \/ Tells(Aged))
          BY <3>7, <4>1, CallChangesCases
        <5>2. NumberIsCallers'
          BY <3>3, <3>4, <3>6, <4>1, <5>1 DEF NumberIsCallers
        <5> QED BY <3>3, <3>4, <3>5, <4>1, <5>1, <5>2
      <4>2. CASE s = "ACTIVE"
        <5>1. callingNumber' = callingNumber /\ lost' = lost /\ Tells(callingNumber)
          BY <3>7, <4>2, CallChangesCases
        <5>2. NumberIsCallers'
          BY <3>6, <5>1
        <5> QED BY <3>1, <4>2, <5>1, <5>2
      <4>3. CASE s = "DISCONNECTED"
        <5>1. Frees /\ callingNumber' = "NULL"
          BY <3>7, <4>3, CallChangesCases DEF Disconnects
        <5> QED BY <1>3, <5>1
      <4> QED BY <4>1, <4>2, <4>3 DEF CallState
    <3>8. CASE /\ Missed(IF s = "DISCONNECTED" /\ callingNumber # "NULL" THEN {"end"} ELSE {}, FALSE)
               /\ callingNumber' = IF s = "INCOMING" THEN Aged ELSE callingNumber
      <4> DEFINE kinds == IF s = "DISCONNECTED" /\ callingNumber # "NULL" THEN {"end"} ELSE {}
      <4>1. NumberIsCallers' /\ lost \cap {"end", "reboot"} \subseteq lost' /\ kinds \subseteq lost'
        BY <3>8, MissedNumber
      <4>2. s = "DISCONNECTED" /\ callingNumber # "NULL" => "end" \in lost'
        BY <4>1
      <4> QED BY <3>1, <3>3, <3>4, <3>5, <3>8, <4>1, <4>2
    <3> QED BY <2>3, <3>7, <3>8 DEF CallEvent
  <2> QED BY <1>5, <2>1, <2>2, <2>3 DEF Events
<1>6. CASE Connect
  BY <1>1, <1>6 DEF Connect, NumberIsCallers
<1>7. CASE StartModem
  <2>1. Frees /\ callingNumber' \in {"NULL", "freed"} /\ (callingNumber' = "freed" => lost' = {"reboot"})
    BY <1>7 DEF StartModem, Reboots
  <2> QED BY <1>3, <2>1
<1>8. CASE \/ AddCommand \/ ForceCommand \/ LoopSend \/ OnTimerComplete \/ BootCompletes
           \/ UNCHANGED vars
  BY <1>1, <1>8 DEF AddCommand, ForceCommand, LoopSend, OnTimerComplete, BootCompletes, vars, history,
     NumberIsCallers
<1> QED BY <1>4, <1>5, <1>6, <1>7, <1>8 DEF Next, Users

-----------------------------------------------------------------------------
(* The theorems                                                            *)

IInv == TypeOK /\ PollInv /\ ChainInv /\ ConfigInv /\ TextInv /\ NumberInv

LEMMA Inductive == Spec => []IInv
<1>1. Init => IInv
  <2> SUFFICES ASSUME Init PROVE IInv
    OBVIOUS
  <2>1. stack = <<>> /\ pending = "none" /\ DOMAIN stack = {} /\ "none" \notin ChainCommand
    BY CommandNames DEF Init
  <2>2. ChainInv /\ \A c \in ChainCommand : ~Current(c)
    BY <2>1 DEF Init, ChainInv, OneInv, Sole, Current, Has
  <2>3. ConfigInv
    BY <2>2, CommandNames DEF Init, ConfigInv
  <2>4. NetworkType /\ PollType /\ TextType /\ NumberType /\ HistoryType
    BY DEF Init, NetworkType, PollType, TextType, NumberType, HistoryType
  <2>5. ServiceType /\ ModemType
    BY NetworkAssumption DEF Init, ServiceType, ModemType, Silent, CallState
  <2>6. PollInv /\ TextInv /\ NumberInv
    BY DEF Init, PollInv, TextInv, TextIsItsOwn, NumberInv, NumberIsCallers
  <2> QED BY <2>2, <2>3, <2>4, <2>5, <2>6, TypeParts DEF IInv
<1>2. IInv /\ [Next]_vars => IInv'
  <2> SUFFICES ASSUME IInv, [Next]_vars PROVE IInv'
    OBVIOUS
  <2>1. TypeOK /\ PollInv /\ ChainInv /\ ConfigInv /\ TextInv /\ NumberInv
    BY DEF IInv
  <2> QED BY <2>1, TypeStep, PollStep, ChainStep, TextStep, NumberStep DEF IInv
<1> QED BY <1>1, <1>2, PTL DEF Spec

\* GSMNetworkHandler::OnGSMResponse: the unlocking and the nine settings are one
\* command at a time, in the stack or on the line, until the chain ends.
THEOREM ChainIsOne == Spec => []OneChain
<1>1. IInv => OneChain
  <2> SUFFICES ASSUME IInv PROVE OneChain
    OBVIOUS
  <2> DEFINE waiting == {i \in DOMAIN stack : stack[i] \in ChainCommand}
  <2>1. TypeOK /\ ChainInv /\ OneInv
    BY DEF IInv, ChainInv
  <2>2. \A i, j \in waiting : i = j
    BY <2>1 DEF OneInv, Sole
  <2>3. (\E c \in ChainCommand : Has(stack, c)) <=> waiting # {}
    BY DEF Has
  <2>4. Cardinality(waiting) = IF waiting = {} THEN 0 ELSE 1
    <3>1. CASE waiting = {}
      BY <3>1, FS_EmptySet
    <3>2. CASE waiting # {}
      <4>1. PICK i \in waiting : waiting = {i}
        BY <2>2, <3>2
      <4> QED BY <4>1, FS_Singleton
    <3> QED BY <3>1, <3>2
  <2>5. pending \in ChainCommand => waiting = {}
    BY <2>1, <2>3 DEF OneInv
  <2>6. chain = "going" <=> waiting # {} \/ pending \in ChainCommand
    BY <2>1, <2>3 DEF ChainInv, Current
  <2> HIDE DEF waiting
  <2>7. Cardinality(waiting) + (IF pending \in ChainCommand THEN 1 ELSE 0)
          = IF chain = "going" THEN 1 ELSE 0
    BY <2>4, <2>5, <2>6
  <2> QED BY <2>1, <2>7 DEF OneChain, waiting
<1> QED BY <1>1, Inductive, PTL

\* GSMNetworkHandler::OnGSMResponse: the registration is awaited only with the SIM
\* unlocked and every setting acknowledged, but for answers that came late.
THEOREM WaitsConfigured == Spec => []Configured
<1>1. IInv => Configured
  BY DEF IInv, ConfigInv, Configured
<1> QED BY <1>1, Inductive, PTL

\* FetchTime, OnTimerComplete and OnModemReboot: one timer asks for the time.
THEOREM PollIsOne == Spec => []OnePoll
<1>1. IInv => OnePoll
  BY DEF IInv, PollInv, OnePoll
<1> QED BY <1>1, Inductive, PTL

\* GSMNetworkHandler::OnGSMEvent: the line after +CMT is told as the text that
\* belongs to it, unless a command took that text for its answer.
THEOREM TextBelongs == Spec => []TextIsItsOwn
<1>1. IInv => TextIsItsOwn
  BY DEF IInv, TextInv
<1> QED BY <1>1, Inductive, PTL

\* GSMCallHandler::OnGSMEvent and OnModemReboot: no call is told with another
\* call's number, unless an end was lost or the modem started in a call.
THEOREM NumberBelongs == Spec => []NumberIsCallers
<1>1. IInv => NumberIsCallers
  BY DEF IInv, NumberInv
<1> QED BY <1>1, Inductive, PTL

=============================================================================
