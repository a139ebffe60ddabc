------------------------------ MODULE GsmSockets ------------------------------
(***************************************************************************)
(* TCP sockets over the modem: GSMSocketHandler, GSMSocket, SocketArray    *)
(* and ByteStackArray of lib/async-GSM and lib/arduino-helpers.            *)
(*                                                                         *)
(* Below is the command service of BaseGSMHandler, one command on the line *)
(* and a stack of commands that wait, as GsmModem models it in detail: a   *)
(* line that arrives while a command is pending is an answer to it, even   *)
(* when the modem meant it as an event.  Above are the users of the        *)
(* sockets.  They may call from any callback; the handler does nothing     *)
(* after a callback that a call could disturb, so calls are steps of       *)
(* their own.  Data is a sequence of units, numbered modulo UnitMod in the *)
(* order in which a socket accepted them.                                  *)
(***************************************************************************)
EXTENDS Integers, Sequences, FiniteSets, SequencesExt

CONSTANTS
  MAX_SOCKET_AMOUNT,       (* capacity of socketArray, ids of the modem     *)
  OUT_MESSAGE_STACK_SIZE,  (* capacity of the stack of commands             *)
  MaxPackets, PacketSize,  (* of a socket's outgoingMessageStack            *)
  ConnectOptions,          (* <<keepAlive, ssl>> that users ask for         *)
  UnitMod,                 (* units are numbered modulo this                *)
  MaxLost                  (* bound: close events that are lost at a time   *)

ASSUME SocketsAssumption ==
  /\ MAX_SOCKET_AMOUNT \in 1 .. 254
  /\ OUT_MESSAGE_STACK_SIZE \in Nat \ {0}
  /\ MaxPackets \in Nat \ {0} /\ PacketSize \in Nat \ {0}
  /\ ConnectOptions \subseteq BOOLEAN \X BOOLEAN
  /\ UnitMod \in Nat /\ UnitMod > (MaxPackets + 1) * PacketSize
  /\ MaxLost \in Nat

VARIABLES
  socketArray,              (* the open sockets, oldest first               *)
  pendingSockTransmission,  (* whose packet is being written, or NONE       *)
  stack,                    (* commandStack: commands that wait             *)
  pending,                  (* pendingCMD, or NoCommand                     *)
  booted,                   (* MODEM_BOOT_COMPLETED                         *)
  modem,                    (* ids of the sockets that are open in the modem *)
  created,                  (* the pending +USOCR has named its socket      *)
  lost,                     (* history: ids whose close event was an answer *)
  refused,                  (* history: connecting, and a command refused   *)
  orphan                    (* history: the packet that waits in stack      *)
                            (* belongs to a socket that is gone             *)

handler == <<socketArray, pendingSockTransmission>>
service == <<stack, pending, booted>>
history == <<lost, refused, orphan>>
vars == <<handler, service, modem, created, history>>

Id == 0 .. MAX_SOCKET_AMOUNT - 1
NONE == 255
Unit == 0 .. UnitMod - 1

CommandName == {"USOCR", "USOCO", "USOSO", "USOSO keepidle", "USOSEC", "USORD", "USOWR", "USOCL"}
Command(c, s) == [cmd |-> c, id |-> s, data |-> <<>>]
NoCommand == Command("none", 0)

-----------------------------------------------------------------------------
(* SocketArray                                                             *)

Has(s) == \E i \in DOMAIN socketArray : socketArray[i].id = s
\* Mutant: UnshiftSocket and PeekSocket find the oldest socket.
IndexOldest(s) == 1

Index(s) == CHOOSE i \in DOMAIN socketArray :
  socketArray[i].id = s /\ \A j \in 1 .. i - 1 : socketArray[j].id # s
PeekSocket(s) == socketArray[Index(s)]

GSMSocket(s) ==
  [id |-> s, state |-> "DISCONNECTED", ssl |-> FALSE, closeTimer |-> FALSE,
   out |-> <<>>, freed |-> FALSE, accepted |-> 0, written |-> 0]

(* ByteStackArray: packets of at most PacketSize units                     *)

IsFull(out) == Len(out) = MaxPackets /\ Len(Last(out)) = PacketSize

AppendUnit(out, u) ==
  IF out # <<>> /\ Len(Last(out)) < PacketSize
  THEN Append(Front(out), Append(Last(out), u))
  ELSE Append(out, <<u>>)

\* History: the units of r up to u are with the modem.  Numbers start again when
\* nothing waits.
HandedOver(r, u) ==
  IF r.out = <<>> THEN [r EXCEPT !.written = 0, !.accepted = 0] ELSE [r EXCEPT !.written = u]

(* The command service                                                     *)

Waiting == {stack[k] : k \in DOMAIN stack}
InFlight == Waiting \cup ({pending} \ {NoCommand})
WriteInFlight == \E c \in InFlight : c.cmd = "USOWR"

\* AddCommand for socket s; callers in a chain ignore its result.
AddCommand(c, s) ==
  IF Len(stack) < OUT_MESSAGE_STACK_SIZE
  THEN stack' = Append(stack, Command(c, s)) /\ UNCHANGED refused
  ELSE /\ refused' = IF c = "USOCL" THEN refused ELSE refused \cup {s}
       /\ UNCHANGED stack

-----------------------------------------------------------------------------
Init ==
  /\ socketArray = <<>> /\ pendingSockTransmission = NONE
  /\ stack = <<>> /\ pending = NoCommand /\ booted = FALSE
  /\ modem = {} /\ created = FALSE
  /\ lost = {} /\ refused = {} /\ orphan = FALSE

\* DestroySocket: unlist the socket, tell the listener, delete it; missed: ids whose
\* close event the same line was.  What history says of s ends with its last socket.
Destroy(s, missed) ==
  LET last == Cardinality({i \in DOMAIN socketArray : socketArray[i].id = s}) <= 1
      ended == IF last THEN {s} ELSE {}
  IN /\ socketArray' = IF Has(s) THEN RemoveAt(socketArray, Index(s)) ELSE socketArray
     /\ lost' = (lost \cup missed) \ ended
     /\ refused' = refused \ ended
     /\ orphan' = (orphan \/ \E c \in Waiting : c.cmd = "USOWR" /\ c.id = s)

DestroySocket(s) == Destroy(s, {})

\* Mutant: the packet stays in the queue.
SendPacketKept(a, i) ==
  /\ pendingSockTransmission' = a[i].id
  /\ socketArray' = a
  /\ IF Len(stack) < OUT_MESSAGE_STACK_SIZE
     THEN stack' = Append(stack, [Command("USOWR", a[i].id) EXCEPT !.data = Head(a[i].out)])
     ELSE UNCHANGED stack
  /\ UNCHANGED orphan

\* Send once it is sure that nothing is pending and socket a[i] has a packet: the
\* command takes the packet over, and a refused command deletes it.
SendPacket(a, i) ==
  /\ pendingSockTransmission' = a[i].id
  /\ IF Len(stack) < OUT_MESSAGE_STACK_SIZE
     THEN /\ stack' = Append(stack, [Command("USOWR", a[i].id) EXCEPT !.data = Head(a[i].out)])
          /\ socketArray' = [a EXCEPT ![i].out = Tail(@)]
          /\ orphan' = FALSE
     ELSE /\ socketArray' = [a EXCEPT ![i].freed = TRUE]
          /\ UNCHANGED <<stack, orphan>>

\* Mutant: the search starts at socket 0 every time.
SendFirstAvailableData ==
  LET ready == {s \in Id : Has(s) /\ PeekSocket(s).out # <<>>}
  IN IF ready = {}
     THEN pendingSockTransmission' = NONE /\ UNCHANGED <<socketArray, stack, orphan>>
     ELSE SendPacket(socketArray, Index(CHOOSE s \in ready : \A r \in ready : s <= r))

\* SendNextAvailableData: the next socket after the one just served, in the order
\* of ids and round again, that has a packet.
SendNextAvailableData ==
  LET from == LET n == (pendingSockTransmission + 1) % 256
              IN IF n >= MAX_SOCKET_AMOUNT THEN 0 ELSE n
      Distance(s) == (s - from + MAX_SOCKET_AMOUNT) % MAX_SOCKET_AMOUNT
      ready == {s \in Id : Has(s) /\ PeekSocket(s).out # <<>>}
  IN IF ready = {}
     THEN pendingSockTransmission' = NONE /\ UNCHANGED <<socketArray, stack, orphan>>
     ELSE SendPacket(socketArray,
            Index(CHOOSE s \in ready : \A r \in ready : Distance(s) <= Distance(r)))

\* OnConnectionConfirm on socket r.
OnConnectionConfirm(r, ok) ==
  IF ok THEN [r EXCEPT !.state = "READY"]
  ELSE [r EXCEPT !.state = "CLOSING_DELAY", !.closeTimer = TRUE]

Confirm(s, ok) ==
  /\ socketArray' = IF Has(s) THEN [socketArray EXCEPT ![Index(s)] = OnConnectionConfirm(@, ok)]
                    ELSE socketArray
  /\ refused' = refused \ {s}

-----------------------------------------------------------------------------
(* The users' calls                                                        *)

\* A refused command changes nothing here.
CreateSocket ==
  /\ Len(socketArray) < MAX_SOCKET_AMOUNT
  /\ Len(stack) < OUT_MESSAGE_STACK_SIZE
  /\ stack' = Append(stack, Command("USOCR", 0))
  /\ UNCHANGED <<handler, pending, booted, modem, created, history>>

Connect(i, keepAlive, ssl) ==
  /\ socketArray[i].state = "DISCONNECTED"
  /\ socketArray' = [socketArray EXCEPT ![i].state = "CONNECTING", ![i].ssl = ssl]
  /\ AddCommand(IF keepAlive THEN "USOSO" ELSE IF ssl THEN "USOSEC" ELSE "USOCO",
                socketArray[i].id)
  /\ UNCHANGED <<pendingSockTransmission, pending, booted, modem, created, lost, orphan>>

Close(i) ==
  /\ socketArray[i].state \notin {"CLOSING", "CLOSING_DELAY"}
  /\ socketArray' = [socketArray EXCEPT ![i].state = "CLOSING"]
  /\ AddCommand("USOCL", socketArray[i].id)
  /\ UNCHANGED <<pendingSockTransmission, pending, booted, modem, created, lost, orphan>>

CanSend(i) ==
  /\ socketArray[i].state = "READY"
  /\ socketArray[i].out = <<>> \/ ~IsFull(socketArray[i].out)

\* Mutant: Send does not ask whether a packet is pending.
SendDataAtOnce(i) ==
  /\ CanSend(i)
  /\ LET u == (socketArray[i].accepted + 1) % UnitMod
     IN SendPacket([socketArray EXCEPT ![i].out = AppendUnit(@, u), ![i].accepted = u], i)
  /\ UNCHANGED <<pending, booted, modem, created, lost, refused>>

\* SendData of one unit, and Send.
SendData(i) ==
  /\ CanSend(i)
  /\ LET u == (socketArray[i].accepted + 1) % UnitMod
         a == [socketArray EXCEPT ![i].out = AppendUnit(@, u), ![i].accepted = u]
     IN IF pendingSockTransmission = NONE
        THEN SendPacket(a, i)
        ELSE socketArray' = a /\ UNCHANGED <<pendingSockTransmission, stack, orphan>>
  /\ UNCHANGED <<pending, booted, modem, created, lost, refused>>

CloseTimerCompletes(i) ==
  /\ socketArray[i].closeTimer
  /\ DestroySocket(socketArray[i].id)
  /\ UNCHANGED <<pendingSockTransmission, service, modem, created>>

-----------------------------------------------------------------------------
(* The modem's answers                                                     *)

\* BaseGSMHandler::Loop: the next command goes to the modem.
LoopSend ==
  /\ booted /\ pending = NoCommand /\ stack # <<>>
  /\ LET c == Head(stack)
     IN /\ pending' = c
        /\ socketArray' = IF c.cmd = "USOWR" /\ ~orphan /\ Has(c.id)
                          THEN [socketArray EXCEPT ![Index(c.id)] = HandedOver(@, Last(c.data))]
                          ELSE socketArray
        /\ orphan' = IF c.cmd = "USOWR" THEN FALSE ELSE orphan
  /\ stack' = Tail(stack)
  /\ UNCHANGED <<pendingSockTransmission, booted, modem, created, lost, refused>>

\* "+USOCR: s"; a socket the array has no room for stays outside of it.
CreateAnswer(s) ==
  /\ pending.cmd = "USOCR" /\ ~created
  /\ s \notin modem
  /\ modem' = modem \cup {s}
  /\ created' = TRUE
  /\ socketArray' = IF Len(socketArray) < MAX_SOCKET_AMOUNT
                    THEN Append(socketArray, GSMSocket(s)) ELSE socketArray
  /\ UNCHANGED <<pendingSockTransmission, service, history>>

\* The final result of the pending command: OK only for a socket the modem has, or
\* one of ERROR, ABORTED, a timeout and an overflow.
Final(ok) ==
  /\ pending # NoCommand
  /\ ok /\ pending.cmd # "USOCR" => pending.id \in modem
  /\ pending' = NoCommand
  /\ created' = FALSE
  /\ UNCHANGED booted

CreateFinal(ok) ==
  /\ pending.cmd = "USOCR" /\ Final(ok)
  /\ UNCHANGED <<handler, stack, modem, history>>

ConnectFinal(ok) ==
  /\ pending.cmd = "USOCO" /\ Final(ok)
  /\ Confirm(pending.id, ok)
  /\ UNCHANGED <<pendingSockTransmission, stack, modem, lost, orphan>>

\* OK to +USOSO asks for the idle time, of the socket found (of any id when there is
\* none: sock->GetId() on NULL).
KeepAliveFinal ==
  /\ pending.cmd = "USOSO" /\ Final(TRUE)
  /\ \E s \in Id : (Has(pending.id) => s = pending.id) /\ AddCommand("USOSO keepidle", s)
  /\ UNCHANGED <<handler, modem, lost, orphan>>

\* Mutant: a refused option ends the chain.
ChainFinalIfOk(ok) ==
  /\ pending.cmd \in {"USOSO", "USOSO keepidle", "USOSEC"}
  /\ pending.cmd = "USOSO" => ~ok
  /\ Final(ok)
  /\ IF ok /\ Has(pending.id)
     THEN AddCommand(IF pending.cmd # "USOSEC" /\ PeekSocket(pending.id).ssl
                     THEN "USOSEC" ELSE "USOCO", pending.id)
     ELSE UNCHANGED <<stack, refused>>
  /\ UNCHANGED <<handler, modem, lost, orphan>>

\* OnKeepAliveConfirm and OnSSLConfirm: on to the next command of the chain,
\* whatever the result was.
ChainFinal(ok) ==
  /\ \/ pending.cmd = "USOSO" /\ ~ok
     \/ pending.cmd \in {"USOSO keepidle", "USOSEC"}
  /\ Final(ok)
  /\ IF Has(pending.id)
     THEN AddCommand(IF pending.cmd # "USOSEC" /\ PeekSocket(pending.id).ssl
                     THEN "USOSEC" ELSE "USOCO", pending.id)
     ELSE UNCHANGED <<stack, refused>>
  /\ UNCHANGED <<handler, modem, lost, orphan>>

ReadFinal(ok) ==
  /\ pending.cmd = "USORD" /\ Final(ok)
  /\ UNCHANGED <<handler, stack, modem, history>>

\* Only OK goes on to the next packet.
WriteFinal(ok) ==
  /\ pending.cmd = "USOWR" /\ Final(ok)
  /\ IF ok THEN SendNextAvailableData ELSE UNCHANGED <<handler, stack, orphan>>
  /\ UNCHANGED <<modem, lost, refused>>

\* A close command that failed may have closed the socket in the modem.
CloseFinal(ok) ==
  /\ pending.cmd = "USOCL" /\ Final(ok)
  /\ DestroySocket(pending.id)
  /\ modem' \in {modem \ {pending.id}} \cup (IF ok THEN {} ELSE {modem})
  /\ UNCHANGED <<pendingSockTransmission, stack>>

\* Any other line while a command is pending is an answer to it, and the close event
\* of the ids in missed is lost: a connect command takes it for a corrupted answer
\* and gives its socket up, the others ignore it.
DataLine(missed) ==
  /\ pending # NoCommand
  /\ IF pending.cmd = "USOCO"
     THEN Destroy(pending.id, missed)
     ELSE lost' = lost \cup missed /\ UNCHANGED <<socketArray, refused, orphan>>

-----------------------------------------------------------------------------
(* The modem's events                                                      *)

Idle == booted /\ pending = NoCommand

\* +UUSOCL: the peer closed s.
CloseEvent(s) ==
  /\ s \in modem
  /\ modem' = modem \ {s}
  /\ \/ Idle /\ DestroySocket(s)
     \/ ~booted /\ UNCHANGED <<socketArray, history>>
     \/ /\ DataLine(IF Has(s) THEN {s} ELSE {})
        /\ Cardinality(lost') <= MaxLost
  /\ UNCHANGED <<pendingSockTransmission, service, created>>

\* +UUSOCO: the late result of a connect command that has ended.
ConnectEvent(s, ok) ==
  /\ Idle /\ s \in modem /\ Has(s)
  /\ PeekSocket(s).state \notin {"DISCONNECTED", "CONNECTING"}
  /\ Confirm(s, ok)
  /\ UNCHANGED <<pendingSockTransmission, service, modem, created, lost, orphan>>

\* +UUSORD: data has come; the read goes before all that wait.
ReadEvent(s) ==
  /\ Idle /\ s \in modem
  /\ Len(stack) < OUT_MESSAGE_STACK_SIZE
  /\ stack' = <<Command("USORD", s)>> \o stack
  /\ UNCHANGED <<handler, pending, booted, modem, created, history>>

\* Any other line, +UUSORD among them, while a connect command is pending.
OtherLine ==
  /\ pending.cmd = "USOCO"
  /\ DataLine({})
  /\ UNCHANGED <<pendingSockTransmission, service, modem, created>>

-----------------------------------------------------------------------------
\* Mutant: the sockets outlive the reboot.
StartModemKeepsSockets ==
  /\ pendingSockTransmission' = NONE
  /\ stack' = <<>> /\ pending' = NoCommand /\ booted' = FALSE
  /\ modem' \in {modem, {}} /\ created' = FALSE
  /\ lost' = {} /\ refused' = {} /\ orphan' = FALSE
  /\ UNCHANGED socketArray

\* StartModem: OnModemReboot destroys all sockets, oldest first, then Flush drops all
\* commands.  A user told of one that is gone may send on one that is still there.
\* The modem forgets its sockets if it is reset.
StartModem ==
  /\ pendingSockTransmission' \in
       {NONE} \cup {socketArray[i].id : i \in {k \in 2 .. Len(socketArray) : CanSend(k)}}
  /\ socketArray' = <<>>
  /\ stack' = <<>> /\ pending' = NoCommand /\ booted' = FALSE
  /\ modem' \in {modem, {}} /\ created' = FALSE
  /\ lost' = {} /\ refused' = {} /\ orphan' = FALSE

BootCompletes ==
  /\ ~booted
  /\ booted' = TRUE
  /\ UNCHANGED <<handler, stack, pending, modem, created, history>>

Users ==
  \/ CreateSocket
  \/ \E i \in DOMAIN socketArray :
       \/ \E o \in ConnectOptions : Connect(i, o[1], o[2])
       \/ Close(i)
       \/ SendData(i)

Finals ==
  \/ KeepAliveFinal
  \/ \E ok \in BOOLEAN :
       \/ CreateFinal(ok) \/ ConnectFinal(ok) \/ ChainFinal(ok)
       \/ ReadFinal(ok) \/ WriteFinal(ok) \/ CloseFinal(ok)

Modem ==
  \/ Finals
  \/ \E s \in Id : \/ CreateAnswer(s) \/ CloseEvent(s) \/ ReadEvent(s)
                   \/ \E ok \in BOOLEAN : ConnectEvent(s, ok)
  \/ OtherLine

TimerOf(s) == \E i \in DOMAIN socketArray : socketArray[i].id = s /\ CloseTimerCompletes(i)

Next == Users \/ LoopSend \/ Modem \/ (\E s \in Id : TimerOf(s)) \/ StartModem \/ BootCompletes

Spec == Init /\ [][Next]_vars

\* The loop sends what waits when the line is free, the service ends every command,
\* and timers complete; users and the modem's events need never come.
Fairness == WF_vars(LoopSend) /\ WF_vars(Finals) /\ \A s \in Id : WF_vars(TimerOf(s))

FairSpec == Spec /\ Fairness

-----------------------------------------------------------------------------
TypeOK ==
  /\ socketArray \in Seq([id : Id, ssl : BOOLEAN, closeTimer : BOOLEAN, freed : BOOLEAN,
       state : {"DISCONNECTED", "CONNECTING", "READY", "CLOSING", "CLOSING_DELAY"},
       out : Seq(Seq(Unit)), accepted : Unit, written : Unit])
  /\ Len(socketArray) <= MAX_SOCKET_AMOUNT
  /\ \A i \in DOMAIN socketArray : Len(socketArray[i].out) <= MaxPackets
  /\ pendingSockTransmission \in Id \cup {NONE}
  /\ stack \in Seq([cmd : CommandName, id : Id, data : Seq(Unit)])
  /\ Len(stack) <= OUT_MESSAGE_STACK_SIZE
  /\ pending \in [cmd : CommandName \cup {"none"}, id : Id, data : Seq(Unit)]
  /\ booted \in BOOLEAN /\ created \in BOOLEAN /\ orphan \in BOOLEAN
  /\ modem \subseteq Id /\ lost \subseteq Id /\ refused \subseteq Id

\* "We have pending send data command, wait till it finished to not overflow command
\* buffer" (Send): of all sockets together at most one packet is on its way, and
\* while one is, pendingSockTransmission says so.
OneWriteAtATime ==
  /\ Cardinality({k \in DOMAIN stack : stack[k].cmd = "USOWR"})
       + (IF pending.cmd = "USOWR" THEN 1 ELSE 0) <= 1
  /\ WriteInFlight => pendingSockTransmission # NONE

\* The packet of s that waits in the stack.
Ahead(s) ==
  LET own == {c \in Waiting : c.cmd = "USOWR" /\ c.id = s}
  IN IF own = {} \/ orphan THEN <<>> ELSE (CHOOSE c \in own : TRUE).data

\* What a socket accepted (SendData) and has not yet handed to the modem waits in
\* order, each unit once: first the packet of the command that waits, then the
\* queue (Append, UnshiftFirst and the hand-over between them).  (Every variable
\* keeps its type.)
UnitsInOrder ==
  TypeOK /\ \A i \in DOMAIN socketArray :
    LET r == socketArray[i]
        units == Ahead(r.id) \o FlattenSeq(r.out)
    IN r.id \notin lost /\ ~r.freed =>
         /\ Len(units) = (r.accepted - r.written) % UnitMod
         /\ \A k \in DOMAIN units : units[k] = (r.written + k) % UnitMod

\* The sockets of the handler are sockets of the modem, each once, unless the close
\* event of one came while a command was pending: then it was taken for an answer,
\* the socket stays, and the modem may give its id out again.
SocketsAreOpen ==
  /\ \A i \in DOMAIN socketArray : socketArray[i].id \in modem \cup lost
  /\ \A i, j \in DOMAIN socketArray :
       socketArray[i].id = socketArray[j].id /\ i # j => socketArray[i].id \in lost

\* A socket that is connecting has the next command of its chain on the way
\* (OnKeepAliveConfirm, OnSSLConfirm), unless the stack refused one of its commands.
ConnectingGoesOn ==
  \A i \in DOMAIN socketArray :
    /\ socketArray[i].state = "CONNECTING"
    /\ socketArray[i].id \notin lost \cup refused
    => \E c \in InFlight : /\ c.id = socketArray[i].id
                           /\ c.cmd \in {"USOSO", "USOSO keepidle", "USOSEC", "USOCO"}

\* A packet that is still queued has not been deleted: "If send added to stack,
\* unshift packet from pending array" (GSMSocketHandler.cpp:289).
QueuedPacketsLive == \A i \in DOMAIN socketArray : ~socketArray[i].freed

\* A write that was refused or failed leaves pendingSockTransmission set for good.
Stalled == pendingSockTransmission # NONE /\ ~WriteInFlight

QuietLine == \A c \in InFlight : c.cmd # "USORD"

\* Round robin (SendNextAvailableData): however much the others send, a socket with a
\* packet gets its turn again and again, unless transmission has stalled or reads,
\* which go before all writes, never end.
EverySocketIsServed ==
  \A s \in Id :
    LET HasPacket == \E i \in DOMAIN socketArray :
                       socketArray[i].id = s /\ socketArray[i].out # <<>>
        Served == \E c \in InFlight : c.cmd = "USOWR" /\ c.id = s
    IN <>[]QuietLine => []<>(~HasPacket \/ Served \/ Stalled)

=============================================================================
