--------------------------- MODULE GsmSocketsProofs ---------------------------
(***************************************************************************)
(* The sockets for every number of sockets, of commands and of packets.    *)
(*                                                                         *)
(* An action replaces some sockets by sockets of the same id, takes one    *)
(* out, adds one or empties the array, and it appends one command, moves   *)
(* the first to the line or ends the one on the line.  The lemmas say what *)
(* each of these moves keeps; a step then is a few of them.                *)
(*                                                                         *)
(* The units of a socket are followed packet by packet: Numbered says by   *)
(* closed formulas what number each has, wherever its packet is, and       *)
(* NumberedIsRun that the packets put together are then one run of units.  *)
(***************************************************************************)
EXTENDS GsmSockets, FiniteSetTheorems, SequenceTheorems, WellFoundedInduction, TLAPS

State == {"DISCONNECTED", "CONNECTING", "READY", "CLOSING", "CLOSING_DELAY"}
Socket == [id : Id, ssl : BOOLEAN, closeTimer : BOOLEAN, freed : BOOLEAN, state : State,
           out : Seq(Seq(Unit)), accepted : Unit, written : Unit]
SentCommand == [cmd : CommandName, id : Id, data : Seq(Unit)]
ChainCommand == {"USOSO", "USOSO keepidle", "USOSEC", "USOCO"}

\* Packets are neither empty nor too long (Append of ByteStackArray).
PacketsFit(out) ==
  /\ out \in Seq(Seq(Unit)) /\ Len(out) <= MaxPackets
  /\ \A k \in DOMAIN out : Len(out[k]) \in 1 .. PacketSize

\* A socket, and a command, as the handler keeps them.
GoodSocket == {r \in Socket : PacketsFit(r.out)}
GoodCommand == {c \in SentCommand : c.cmd = "USOWR" => c.data # <<>>}

\* The type invariant, with what keeps it: packets that fit, and nothing open and
\* nothing on the line until the modem has booted.
Shape ==
  /\ socketArray \in Seq(GoodSocket) /\ Len(socketArray) <= MAX_SOCKET_AMOUNT
  /\ pendingSockTransmission \in Id \cup {NONE}
  /\ stack \in Seq(GoodCommand) /\ Len(stack) <= OUT_MESSAGE_STACK_SIZE
  /\ pending \in GoodCommand \cup {NoCommand}
  /\ booted \in BOOLEAN /\ created \in BOOLEAN /\ orphan \in BOOLEAN
  /\ modem \subseteq Id /\ lost \subseteq Id /\ refused \subseteq Id
  /\ ~booted => socketArray = <<>> /\ pending = NoCommand

\* OneWriteAtATime without the count.
SingleWrite ==
  /\ \A j, k \in DOMAIN stack : stack[j].cmd = "USOWR" /\ stack[k].cmd = "USOWR" => j = k
  /\ pending.cmd = "USOWR" => \A k \in DOMAIN stack : stack[k].cmd # "USOWR"
  /\ pendingSockTransmission = NONE =>
       pending.cmd # "USOWR" /\ \A k \in DOMAIN stack : stack[k].cmd # "USOWR"

IInv == Shape /\ SingleWrite /\ SocketsAreOpen /\ ConnectingGoesOn

-----------------------------------------------------------------------------
(* Numbers, sequences and the array                                        *)

\* Numbers have a smallest.
LEMMA SmallestOf ==
  ASSUME NEW T \in SUBSET Nat, T # {}
  PROVE  \E x \in T : \A y \in T : x <= y
<1> DEFINE R == OpToRel(<, Nat)
<1>1. IsWellFoundedOn(R, Nat)
  BY NatLessThanWellFounded, Zenon
<1>2. \A x, y \in Nat : <<y, x>> \in R <=> y < x
  BY DEF OpToRel
<1> HIDE DEF R
<1>3. PICK x \in T : \A y \in T : ~(<<y, x>> \in R)
  BY <1>1, WFMin
<1>4. ASSUME NEW y \in T PROVE x <= y
  <2>1. x \in Nat /\ y \in Nat /\ ~(y < x)
    BY <1>2, <1>3
  <2> QED BY <2>1
<1> QED BY <1>4

\* There are units.
LEMMA Units == UnitMod \in Nat \ {0} /\ 0 \in Unit
<1> DEFINE m == (MaxPackets + 1) * PacketSize
<1>1. m \in Nat
  BY SocketsAssumption
<1>2. UnitMod \in Nat /\ UnitMod > m
  BY SocketsAssumption
<1> HIDE DEF m
<1> QED BY <1>1, <1>2 DEF Unit

\* RemoveAt takes one element out and keeps the order of the others.
LEMMA RemoveAtProperties ==
  ASSUME NEW S, NEW q \in Seq(S), NEW i \in 1 .. Len(q)
  PROVE  /\ RemoveAt(q, i) \in Seq(S)
         /\ Len(RemoveAt(q, i)) = Len(q) - 1
         /\ \A k \in 1 .. Len(q) - 1 : RemoveAt(q, i)[k] = q[IF k < i THEN k ELSE k + 1]
<1> DEFINE a == SubSeq(q, 1, i - 1)
           b == SubSeq(q, i + 1, Len(q))
<1>0. Len(q) \in Nat /\ \A k \in 1 .. Len(q) : q[k] \in S
  BY ElementOfSeq, LenProperties
<1>1. a \in Seq(S) /\ Len(a) = i - 1 /\ \A k \in 1 .. i - 1 : a[k] = q[k]
  BY <1>0, SubSeqProperties
<1>2. b \in Seq(S) /\ Len(b) = Len(q) - i /\ \A k \in 1 .. Len(q) - i : b[k] = q[i + k]
  <2>1. \A k \in i + 1 .. Len(q) : q[k] \in S
    BY <1>0
  <2>2. /\ b \in Seq(S)
        /\ Len(b) = IF i + 1 <= Len(q) THEN Len(q) - (i + 1) + 1 ELSE 0
        /\ \A k \in 1 .. Len(q) - (i + 1) + 1 : b[k] = q[i + 1 + k - 1]
    BY <1>0, <2>1, SubSeqProperties, i + 1 \in Int, Len(q) \in Int
  <2> QED BY <1>0, <2>2
<1> HIDE DEF a, b
<1>3. /\ a \o b \in Seq(S)
      /\ Len(a \o b) = Len(a) + Len(b)
      /\ \A k \in 1 .. Len(a) + Len(b) : (a \o b)[k] = IF k <= Len(a) THEN a[k] ELSE b[k - Len(a)]
  BY <1>1, <1>2, ConcatProperties
<1>4. RemoveAt(q, i) = a \o b
  BY DEF RemoveAt, a, b
<1>5. ASSUME NEW k \in 1 .. Len(q) - 1
      PROVE  (a \o b)[k] = q[IF k < i THEN k ELSE k + 1]
  <2>1. CASE k < i
    BY <1>0, <1>1, <1>2, <1>3, <2>1
  <2>2. CASE ~(k < i)
    <3>1. (a \o b)[k] = b[k - (i - 1)] /\ k - (i - 1) \in 1 .. Len(q) - i
      BY <1>0, <1>1, <1>2, <1>3, <2>2
    <3>2. b[k - (i - 1)] = q[i + (k - (i - 1))]
      BY <1>2, <3>1
    <3>3. i + (k - (i - 1)) = k + 1
      BY <1>0
    <3> QED BY <2>2, <3>1, <3>2, <3>3
  <2> QED BY <2>1, <2>2
<1>6. Len(a \o b) = Len(q) - 1
  BY <1>0, <1>1, <1>2, <1>3
<1> QED BY <1>3, <1>4, <1>5, <1>6, Zenon

\* Index finds a socket that is there.
LEMMA IndexFinds ==
  ASSUME Shape, NEW s, Has(s)
  PROVE  Index(s) \in 1 .. Len(socketArray) /\ socketArray[Index(s)].id = s
<1> DEFINE T == {i \in DOMAIN socketArray : socketArray[i].id = s}
<1>1. DOMAIN socketArray = 1 .. Len(socketArray) /\ Len(socketArray) \in Nat
  BY DEF Shape
<1>2. T \in SUBSET Nat /\ T # {}
  BY <1>1 DEF Has
<1>3. PICK i \in T : \A j \in T : i <= j
  <2> HIDE DEF T
  <2> QED BY <1>2, SmallestOf
<1>4. \A j \in 1 .. i - 1 : socketArray[j].id # s
  BY <1>1, <1>3
<1>5. \E k \in DOMAIN socketArray :
        socketArray[k].id = s /\ \A j \in 1 .. k - 1 : socketArray[j].id # s
  BY <1>3, <1>4
<1> QED BY <1>1, <1>5, Zenon DEF Index

\* What the invariant says of a socket and of a command.
LEMMA Elements ==
  ASSUME Shape
  PROVE  /\ DOMAIN socketArray = 1 .. Len(socketArray) /\ Len(socketArray) \in Nat
         /\ \A i \in DOMAIN socketArray : socketArray[i] \in GoodSocket
         /\ DOMAIN stack = 1 .. Len(stack) /\ Len(stack) \in Nat
         /\ \A k \in DOMAIN stack : stack[k] \in GoodCommand
BY ElementOfSeq, LenProperties DEF Shape

\* OneWriteAtATime counts; SingleWrite says the same of the elements.
LEMMA WriteIsSingle ==
  ASSUME Shape, SingleWrite
  PROVE  OneWriteAtATime
<1> DEFINE W == {k \in DOMAIN stack : stack[k].cmd = "USOWR"}
<1>1. Len(stack) \in Nat /\ DOMAIN stack = 1 .. Len(stack)
  BY Elements
<1>2. CASE W = {}
  <2>1. Cardinality(W) = 0
    BY <1>2, FS_EmptySet
  <2> QED BY <1>2, <2>1 DEF OneWriteAtATime, SingleWrite, WriteInFlight, InFlight, Waiting
<1>3. CASE W # {}
  <2>1. PICK k \in W : TRUE
    BY <1>3
  <2>2. W = {k}
    BY <2>1 DEF SingleWrite
  <2>3. Cardinality(W) = 1
    BY <2>2, FS_Singleton
  <2>4. pending.cmd # "USOWR" /\ pendingSockTransmission # NONE
    BY <2>1 DEF SingleWrite
  <2> QED BY <2>3, <2>4 DEF OneWriteAtATime
<1> QED BY <1>2, <1>3

-----------------------------------------------------------------------------
(* Commands                                                                *)

\* What a move of the stack may add: writes stay where they are.
NoNewWrite ==
  \A k \in DOMAIN stack' : stack'[k].cmd = "USOWR" =>
    k \in DOMAIN stack /\ stack[k].cmd = "USOWR"

LEMMA Appended ==
  ASSUME Shape, NEW c \in GoodCommand, Len(stack) < OUT_MESSAGE_STACK_SIZE, stack' = Append(stack, c)
  PROVE  /\ stack' \in Seq(GoodCommand) /\ Len(stack') <= OUT_MESSAGE_STACK_SIZE
         /\ DOMAIN stack' = 1 .. Len(stack) + 1
         /\ \A k \in DOMAIN stack : k \in DOMAIN stack' /\ stack'[k] = stack[k]
         /\ stack'[Len(stack) + 1] = c
         /\ Waiting \subseteq Waiting' /\ c \in Waiting'
<1>1. stack \in Seq(GoodCommand) /\ Len(stack) \in Nat /\ DOMAIN stack = 1 .. Len(stack)
  BY Elements DEF Shape
<1>2. /\ stack' \in Seq(GoodCommand) /\ Len(stack') = Len(stack) + 1
      /\ \A k \in 1 .. Len(stack) : stack'[k] = stack[k]
      /\ stack'[Len(stack) + 1] = c
  BY <1>1, AppendProperties
<1>3. DOMAIN stack' = 1 .. Len(stack) + 1
  BY <1>2, LenProperties
<1>4. Len(stack') <= OUT_MESSAGE_STACK_SIZE
  BY <1>1, <1>2, SocketsAssumption
<1>5. \A k \in DOMAIN stack : k \in DOMAIN stack' /\ stack'[k] = stack[k]
  BY <1>1, <1>2, <1>3
<1>6. Len(stack) + 1 \in DOMAIN stack'
  BY <1>1, <1>3
<1>7. Waiting \subseteq Waiting' /\ c \in Waiting'
  BY <1>2, <1>5, <1>6, Zenon DEF Waiting
<1> QED BY <1>2, <1>3, <1>4, <1>5, <1>7

\* AddCommand appends the command, or its socket was refused one.
LEMMA Added ==
  ASSUME Shape, NEW c \in CommandName \ {"USOWR"}, NEW s \in Id, AddCommand(c, s)
  PROVE  /\ stack' \in Seq(GoodCommand) /\ Len(stack') <= OUT_MESSAGE_STACK_SIZE
         /\ refused \subseteq refused' /\ refused' \subseteq Id
         /\ Waiting \subseteq Waiting'
         /\ c # "USOCL" => s \in refused' \/ Command(c, s) \in Waiting'
         /\ NoNewWrite
<1>1. Command(c, s) \in GoodCommand /\ Command(c, s).cmd # "USOWR"
  <2>1. <<>> \in Seq(Unit)
    OBVIOUS
  <2> QED BY <2>1 DEF Command, GoodCommand, SentCommand
<1>2. CASE Len(stack) < OUT_MESSAGE_STACK_SIZE
  <2>1. stack' = Append(stack, Command(c, s)) /\ refused' = refused
    BY <1>2 DEF AddCommand
  <2>2. /\ stack' \in Seq(GoodCommand) /\ Len(stack') <= OUT_MESSAGE_STACK_SIZE
        /\ DOMAIN stack' = 1 .. Len(stack) + 1
        /\ \A k \in DOMAIN stack : k \in DOMAIN stack' /\ stack'[k] = stack[k]
        /\ stack'[Len(stack) + 1] = Command(c, s)
        /\ Waiting \subseteq Waiting' /\ Command(c, s) \in Waiting'
    BY <1>1, <1>2, <2>1, Appended
  <2>3. NoNewWrite
    <3> SUFFICES ASSUME NEW k \in DOMAIN stack', stack'[k].cmd = "USOWR"
                 PROVE  k \in DOMAIN stack /\ stack[k].cmd = "USOWR"
      BY Zenon DEF NoNewWrite
    <3>1. k # Len(stack) + 1
      BY <1>1, <2>2
    <3>2. k \in DOMAIN stack
      BY <2>2, <3>1, Elements
    <3> QED BY <2>2, <3>2
  <2> QED BY <2>1, <2>2, <2>3 DEF Shape
<1>3. CASE ~(Len(stack) < OUT_MESSAGE_STACK_SIZE)
  <2>1. stack' = stack /\ refused' = IF c = "USOCL" THEN refused ELSE refused \cup {s}
    BY <1>3 DEF AddCommand
  <2>2. NoNewWrite
    BY <2>1 DEF NoNewWrite
  <2> QED BY <2>1, <2>2 DEF Shape, Waiting
<1> QED BY <1>2, <1>3

\* The line takes the first command; the others move up.
LEMMA FirstTaken ==
  ASSUME Shape, stack # <<>>, pending = NoCommand, pending' = Head(stack), stack' = Tail(stack)
  PROVE  /\ pending' \in GoodCommand /\ pending' = stack[1] /\ 1 \in DOMAIN stack
         /\ stack' \in Seq(GoodCommand) /\ Len(stack') <= OUT_MESSAGE_STACK_SIZE
         /\ \A k \in DOMAIN stack' : k + 1 \in DOMAIN stack /\ k + 1 # 1 /\ stack'[k] = stack[k + 1]
         /\ InFlight \subseteq InFlight'
<1>1. stack \in Seq(GoodCommand) /\ Len(stack) \in Nat /\ DOMAIN stack = 1 .. Len(stack)
  BY Elements DEF Shape
<1>2. Len(stack) # 0
  BY <1>1, EmptySeq
<1>3. /\ Head(stack) \in GoodCommand /\ Head(stack) = stack[1]
      /\ stack' \in Seq(GoodCommand) /\ Len(stack') = Len(stack) - 1
      /\ \A k \in 1 .. Len(stack') : stack'[k] = stack[k + 1]
  BY <1>1, HeadTailProperties
<1>4. DOMAIN stack' = 1 .. Len(stack) - 1
  BY <1>3, LenProperties
<1>5. \A k \in DOMAIN stack' : k + 1 \in DOMAIN stack /\ k + 1 # 1 /\ stack'[k] = stack[k + 1]
  BY <1>1, <1>3, <1>4
<1>6. Len(stack') <= OUT_MESSAGE_STACK_SIZE
  BY <1>1, <1>3, SocketsAssumption DEF Shape
<1>7. pending' # NoCommand
  <2>1. pending'.cmd \in CommandName
    BY <1>3 DEF GoodCommand, SentCommand
  <2>2. NoCommand.cmd = "none"
    BY DEF NoCommand, Command
  <2> QED BY <2>1, <2>2 DEF CommandName
<1>8. ASSUME NEW c \in InFlight PROVE c \in InFlight'
  <2>1. PICK k \in DOMAIN stack : c = stack[k]
    BY DEF InFlight, Waiting
  <2>2. CASE k = 1
    BY <1>3, <1>7, <2>1, <2>2 DEF InFlight
  <2>3. CASE k # 1
    <3>1. k - 1 \in DOMAIN stack' /\ (k - 1) + 1 = k
      BY <1>1, <1>4, <2>3
    <3>2. stack'[k - 1] = c
      BY <1>5, <2>1, <3>1
    <3> QED BY <3>1, <3>2 DEF InFlight, Waiting
  <2> QED BY <2>2, <2>3
<1> QED BY <1>1, <1>2, <1>3, <1>5, <1>6, <1>8

\* SendPacket on the array a: the packet goes out, or is deleted where it lies.
SameSockets(a, b) ==
  /\ DOMAIN b = DOMAIN a
  /\ \A i \in DOMAIN a : b[i].id = a[i].id /\ b[i].state = a[i].state

LEMMA PacketTaken ==
  ASSUME NEW out, PacketsFit(out), out # <<>>
  PROVE  Head(out) \in Seq(Unit) /\ Head(out) # <<>> /\ PacketsFit(Tail(out))
<1>1. out \in Seq(Seq(Unit)) /\ Len(out) \in Nat /\ DOMAIN out = 1 .. Len(out)
  BY LenProperties DEF PacketsFit
<1>2. Len(out) # 0
  BY <1>1, EmptySeq
<1>3. /\ Head(out) \in Seq(Unit) /\ Head(out) = out[1]
      /\ Tail(out) \in Seq(Seq(Unit)) /\ Len(Tail(out)) = Len(out) - 1
      /\ \A k \in 1 .. Len(Tail(out)) : Tail(out)[k] = out[k + 1]
  BY <1>1, HeadTailProperties
<1>4. Len(out[1]) \in 1 .. PacketSize
  BY <1>1, <1>2 DEF PacketsFit
<1>5. Head(out) # <<>>
  BY <1>3, <1>4, Len(<<>>) = 0
<1>6. DOMAIN Tail(out) = 1 .. Len(out) - 1
  BY <1>3, LenProperties
<1>7. \A k \in DOMAIN Tail(out) : Len(Tail(out)[k]) \in 1 .. PacketSize
  <2> SUFFICES ASSUME NEW k \in DOMAIN Tail(out) PROVE Len(Tail(out)[k]) \in 1 .. PacketSize
    OBVIOUS
  <2>1. k + 1 \in DOMAIN out /\ Tail(out)[k] = out[k + 1]
    BY <1>1, <1>3, <1>6
  <2> QED BY <2>1 DEF PacketsFit
<1>8. Len(Tail(out)) <= MaxPackets
  BY <1>1, <1>3, SocketsAssumption DEF PacketsFit
<1> QED BY <1>3, <1>5, <1>7, <1>8 DEF PacketsFit

\* One socket of the array changes, but neither its id nor its state.
LEMMA SocketChanged ==
  ASSUME NEW a \in Seq(GoodSocket), NEW i \in DOMAIN a, NEW r \in GoodSocket, r.id = a[i].id
  PROVE  /\ [a EXCEPT ![i] = r] \in Seq(GoodSocket)
         /\ Len([a EXCEPT ![i] = r]) = Len(a)
         /\ DOMAIN [a EXCEPT ![i] = r] = DOMAIN a
         /\ \A j \in DOMAIN a : [a EXCEPT ![i] = r][j] = IF j = i THEN r ELSE a[j]
BY ExceptSeq, LenProperties

LEMMA PacketSent ==
  ASSUME Shape, NEW a \in Seq(GoodSocket), NEW i \in DOMAIN a, a[i].out # <<>>, SendPacket(a, i),
         \A k \in DOMAIN stack : stack[k].cmd # "USOWR"
  PROVE  /\ socketArray' \in Seq(GoodSocket) /\ Len(socketArray') = Len(a)
         /\ SameSockets(a, socketArray')
         /\ pendingSockTransmission' \in Id
         /\ stack' \in Seq(GoodCommand) /\ Len(stack') <= OUT_MESSAGE_STACK_SIZE
         /\ Waiting \subseteq Waiting'
         /\ \A j, k \in DOMAIN stack' : stack'[j].cmd = "USOWR" /\ stack'[k].cmd = "USOWR" => j = k
         /\ orphan' \in BOOLEAN
<1>1. a[i] \in GoodSocket
  BY ElementOfSeq, LenProperties
<1>2. a[i] \in Socket /\ PacketsFit(a[i].out)
  BY <1>1 DEF GoodSocket
<1>3. Head(a[i].out) \in Seq(Unit) /\ Head(a[i].out) # <<>> /\ PacketsFit(Tail(a[i].out))
  BY <1>2, PacketTaken
<1>4. a[i].id \in Id
  BY <1>2 DEF Socket
<1>5. CASE Len(stack) < OUT_MESSAGE_STACK_SIZE
  <2> DEFINE c == [Command("USOWR", a[i].id) EXCEPT !.data = Head(a[i].out)]
             r == [a[i] EXCEPT !.out = Tail(@)]
  <2>1. /\ stack' = Append(stack, c) /\ socketArray' = [a EXCEPT ![i] = r]
        /\ pendingSockTransmission' = a[i].id /\ orphan' = FALSE
    BY <1>5 DEF SendPacket
  <2>2. c \in GoodCommand
    BY <1>3, <1>4 DEF Command, GoodCommand, SentCommand, CommandName
  <2>3. r \in GoodSocket /\ r.id = a[i].id /\ r.state = a[i].state
    BY <1>2, <1>3 DEF GoodSocket, Socket, PacketsFit
  <2> HIDE DEF c, r
  <2>4. /\ socketArray' \in Seq(GoodSocket) /\ Len(socketArray') = Len(a)
        /\ DOMAIN socketArray' = DOMAIN a
        /\ \A j \in DOMAIN a : socketArray'[j] = IF j = i THEN r ELSE a[j]
    BY <2>1, <2>3, SocketChanged
  <2>5. SameSockets(a, socketArray')
    BY <2>3, <2>4 DEF SameSockets
  <2>6. /\ stack' \in Seq(GoodCommand) /\ Len(stack') <= OUT_MESSAGE_STACK_SIZE
        /\ DOMAIN stack' = 1 .. Len(stack) + 1
        /\ \A k \in DOMAIN stack : k \in DOMAIN stack' /\ stack'[k] = stack[k]
        /\ Waiting \subseteq Waiting'
    BY <1>5, <2>1, <2>2, Appended
  <2>7. ASSUME NEW k \in DOMAIN stack', stack'[k].cmd = "USOWR" PROVE k = Len(stack) + 1
    BY <2>6, <2>7, Elements
  <2> QED BY <1>4, <2>1, <2>4, <2>5, <2>6, <2>7
<1>6. CASE ~(Len(stack) < OUT_MESSAGE_STACK_SIZE)
  <2> DEFINE r == [a[i] EXCEPT !.freed = TRUE]
  <2>1. /\ stack' = stack /\ socketArray' = [a EXCEPT ![i] = r]
        /\ pendingSockTransmission' = a[i].id /\ orphan' = orphan
    BY <1>6 DEF SendPacket
  <2>2. r \in GoodSocket /\ r.id = a[i].id /\ r.state = a[i].state
    BY <1>2 DEF GoodSocket, Socket, PacketsFit
  <2> HIDE DEF r
  <2>3. /\ socketArray' \in Seq(GoodSocket) /\ Len(socketArray') = Len(a)
        /\ DOMAIN socketArray' = DOMAIN a
        /\ \A j \in DOMAIN a : socketArray'[j] = IF j = i THEN r ELSE a[j]
    BY <2>1, <2>2, SocketChanged
  <2>4. SameSockets(a, socketArray')
    BY <2>2, <2>3 DEF SameSockets
  <2> QED BY <1>4, <2>1, <2>3, <2>4 DEF Shape, Waiting
<1> QED BY <1>5, <1>6

-----------------------------------------------------------------------------
(* The array                                                               *)

\* The sockets after Destroy are the ones before, without one of id s; with another
\* of that id left, history says of it what it said.
LEMMA Destroyed ==
  ASSUME Shape, NEW s \in Id, NEW missed \in SUBSET Id, Destroy(s, missed)
  PROVE  /\ socketArray' \in Seq(GoodSocket) /\ Len(socketArray') <= MAX_SOCKET_AMOUNT
         /\ \E f \in [DOMAIN socketArray' -> DOMAIN socketArray] :
              /\ \A i \in DOMAIN socketArray' : socketArray'[i] = socketArray[f[i]]
              /\ \A i, j \in DOMAIN socketArray' : f[i] = f[j] => i = j
              /\ \A i \in DOMAIN socketArray' : socketArray'[i].id = s =>
                   \E j \in DOMAIN socketArray : socketArray[j].id = s /\ j # f[i]
         /\ \A t \in Id \ {s} : /\ t \in lost' <=> t \in lost \cup missed
                                /\ t \in refused' <=> t \in refused
         /\ (\E i \in DOMAIN socketArray' : socketArray'[i].id = s)
              => lost' = lost \cup missed /\ refused' = refused
         /\ lost' \subseteq Id /\ refused' \subseteq Id /\ orphan' \in BOOLEAN
<1> DEFINE C == {i \in DOMAIN socketArray : socketArray[i].id = s}
           n == Index(s)
           F(k) == IF Has(s) /\ ~(k < n) THEN k + 1 ELSE k
<1>1. DOMAIN socketArray = 1 .. Len(socketArray) /\ Len(socketArray) \in Nat /\ socketArray \in Seq(GoodSocket)
  BY Elements DEF Shape
<1>2. /\ Has(s) => n \in 1 .. Len(socketArray) /\ socketArray[n].id = s
      /\ ~Has(s) => \A i \in DOMAIN socketArray : socketArray[i].id # s
  BY IndexFinds, Zenon DEF Has
<1>3. /\ socketArray' = IF Has(s) THEN RemoveAt(socketArray, n) ELSE socketArray
      /\ orphan' \in BOOLEAN
      /\ \/ Cardinality(C) <= 1 /\ lost' = (lost \cup missed) \ {s} /\ refused' = refused \ {s}
         \/ lost' = lost \cup missed /\ refused' = refused
      /\ ~(Cardinality(C) <= 1) => lost' = lost \cup missed /\ refused' = refused
  BY DEF Destroy
<1> HIDE DEF n
<1>4. /\ socketArray' \in Seq(GoodSocket)
      /\ Len(socketArray') = IF Has(s) THEN Len(socketArray) - 1 ELSE Len(socketArray)
      /\ \A k \in 1 .. Len(socketArray') : socketArray'[k] = socketArray[F(k)]
  <2>1. CASE Has(s)
    <3>1. socketArray' = RemoveAt(socketArray, n) /\ n \in 1 .. Len(socketArray)
      BY <1>2, <1>3, <2>1
    <3>2. /\ socketArray' \in Seq(GoodSocket)
          /\ Len(socketArray') = Len(socketArray) - 1
          /\ \A k \in 1 .. Len(socketArray) - 1 : socketArray'[k] = socketArray[IF k < n THEN k ELSE k + 1]
      BY <1>1, <3>1, RemoveAtProperties
    <3> QED BY <2>1, <3>2
  <2>2. CASE ~Has(s)
    BY <1>1, <1>3, <2>2
  <2> QED BY <2>1, <2>2
<1>5. DOMAIN socketArray' = 1 .. Len(socketArray')
  BY <1>4, LenProperties
<1>6. /\ \A k \in DOMAIN socketArray' : F(k) \in DOMAIN socketArray /\ (Has(s) => F(k) # n)
      /\ \A j, k \in DOMAIN socketArray' : F(j) = F(k) => j = k
      /\ Len(socketArray') <= Len(socketArray)
  <2>1. CASE Has(s)
    <3>1. n \in 1 .. Len(socketArray) /\ DOMAIN socketArray' = 1 .. Len(socketArray) - 1
      BY <1>2, <1>4, <1>5, <2>1
    <3>2. \A k \in DOMAIN socketArray' : F(k) = IF k < n THEN k ELSE k + 1
      BY <2>1
    <3> HIDE DEF F
    <3>3. \A k \in DOMAIN socketArray' : F(k) \in DOMAIN socketArray /\ F(k) # n
      BY <1>1, <3>1, <3>2
    <3>4. ASSUME NEW j \in DOMAIN socketArray', NEW k \in DOMAIN socketArray', F(j) = F(k)
          PROVE  j = k
      BY <1>1, <3>1, <3>2, <3>4
    <3> QED BY <1>1, <1>4, <2>1, <3>3, <3>4
  <2>2. CASE ~Has(s)
    <3>1. Len(socketArray') = Len(socketArray) /\ DOMAIN socketArray' = DOMAIN socketArray
      BY <1>1, <1>4, <1>5, <2>2
    <3>2. \A k \in DOMAIN socketArray' : F(k) = k
      BY <2>2
    <3> HIDE DEF F
    <3> QED BY <1>1, <2>2, <3>1, <3>2
  <2> QED BY <2>1, <2>2
<1>8. ASSUME NEW k \in DOMAIN socketArray', socketArray'[k].id = s
      PROVE  Has(s) /\ F(k) # n /\ F(k) \in C /\ n \in C /\ ~(Cardinality(C) <= 1)
  <2>1. socketArray[F(k)].id = s /\ F(k) \in DOMAIN socketArray
    BY <1>4, <1>5, <1>6, <1>8
  <2>2. Has(s)
    BY <1>2, <2>1
  <2>3. F(k) # n /\ F(k) \in C /\ n \in C
    BY <1>1, <1>2, <1>6, <2>1, <2>2
  <2> HIDE DEF F
  <2>4. IsFiniteSet(C)
    <3>1. IsFiniteSet(1 .. Len(socketArray))
      BY <1>1, FS_Interval
    <3> QED BY <1>1, <3>1, FS_Subset
  <2>5. Cardinality({n, F(k)}) = 2
    <3>1. IsFiniteSet({n}) /\ Cardinality({n}) = 1
      BY FS_Singleton
    <3>2. Cardinality({n} \cup {F(k)}) = Cardinality({n}) + 1
      BY <2>3, <3>1, FS_AddElement
    <3>3. {n} \cup {F(k)} = {n, F(k)}
      OBVIOUS
    <3> QED BY <3>1, <3>2, <3>3
  <2>6. Cardinality({n, F(k)}) <= Cardinality(C) /\ Cardinality(C) \in Nat
    <3>1. {n, F(k)} \subseteq C
      BY <2>3
    <3> QED BY <2>4, <3>1, FS_Subset, FS_CardinalityType
  <2> QED BY <2>2, <2>3, <2>5, <2>6
<1>9. \E f \in [DOMAIN socketArray' -> DOMAIN socketArray] :
        /\ \A i \in DOMAIN socketArray' : socketArray'[i] = socketArray[f[i]]
        /\ \A i, j \in DOMAIN socketArray' : f[i] = f[j] => i = j
        /\ \A i \in DOMAIN socketArray' : socketArray'[i].id = s =>
             \E j \in DOMAIN socketArray : socketArray[j].id = s /\ j # f[i]
  <2> DEFINE f == [k \in DOMAIN socketArray' |-> F(k)]
  <2> HIDE DEF F
  <2>1. f \in [DOMAIN socketArray' -> DOMAIN socketArray]
    BY <1>6
  <2>2. \A i \in DOMAIN socketArray' : socketArray'[i] = socketArray[f[i]]
    BY <1>4, <1>5
  <2>3. \A i, j \in DOMAIN socketArray' : f[i] = f[j] => i = j
    BY <1>6
  <2>4. \A i \in DOMAIN socketArray' : socketArray'[i].id = s =>
          \E j \in DOMAIN socketArray : socketArray[j].id = s /\ j # f[i]
    BY <1>8
  <2> HIDE DEF f
  <2> QED BY <2>1, <2>2, <2>3, <2>4
<1>10. (\E i \in DOMAIN socketArray' : socketArray'[i].id = s)
         => lost' = lost \cup missed /\ refused' = refused
  BY <1>3, <1>8
<1>11. Len(socketArray') <= MAX_SOCKET_AMOUNT
  <2>1. Len(socketArray') \in Nat /\ Len(socketArray) \in Nat /\ Len(socketArray) <= MAX_SOCKET_AMOUNT
    BY <1>1, <1>4, LenProperties DEF Shape
  <2> QED BY <1>6, <2>1, SocketsAssumption
<1>12. lost' \subseteq Id /\ refused' \subseteq Id
  BY <1>3 DEF Shape
<1>13. \A t \in Id \ {s} : (t \in lost' <=> t \in lost \cup missed) /\ (t \in refused' <=> t \in refused)
  BY <1>3
<1> QED BY <1>3, <1>4, <1>9, <1>10, <1>11, <1>12, <1>13

\* What remains open after Destroy: the modem may have closed s, and ids whose close
\* event this was.
LEMMA OpenAfterDestroy ==
  ASSUME Shape, SocketsAreOpen, NEW s \in Id, NEW missed \in SUBSET Id, Destroy(s, missed),
         \A t \in modem \ modem' : t = s \/ t \in missed \/ ~Has(t)
  PROVE  SocketsAreOpen'
<1>1. PICK f \in [DOMAIN socketArray' -> DOMAIN socketArray] :
        /\ \A i \in DOMAIN socketArray' : socketArray'[i] = socketArray[f[i]]
        /\ \A i, j \in DOMAIN socketArray' : f[i] = f[j] => i = j
        /\ \A i \in DOMAIN socketArray' : socketArray'[i].id = s =>
             \E j \in DOMAIN socketArray : socketArray[j].id = s /\ j # f[i]
  BY Destroyed, Zenon
<1>2. /\ \A t \in Id \ {s} : t \in lost' <=> t \in lost \cup missed
      /\ (\E i \in DOMAIN socketArray' : socketArray'[i].id = s) => lost' = lost \cup missed
  BY Destroyed, Zenon
<1>3. \A i \in DOMAIN socketArray : socketArray[i].id \in Id
  BY Elements DEF GoodSocket, Socket
<1>4. ASSUME NEW i \in DOMAIN socketArray' PROVE socketArray'[i].id \in modem' \cup lost'
  <2>1. f[i] \in DOMAIN socketArray /\ socketArray'[i] = socketArray[f[i]]
    BY <1>1
  <2>2. CASE socketArray'[i].id = s
    <3>1. PICK j \in DOMAIN socketArray : socketArray[j].id = s /\ j # f[i]
      BY <1>1, <2>2
    <3>2. s \in lost
      BY <2>1, <2>2, <3>1 DEF SocketsAreOpen
    <3> QED BY <1>2, <2>2, <3>2
  <2>3. CASE socketArray'[i].id # s
    <3>1. socketArray'[i].id \in Id \ {s} /\ Has(socketArray'[i].id)
      BY <1>3, <2>1, <2>3 DEF Has
    <3>2. socketArray'[i].id \in modem \cup lost
      BY <2>1 DEF SocketsAreOpen
    <3> QED BY <1>2, <2>3, <3>1, <3>2
  <2> QED BY <2>2, <2>3
<1>5. ASSUME NEW i \in DOMAIN socketArray', NEW j \in DOMAIN socketArray',
             socketArray'[i].id = socketArray'[j].id, i # j
      PROVE  socketArray'[i].id \in lost'
  <2>1. /\ f[i] \in DOMAIN socketArray /\ socketArray'[i] = socketArray[f[i]]
        /\ f[j] \in DOMAIN socketArray /\ socketArray'[j] = socketArray[f[j]]
        /\ f[i] # f[j]
    BY <1>1, <1>5
  <2>2. socketArray'[i].id \in lost /\ socketArray'[i].id \in Id
    BY <1>3, <1>5, <2>1 DEF SocketsAreOpen
  <2> QED BY <1>2, <2>2
<1> QED BY <1>4, <1>5 DEF SocketsAreOpen

LEMMA GoesOnAfterDestroy ==
  ASSUME Shape, SocketsAreOpen, ConnectingGoesOn, NEW s \in Id, NEW missed \in SUBSET Id,
         Destroy(s, missed), \A c \in InFlight : c.cmd \in ChainCommand => c \in InFlight'
  PROVE  ConnectingGoesOn'
<1>1. PICK f \in [DOMAIN socketArray' -> DOMAIN socketArray] :
        /\ \A i \in DOMAIN socketArray' : socketArray'[i] = socketArray[f[i]]
        /\ \A i \in DOMAIN socketArray' : socketArray'[i].id = s =>
             \E j \in DOMAIN socketArray : socketArray[j].id = s /\ j # f[i]
  BY Destroyed, Zenon
<1>2. /\ \A t \in Id \ {s} : (t \in lost' <=> t \in lost \cup missed) /\ (t \in refused' <=> t \in refused)
      /\ (\E i \in DOMAIN socketArray' : socketArray'[i].id = s) => lost' = lost \cup missed
  BY Destroyed, Zenon
<1> SUFFICES ASSUME NEW i \in DOMAIN socketArray', socketArray'[i].state = "CONNECTING",
                    socketArray'[i].id \notin lost' \cup refused'
             PROVE  \E c \in InFlight' : c.id = socketArray'[i].id /\ c.cmd \in ChainCommand
  BY Zenon DEF ConnectingGoesOn, ChainCommand
<1>3. f[i] \in DOMAIN socketArray /\ socketArray'[i] = socketArray[f[i]]
  BY <1>1
<1>4. socketArray[f[i]].id \in Id
  BY <1>3, Elements DEF GoodSocket, Socket
<1>5. socketArray'[i].id # s
  <2> SUFFICES ASSUME socketArray'[i].id = s PROVE FALSE
    OBVIOUS
  <2>1. PICK j \in DOMAIN socketArray : socketArray[j].id = s /\ j # f[i]
    BY <1>1
  <2>2. s \in lost
    BY <1>3, <2>1 DEF SocketsAreOpen
  <2> QED BY <1>2, <2>2
<1>6. socketArray[f[i]].id \notin lost \cup refused
  BY <1>2, <1>3, <1>4, <1>5
<1>7. PICK c \in InFlight : c.id = socketArray[f[i]].id /\ c.cmd \in ChainCommand
  BY <1>3, <1>6 DEF ConnectingGoesOn, ChainCommand
<1> QED BY <1>3, <1>7

\* Sockets that keep their ids stay open.
LEMMA OpenIfKept ==
  ASSUME SocketsAreOpen, DOMAIN socketArray' = DOMAIN socketArray,
         \A i \in DOMAIN socketArray : socketArray'[i].id = socketArray[i].id,
         lost \subseteq lost', \A t \in modem \ modem' : t \in lost' \/ ~Has(t)
  PROVE  SocketsAreOpen'
<1>1. ASSUME NEW i \in DOMAIN socketArray' PROVE socketArray'[i].id \in modem' \cup lost'
  <2>1. socketArray[i].id \in modem \cup lost /\ Has(socketArray[i].id)
    BY DEF SocketsAreOpen, Has
  <2> QED BY <2>1
<1>2. ASSUME NEW i \in DOMAIN socketArray', NEW j \in DOMAIN socketArray',
             socketArray'[i].id = socketArray'[j].id, i # j
      PROVE  socketArray'[i].id \in lost'
  BY <1>2 DEF SocketsAreOpen
<1> QED BY <1>1, <1>2 DEF SocketsAreOpen

\* A socket that was connecting before goes on while its commands do.
LEMMA GoesOnIfKept ==
  ASSUME ConnectingGoesOn, DOMAIN socketArray' = DOMAIN socketArray,
         \A i \in DOMAIN socketArray : /\ socketArray'[i].id = socketArray[i].id
                                       /\ socketArray'[i].state = "CONNECTING" => socketArray[i].state = "CONNECTING",
         lost \subseteq lost', refused \subseteq refused',
         \A c \in InFlight : c.cmd \in ChainCommand => c \in InFlight'
  PROVE  ConnectingGoesOn'
<1> SUFFICES ASSUME NEW i \in DOMAIN socketArray', socketArray'[i].state = "CONNECTING",
                    socketArray'[i].id \notin lost' \cup refused'
             PROVE  \E c \in InFlight' : c.id = socketArray'[i].id /\ c.cmd \in ChainCommand
  BY Zenon DEF ConnectingGoesOn, ChainCommand
<1>1. PICK c \in InFlight : c.id = socketArray[i].id /\ c.cmd \in ChainCommand
  BY DEF ConnectingGoesOn, ChainCommand
<1> QED BY <1>1

\* The command on the line is one of the kinds, or none.
LEMMA OnTheLine ==
  ASSUME Shape
  PROVE  /\ pending.id \in Id
         /\ pending.cmd \in CommandName => pending \in GoodCommand /\ pending # NoCommand
         /\ pending # NoCommand => pending.cmd \in CommandName /\ booted
         /\ NoCommand.cmd \notin CommandName \cup {"USOWR"}
<1>1. NoCommand.cmd = "none" /\ NoCommand.id = 0
  BY DEF NoCommand, Command
<1>2. "none" \notin CommandName \cup {"USOWR"} /\ 0 \in Id
  BY SocketsAssumption DEF CommandName, Id
<1>3. \A c \in GoodCommand : c.cmd \in CommandName /\ c.id \in Id
  BY DEF GoodCommand, SentCommand
<1> QED BY <1>1, <1>2, <1>3 DEF Shape

\* Commands that wait keep waiting while the one on the line stays, or ends.
LEMMA FlightKept ==
  ASSUME Waiting \subseteq Waiting', pending' = pending
  PROVE  InFlight \subseteq InFlight' /\ Waiting' \subseteq InFlight'
BY DEF InFlight

LEMMA FlightEnded ==
  ASSUME Waiting \subseteq Waiting', pending' = NoCommand
  PROVE  (\A c \in InFlight : c # pending => c \in InFlight') /\ Waiting' \subseteq InFlight'
BY DEF InFlight

\* No second write comes up while none is added.
LEMMA SingleIfKept ==
  ASSUME SingleWrite, NoNewWrite, pending'.cmd = "USOWR" => pending.cmd = "USOWR",
         pendingSockTransmission' = pendingSockTransmission
  PROVE  SingleWrite'
<1>1. \A k \in DOMAIN stack' : stack'[k].cmd = "USOWR" => k \in DOMAIN stack /\ stack[k].cmd = "USOWR"
  BY Zenon DEF NoNewWrite
<1> QED BY <1>1 DEF SingleWrite

LEMMA StackKept ==
  ASSUME stack' = stack
  PROVE  NoNewWrite /\ Waiting' = Waiting
BY DEF NoNewWrite, Waiting

\* Confirm ends the connecting of its socket.
LEMMA Confirmed ==
  ASSUME Shape, SocketsAreOpen, ConnectingGoesOn, NEW s \in Id, NEW ok \in BOOLEAN, Confirm(s, ok),
         lost' = lost, \A c \in InFlight : c.id # s => c \in InFlight'
  PROVE  /\ socketArray' \in Seq(GoodSocket) /\ Len(socketArray') = Len(socketArray)
         /\ DOMAIN socketArray' = DOMAIN socketArray
         /\ \A j \in DOMAIN socketArray : socketArray'[j].id = socketArray[j].id
         /\ refused' \subseteq Id
         /\ ConnectingGoesOn'
<1> DEFINE n == Index(s)
           r == OnConnectionConfirm(socketArray[n], ok)
<1>1. refused' = refused \ {s}
  BY DEF Confirm
<1>2. /\ socketArray' \in Seq(GoodSocket) /\ Len(socketArray') = Len(socketArray)
      /\ DOMAIN socketArray' = DOMAIN socketArray
      /\ \A j \in DOMAIN socketArray : /\ socketArray'[j].id = socketArray[j].id
                                       /\ socketArray'[j].state = "CONNECTING" => socketArray[j].state = "CONNECTING"
      /\ Has(s) => n \in DOMAIN socketArray /\ socketArray[n].id = s /\ socketArray'[n].state # "CONNECTING"
  <2>1. CASE Has(s)
    <3>1. n \in DOMAIN socketArray /\ socketArray[n].id = s /\ socketArray[n] \in GoodSocket
      BY <2>1, IndexFinds, Elements
    <3>2. socketArray' = [socketArray EXCEPT ![n] = r]
      BY <2>1, <3>1 DEF Confirm
    <3>3. r \in GoodSocket /\ r.id = s /\ r.state # "CONNECTING"
      BY <3>1 DEF OnConnectionConfirm, GoodSocket, Socket, State, PacketsFit
    <3> HIDE DEF r, n
    <3>4. socketArray \in Seq(GoodSocket)
      BY DEF Shape
    <3>5. /\ socketArray' \in Seq(GoodSocket) /\ Len(socketArray') = Len(socketArray)
          /\ DOMAIN socketArray' = DOMAIN socketArray
          /\ \A j \in DOMAIN socketArray : socketArray'[j] = IF j = n THEN r ELSE socketArray[j]
      BY <3>1, <3>2, <3>3, <3>4, SocketChanged
    <3> QED BY <2>1, <3>1, <3>3, <3>5
  <2>2. CASE ~Has(s)
    <3>1. socketArray' = socketArray
      BY <2>2 DEF Confirm
    <3> QED BY <2>2, <3>1 DEF Shape
  <2> QED BY <2>1, <2>2
<1> HIDE DEF n, r
<1>3. ConnectingGoesOn'
  <2> SUFFICES ASSUME NEW i \in DOMAIN socketArray', socketArray'[i].state = "CONNECTING",
                      socketArray'[i].id \notin lost' \cup refused'
               PROVE  \E c \in InFlight' : c.id = socketArray'[i].id /\ c.cmd \in ChainCommand
    BY Zenon DEF ConnectingGoesOn, ChainCommand
  <2>1. i \in DOMAIN socketArray /\ socketArray[i].state = "CONNECTING" /\ socketArray[i].id = socketArray'[i].id
    BY <1>2
  <2>2. socketArray[i].id # s
    <3> SUFFICES ASSUME socketArray[i].id = s PROVE FALSE
      OBVIOUS
    <3>1. n \in DOMAIN socketArray /\ socketArray[n].id = s /\ i # n
      BY <1>2, <2>1 DEF Has
    <3>2. s \in lost
      BY <2>1, <3>1 DEF SocketsAreOpen
    <3> QED BY <2>1, <3>2
  <2>3. socketArray[i].id \notin lost \cup refused
    BY <1>1, <2>1, <2>2
  <2>4. PICK c \in InFlight : c.id = socketArray[i].id /\ c.cmd \in ChainCommand
    BY <2>1, <2>3 DEF ConnectingGoesOn, ChainCommand
  <2> QED BY <2>1, <2>2, <2>4
<1> QED BY <1>1, <1>2, <1>3 DEF Shape

\* SendNextAvailableData finds a socket with a packet, if there is one.
LEMMA NextChosen ==
  ASSUME Shape, SendNextAvailableData
  PROVE  \/ pendingSockTransmission' = NONE /\ UNCHANGED <<socketArray, stack, orphan>>
         \/ \E i \in DOMAIN socketArray : socketArray[i].out # <<>> /\ SendPacket(socketArray, i)
<1> DEFINE next == (pendingSockTransmission + 1) % 256
           from == IF next >= MAX_SOCKET_AMOUNT THEN 0 ELSE next
           Distance(s) == (s - from + MAX_SOCKET_AMOUNT) % MAX_SOCKET_AMOUNT
           ready == {s \in Id : Has(s) /\ PeekSocket(s).out # <<>>}
           chosen == CHOOSE s \in ready : \A r \in ready : Distance(s) <= Distance(r)
<1>1. \/ ready = {} /\ pendingSockTransmission' = NONE /\ UNCHANGED <<socketArray, stack, orphan>>
      \/ ready # {} /\ SendPacket(socketArray, Index(chosen))
  BY DEF SendNextAvailableData
<1>2. CASE ready # {} /\ SendPacket(socketArray, Index(chosen))
  <2>1. \A s \in ready : Distance(s) \in Nat
    <3>1. MAX_SOCKET_AMOUNT \in Nat \ {0} /\ from \in Int /\ \A s \in ready : s \in Int
      BY SocketsAssumption DEF Shape, Id, NONE
    <3> HIDE DEF from, ready
    <3> QED BY <3>1
  <2>2. \E s \in ready : \A r \in ready : Distance(s) <= Distance(r)
    <3> HIDE DEF ready
    <3> DEFINE T == {Distance(s) : s \in ready}
    <3>1. T \in SUBSET Nat /\ T # {}
      BY <1>2, <2>1
    <3>2. PICK d \in T : \A e \in T : d <= e
      <4> HIDE DEF T
      <4> QED BY <3>1, SmallestOf
    <3> QED BY <3>2
  <2>3. chosen \in ready
    <3> HIDE DEF ready, from
    <3> QED BY <2>2, Zenon
  <2>4. Has(chosen) /\ PeekSocket(chosen).out # <<>> /\ SendPacket(socketArray, Index(chosen))
    BY <1>2, <2>3, Zenon
  <2> HIDE DEF chosen
  <2>5. Index(chosen) \in DOMAIN socketArray /\ socketArray[Index(chosen)].out # <<>>
    BY <2>4, IndexFinds, Elements DEF PeekSocket
  <2> QED BY <2>4, <2>5
<1> QED BY <1>1, <1>2

\* SendNextAvailableData sends at most one packet, and says so.
LEMMA NextSent ==
  ASSUME Shape, SendNextAvailableData, \A k \in DOMAIN stack : stack[k].cmd # "USOWR"
  PROVE  /\ socketArray' \in Seq(GoodSocket) /\ Len(socketArray') = Len(socketArray)
         /\ SameSockets(socketArray, socketArray')
         /\ pendingSockTransmission' \in Id \cup {NONE}
         /\ stack' \in Seq(GoodCommand) /\ Len(stack') <= OUT_MESSAGE_STACK_SIZE
         /\ Waiting \subseteq Waiting'
         /\ \A j, k \in DOMAIN stack' : stack'[j].cmd = "USOWR" /\ stack'[k].cmd = "USOWR" => j = k
         /\ pendingSockTransmission' = NONE => \A k \in DOMAIN stack' : stack'[k].cmd # "USOWR"
         /\ orphan' \in BOOLEAN
<1>1. CASE pendingSockTransmission' = NONE /\ UNCHANGED <<socketArray, stack, orphan>>
  <2>1. Waiting' = Waiting
    BY <1>1 DEF Waiting
  <2> QED BY <1>1, <2>1 DEF Shape, SameSockets
<1>2. CASE \E i \in DOMAIN socketArray : socketArray[i].out # <<>> /\ SendPacket(socketArray, i)
  <2>1. PICK i \in DOMAIN socketArray : socketArray[i].out # <<>> /\ SendPacket(socketArray, i)
    BY <1>2
  <2>2. socketArray \in Seq(GoodSocket)
    BY DEF Shape
  <2>3. /\ socketArray' \in Seq(GoodSocket) /\ Len(socketArray') = Len(socketArray)
        /\ SameSockets(socketArray, socketArray')
        /\ pendingSockTransmission' \in Id
        /\ stack' \in Seq(GoodCommand) /\ Len(stack') <= OUT_MESSAGE_STACK_SIZE
        /\ Waiting \subseteq Waiting'
        /\ \A j, k \in DOMAIN stack' : stack'[j].cmd = "USOWR" /\ stack'[k].cmd = "USOWR" => j = k
        /\ orphan' \in BOOLEAN
    BY <2>1, <2>2, PacketSent
  <2>4. pendingSockTransmission' # NONE
    BY <2>3, SocketsAssumption DEF Id, NONE
  <2> QED BY <2>3, <2>4
<1> QED BY <1>1, <1>2, NextChosen

\* Unit u makes the last packet of out longer, or starts the next when it is full.
Longer(out, n, u, b) ==
  /\ n # 0 /\ Len(out[n]) < PacketSize
  /\ Len(b) = n /\ b[n] = Append(out[n], u)
  /\ \A k \in 1 .. n - 1 : b[k] = out[k]

Started(out, n, u, b) ==
  /\ n # 0 => Len(out[n]) = PacketSize
  /\ Len(b) = n + 1 /\ b[n + 1] = <<u>>
  /\ \A k \in 1 .. n : b[k] = out[k]

LEMMA AppendUnitIs ==
  ASSUME NEW out, PacketsFit(out), out = <<>> \/ ~IsFull(out), NEW u \in Unit,
         NEW b, b = AppendUnit(out, u), NEW n, n = Len(out)
  PROVE  b \in Seq(Seq(Unit)) /\ (Longer(out, n, u, b) \/ Started(out, n, u, b))
<1> DEFINE S == Seq(Unit)
<1>1. out \in Seq(S) /\ n \in Nat /\ \A k \in 1 .. n : out[k] \in S /\ Len(out[k]) \in 1 .. PacketSize
  BY LenProperties, ElementOfSeq DEF PacketsFit
<1>2. PacketSize \in Nat \ {0}
  BY SocketsAssumption
<1>3. out # <<>> <=> n # 0
  BY <1>1, EmptySeq
<1>4. n # 0 => Last(out) = out[n] /\ n \in 1 .. n
  <2>1. n \in Nat /\ (n # 0 => n \in 1 .. n)
    BY <1>1
  <2> QED BY <2>1 DEF Last
<1>5. CASE out # <<>> /\ Len(Last(out)) < PacketSize
  <2> DEFINE p == Append(Last(out), u)
             f == Front(out)
  <2>1. b = Append(f, p)
    BY <1>5 DEF AppendUnit
  <2>2. p \in S /\ p = Append(out[n], u)
    BY <1>1, <1>3, <1>4, <1>5, AppendProperties
  <2>3. f \in Seq(S) /\ Len(f) = n - 1 /\ \A k \in 1 .. n - 1 : f[k] = out[k]
    <3>1. \A k \in 1 .. n - 1 : out[k] \in S
      BY <1>1
    <3>2. /\ SubSeq(out, 1, n - 1) \in Seq(S)
          /\ Len(SubSeq(out, 1, n - 1)) = IF 1 <= n - 1 THEN n - 1 - 1 + 1 ELSE 0
          /\ \A k \in 1 .. n - 1 - 1 + 1 : SubSeq(out, 1, n - 1)[k] = out[1 + k - 1]
      BY <1>1, <3>1, SubSeqProperties, 1 \in Int, n - 1 \in Int
    <3>3. n # 0 /\ f = SubSeq(out, 1, n - 1)
      BY <1>3, <1>5 DEF Front
    <3> HIDE DEF f
    <3>4. Len(f) = n - 1
      <4>1. CASE n = 1
        BY <3>2, <3>3, <4>1
      <4>2. CASE n # 1
        <5>1. 1 <= n - 1 /\ n - 1 - 1 + 1 = n - 1
          BY <1>1, <3>3, <4>2
        <5> QED BY <3>2, <3>3, <5>1
      <4> QED BY <4>1, <4>2
    <3>5. ASSUME NEW k \in 1 .. n - 1 PROVE f[k] = out[k]
      <4>1. k \in 1 .. n - 1 - 1 + 1 /\ 1 + k - 1 = k
        BY <1>1
      <4> QED BY <3>2, <3>3, <4>1
    <3> QED BY <3>2, <3>3, <3>4, <3>5
  <2> HIDE DEF p, f
  <2>4. /\ b \in Seq(S) /\ Len(b) = n /\ b[n] = p
        /\ \A k \in 1 .. n - 1 : b[k] = out[k]
    <3>1. /\ Append(f, p) \in Seq(S) /\ Len(Append(f, p)) = Len(f) + 1
          /\ \A k \in 1 .. Len(f) : Append(f, p)[k] = f[k]
          /\ Append(f, p)[Len(f) + 1] = p
      BY <2>2, <2>3, AppendProperties
    <3>2. Len(f) + 1 = n /\ Len(f) = n - 1
      BY <1>1, <2>3
    <3> QED BY <2>1, <2>3, <3>1, <3>2
  <2>5. n # 0 /\ Len(out[n]) < PacketSize
    BY <1>3, <1>4, <1>5
  <2> QED BY <2>2, <2>4, <2>5 DEF Longer
<1>6. CASE ~(out # <<>> /\ Len(Last(out)) < PacketSize)
  <2>1. b = Append(out, <<u>>)
    BY <1>6 DEF AppendUnit
  <2>2. <<u>> \in S
    OBVIOUS
  <2>3. /\ Append(out, <<u>>) \in Seq(S) /\ Len(Append(out, <<u>>)) = n + 1
        /\ \A k \in 1 .. n : Append(out, <<u>>)[k] = out[k]
        /\ Append(out, <<u>>)[n + 1] = <<u>>
    BY <1>1, <2>2, AppendProperties
  <2>4. n # 0 => Len(out[n]) = PacketSize
    BY <1>1, <1>2, <1>3, <1>4, <1>6
  <2> QED BY <2>1, <2>3, <2>4 DEF Started
<1> QED BY <1>5, <1>6

\* The packets fit.
LEMMA UnitAppended ==
  ASSUME NEW out, PacketsFit(out), out = <<>> \/ ~IsFull(out), NEW u \in Unit
  PROVE  PacketsFit(AppendUnit(out, u)) /\ AppendUnit(out, u) # <<>>
<1> DEFINE n == Len(out)
           b == AppendUnit(out, u)
<1>1. /\ n \in Nat /\ n <= MaxPackets
      /\ \A k \in 1 .. n : out[k] \in Seq(Unit) /\ Len(out[k]) \in 1 .. PacketSize
      /\ out # <<>> <=> n # 0
  BY LenProperties, ElementOfSeq, EmptySeq DEF PacketsFit
<1>2. PacketSize \in Nat \ {0} /\ MaxPackets \in Nat \ {0}
  BY SocketsAssumption
<1>3. b \in Seq(Seq(Unit)) /\ (Longer(out, n, u, b) \/ Started(out, n, u, b))
  BY AppendUnitIs
<1>4. n # 0 => Last(out) = out[n] /\ n \in 1 .. n
  <2>1. n \in Nat /\ (n # 0 => n \in 1 .. n)
    BY <1>1
  <2> QED BY <2>1 DEF Last
<1>5. ~(n = MaxPackets /\ Len(out[n]) = PacketSize)
  BY <1>1, <1>2, <1>4 DEF IsFull
<1> HIDE DEF b, n
<1>6. /\ Len(b) \in 1 .. MaxPackets
      /\ \A k \in 1 .. Len(b) : Len(b[k]) \in 1 .. PacketSize
  <2>1. CASE Longer(out, n, u, b)
    <3>1. n \in 1 .. n /\ n # 0 /\ Len(b) = n /\ b[n] = Append(out[n], u) /\ Len(out[n]) < PacketSize
      BY <1>1, <2>1 DEF Longer
    <3>2. Len(b[n]) = Len(out[n]) + 1
      BY <1>1, <3>1, AppendProperties
    <3>3. \A k \in 1 .. n - 1 : b[k] = out[k]
      BY <2>1 DEF Longer
    <3>4. \A k \in 1 .. n : k = n \/ k \in 1 .. n - 1
      BY <1>1
    <3>5. Len(b[n]) \in 1 .. PacketSize
      BY <1>1, <1>2, <3>1, <3>2
    <3>6. n \in 1 .. MaxPackets
      BY <1>1, <1>2, <3>1
    <3> QED BY <1>1, <3>1, <3>3, <3>4, <3>5, <3>6
  <2>2. CASE Started(out, n, u, b)
    <3>1. /\ n # 0 => Len(out[n]) = PacketSize
          /\ Len(b) = n + 1 /\ b[n + 1] = <<u>>
          /\ \A k \in 1 .. n : b[k] = out[k]
      BY <2>2 DEF Started
    <3>2. Len(<<u>>) = 1 /\ 1 \in 1 .. PacketSize
      BY <1>2
    <3>3. \A k \in 1 .. n + 1 : k = n + 1 \/ k \in 1 .. n
      BY <1>1
    <3>4. n + 1 \in 1 .. MaxPackets
      BY <1>1, <1>2, <1>5, <3>1
    <3> QED BY <1>1, <3>1, <3>2, <3>3, <3>4
  <2> QED BY <1>3, <2>1, <2>2
<1>7. DOMAIN b = 1 .. Len(b) /\ b # <<>>
  BY <1>2, <1>3, <1>6, LenProperties, EmptySeq
<1>8. Len(b) <= MaxPackets
  BY <1>2, <1>6
<1>9. PacketsFit(b)
  BY <1>3, <1>6, <1>7, <1>8 DEF PacketsFit
<1> QED BY <1>7, <1>9 DEF b

-----------------------------------------------------------------------------
(* The users                                                               *)

LEMMA CreateSocketInv ==
  ASSUME IInv, CreateSocket
  PROVE  IInv'
<1> USE DEF IInv
<1> DEFINE c == Command("USOCR", 0)
<1>1. /\ stack' = Append(stack, c) /\ Len(stack) < OUT_MESSAGE_STACK_SIZE
      /\ UNCHANGED <<handler, pending, booted, modem, created, history>>
  BY DEF CreateSocket
<1>2. c \in GoodCommand /\ c.cmd # "USOWR"
  <2>1. <<>> \in Seq(Unit) /\ 0 \in Id
    BY SocketsAssumption DEF Id
  <2> QED BY <2>1 DEF Command, GoodCommand, SentCommand, CommandName
<1> HIDE DEF c
<1>3. /\ stack' \in Seq(GoodCommand) /\ Len(stack') <= OUT_MESSAGE_STACK_SIZE
      /\ DOMAIN stack' = 1 .. Len(stack) + 1
      /\ \A k \in DOMAIN stack : k \in DOMAIN stack' /\ stack'[k] = stack[k]
      /\ stack'[Len(stack) + 1] = c
      /\ Waiting \subseteq Waiting'
  BY <1>1, <1>2, Appended
<1>4. NoNewWrite
  <2> SUFFICES ASSUME NEW k \in DOMAIN stack', stack'[k].cmd = "USOWR"
               PROVE  k \in DOMAIN stack /\ stack[k].cmd = "USOWR"
    BY Zenon DEF NoNewWrite
  <2>1. k # Len(stack) + 1
    BY <1>2, <1>3
  <2>2. k \in DOMAIN stack
    BY <1>3, <2>1, Elements
  <2> QED BY <1>3, <2>2
<1>5. Shape'
  BY <1>1, <1>3 DEF Shape, handler, history
<1>6. SingleWrite'
  BY <1>1, <1>4, SingleIfKept DEF handler
<1>7. SocketsAreOpen'
  BY <1>1, OpenIfKept DEF handler, history
<1>8. ConnectingGoesOn'
  <2>1. InFlight \subseteq InFlight'
    BY <1>1, <1>3, FlightKept
  <2> QED BY <1>1, <2>1, GoesOnIfKept DEF handler, history
<1> QED BY <1>5, <1>6, <1>7, <1>8

LEMMA ConnectInv ==
  ASSUME IInv, NEW i \in DOMAIN socketArray, NEW o \in ConnectOptions, Connect(i, o[1], o[2])
  PROVE  IInv'
<1> USE DEF IInv
<1> DEFINE c == IF o[1] THEN "USOSO" ELSE IF o[2] THEN "USOSEC" ELSE "USOCO"
           r == [socketArray[i] EXCEPT !.state = "CONNECTING", !.ssl = o[2]]
<1>1. /\ socketArray' = [socketArray EXCEPT ![i] = r]
      /\ AddCommand(c, socketArray[i].id)
      /\ UNCHANGED <<pendingSockTransmission, pending, booted, modem, created, lost, orphan>>
  BY DEF Connect
<1>2. socketArray[i] \in GoodSocket /\ socketArray[i].id \in Id /\ socketArray \in Seq(GoodSocket)
  BY Elements DEF GoodSocket, Socket, Shape
<1>3. r \in GoodSocket /\ r.id = socketArray[i].id
  <2>1. o[2] \in BOOLEAN
    BY SocketsAssumption
  <2> QED BY <1>2, <2>1 DEF GoodSocket, Socket, State, PacketsFit
<1>4. c \in ChainCommand /\ c \in CommandName \ {"USOWR"} /\ c # "USOCL"
  BY DEF ChainCommand, CommandName
<1> HIDE DEF c, r
<1>5. /\ socketArray' \in Seq(GoodSocket) /\ Len(socketArray') = Len(socketArray)
      /\ DOMAIN socketArray' = DOMAIN socketArray
      /\ \A j \in DOMAIN socketArray : socketArray'[j] = IF j = i THEN r ELSE socketArray[j]
  BY <1>1, <1>2, <1>3, SocketChanged
<1>6. /\ stack' \in Seq(GoodCommand) /\ Len(stack') <= OUT_MESSAGE_STACK_SIZE
      /\ refused \subseteq refused' /\ refused' \subseteq Id
      /\ Waiting \subseteq Waiting'
      /\ socketArray[i].id \in refused' \/ Command(c, socketArray[i].id) \in Waiting'
      /\ NoNewWrite
  BY <1>1, <1>2, <1>4, Added
<1>7. Shape'
  <2>1. ~booted' => FALSE
    BY <1>1 DEF Shape
  <2> QED BY <1>1, <1>5, <1>6, <2>1 DEF Shape
<1>8. SingleWrite'
  BY <1>1, <1>6, SingleIfKept
<1>9. SocketsAreOpen'
  BY <1>1, <1>3, <1>5, OpenIfKept
<1>10. ConnectingGoesOn'
  <2> SUFFICES ASSUME NEW j \in DOMAIN socketArray', socketArray'[j].state = "CONNECTING",
                      socketArray'[j].id \notin lost' \cup refused'
               PROVE  \E d \in InFlight' : d.id = socketArray'[j].id /\ d.cmd \in ChainCommand
    BY Zenon DEF ConnectingGoesOn, ChainCommand
  <2>1. InFlight \subseteq InFlight' /\ Waiting' \subseteq InFlight'
    BY <1>1, <1>6, FlightKept
  <2>2. CASE j = i
    <3>1. Command(c, socketArray[i].id) \in InFlight' /\ socketArray'[j].id = socketArray[i].id
      BY <1>3, <1>5, <1>6, <2>1, <2>2
    <3>2. /\ Command(c, socketArray[i].id).id = socketArray[i].id
          /\ Command(c, socketArray[i].id).cmd = c
      BY DEF Command
    <3> QED BY <1>4, <3>1, <3>2
  <2>3. CASE j # i
    <3>1. socketArray'[j] = socketArray[j] /\ j \in DOMAIN socketArray /\ socketArray[j].id \notin lost \cup refused
      BY <1>1, <1>5, <1>6, <2>3
    <3>2. PICK d \in InFlight : d.id = socketArray[j].id /\ d.cmd \in ChainCommand
      BY <3>1 DEF ConnectingGoesOn, ChainCommand
    <3> QED BY <2>1, <3>1, <3>2
  <2> QED BY <2>2, <2>3
<1> QED BY <1>7, <1>8, <1>9, <1>10

LEMMA CloseInv ==
  ASSUME IInv, NEW i \in DOMAIN socketArray, Close(i)
  PROVE  IInv'
<1> USE DEF IInv
<1> DEFINE r == [socketArray[i] EXCEPT !.state = "CLOSING"]
<1>1. /\ socketArray' = [socketArray EXCEPT ![i] = r]
      /\ AddCommand("USOCL", socketArray[i].id)
      /\ UNCHANGED <<pendingSockTransmission, pending, booted, modem, created, lost, orphan>>
  BY DEF Close
<1>2. socketArray[i] \in GoodSocket /\ socketArray[i].id \in Id /\ socketArray \in Seq(GoodSocket)
  BY Elements DEF GoodSocket, Socket, Shape
<1>3. r \in GoodSocket /\ r.id = socketArray[i].id /\ r.state # "CONNECTING"
  BY <1>2 DEF GoodSocket, Socket, State, PacketsFit
<1> HIDE DEF r
<1>4. /\ socketArray' \in Seq(GoodSocket) /\ Len(socketArray') = Len(socketArray)
      /\ DOMAIN socketArray' = DOMAIN socketArray
      /\ \A j \in DOMAIN socketArray : socketArray'[j] = IF j = i THEN r ELSE socketArray[j]
  BY <1>1, <1>2, <1>3, SocketChanged
<1>5. /\ stack' \in Seq(GoodCommand) /\ Len(stack') <= OUT_MESSAGE_STACK_SIZE
      /\ refused \subseteq refused' /\ refused' \subseteq Id
      /\ Waiting \subseteq Waiting'
      /\ NoNewWrite
  <2>1. "USOCL" \in CommandName \ {"USOWR"}
    BY DEF CommandName
  <2> QED BY <1>1, <1>2, <2>1, Added
<1>6. Shape'
  <2>1. ~booted' => FALSE
    BY <1>1 DEF Shape
  <2> QED BY <1>1, <1>4, <1>5, <2>1 DEF Shape
<1>7. SingleWrite'
  BY <1>1, <1>5, SingleIfKept
<1>8. SocketsAreOpen'
  BY <1>1, <1>3, <1>4, OpenIfKept
<1>9. ConnectingGoesOn'
  <2>1. InFlight \subseteq InFlight'
    BY <1>1, <1>5, FlightKept
  <2>2. \A j \in DOMAIN socketArray : /\ socketArray'[j].id = socketArray[j].id
                                      /\ socketArray'[j].state = "CONNECTING" => socketArray[j].state = "CONNECTING"
    BY <1>3, <1>4
  <2> QED BY <1>1, <1>4, <1>5, <2>1, <2>2, GoesOnIfKept
<1> QED BY <1>6, <1>7, <1>8, <1>9

LEMMA SendDataInv ==
  ASSUME IInv, NEW i \in DOMAIN socketArray, SendData(i)
  PROVE  IInv'
<1> USE DEF IInv
<1> DEFINE u == (socketArray[i].accepted + 1) % UnitMod
           r == [socketArray[i] EXCEPT !.out = AppendUnit(@, u), !.accepted = u]
           a == [socketArray EXCEPT ![i] = r]
<1>1. /\ CanSend(i)
      /\ \/ pendingSockTransmission = NONE /\ SendPacket(a, i)
         \/ /\ pendingSockTransmission # NONE
            /\ socketArray' = a /\ UNCHANGED <<pendingSockTransmission, stack, orphan>>
      /\ UNCHANGED <<pending, booted, modem, created, lost, refused>>
  BY DEF SendData
<1>2. socketArray[i] \in GoodSocket /\ socketArray \in Seq(GoodSocket)
  BY Elements DEF Shape
<1>3. u \in Unit
  <2>1. socketArray[i].accepted \in Nat /\ UnitMod \in Nat /\ UnitMod # 0
    BY <1>2, Units DEF GoodSocket, Socket, Unit
  <2> QED BY <2>1 DEF Unit
<1> HIDE DEF u
<1>4. PacketsFit(AppendUnit(socketArray[i].out, u)) /\ AppendUnit(socketArray[i].out, u) # <<>>
  <2>1. PacketsFit(socketArray[i].out) /\ (socketArray[i].out = <<>> \/ ~IsFull(socketArray[i].out))
    BY <1>1, <1>2 DEF GoodSocket, CanSend
  <2> QED BY <1>3, <2>1, UnitAppended
<1>5. r \in GoodSocket /\ r.id = socketArray[i].id /\ r.state = socketArray[i].state /\ r.out # <<>>
  <2>1. AppendUnit(socketArray[i].out, u) \in Seq(Seq(Unit))
    BY <1>4 DEF PacketsFit
  <2> QED BY <1>2, <1>3, <1>4, <2>1 DEF GoodSocket, Socket
<1> HIDE DEF r
<1>6. /\ a \in Seq(GoodSocket) /\ Len(a) = Len(socketArray) /\ DOMAIN a = DOMAIN socketArray
      /\ \A j \in DOMAIN socketArray : a[j] = IF j = i THEN r ELSE socketArray[j]
  BY <1>2, <1>5, SocketChanged
<1> HIDE DEF a
<1>7. /\ socketArray' \in Seq(GoodSocket) /\ Len(socketArray') = Len(a)
      /\ SameSockets(a, socketArray')
      /\ pendingSockTransmission' \in Id \cup {NONE}
      /\ stack' \in Seq(GoodCommand) /\ Len(stack') <= OUT_MESSAGE_STACK_SIZE
      /\ Waiting \subseteq Waiting'
      /\ orphan' \in BOOLEAN
      /\ SingleWrite'
  <2>1. CASE pendingSockTransmission = NONE /\ SendPacket(a, i)
    <3>1. pending.cmd # "USOWR" /\ \A k \in DOMAIN stack : stack[k].cmd # "USOWR"
      BY <2>1 DEF SingleWrite
    <3>2. a[i].out # <<>> /\ i \in DOMAIN a
      BY <1>5, <1>6
    <3>3. /\ socketArray' \in Seq(GoodSocket) /\ Len(socketArray') = Len(a)
          /\ SameSockets(a, socketArray')
          /\ pendingSockTransmission' \in Id
          /\ stack' \in Seq(GoodCommand) /\ Len(stack') <= OUT_MESSAGE_STACK_SIZE
          /\ Waiting \subseteq Waiting'
          /\ \A j, k \in DOMAIN stack' : stack'[j].cmd = "USOWR" /\ stack'[k].cmd = "USOWR" => j = k
          /\ orphan' \in BOOLEAN
      BY <1>6, <2>1, <3>1, <3>2, PacketSent
    <3>4. pendingSockTransmission' # NONE
      BY <3>3, SocketsAssumption DEF Id, NONE
    <3>5. SingleWrite'
      BY <1>1, <3>1, <3>3, <3>4 DEF SingleWrite
    <3> QED BY <3>3, <3>5
  <2>2. CASE pendingSockTransmission # NONE /\ socketArray' = a
             /\ UNCHANGED <<pendingSockTransmission, stack, orphan>>
    <3>1. SingleWrite'
      BY <1>1, <2>2, StackKept, SingleIfKept
    <3> QED BY <1>6, <2>2, <3>1, StackKept DEF Shape, SameSockets
  <2> QED BY <1>1, <2>1, <2>2
<1>8. /\ DOMAIN socketArray' = DOMAIN socketArray
      /\ \A j \in DOMAIN socketArray : /\ socketArray'[j].id = socketArray[j].id
                                       /\ socketArray'[j].state = socketArray[j].state
  BY <1>5, <1>6, <1>7 DEF SameSockets
<1>9. Shape'
  <2>1. ~booted' => FALSE
    BY <1>1 DEF Shape
  <2> QED BY <1>1, <1>6, <1>7, <2>1 DEF Shape
<1>10. SocketsAreOpen'
  BY <1>1, <1>8, OpenIfKept
<1>11. ConnectingGoesOn'
  <2>1. InFlight \subseteq InFlight'
    BY <1>1, <1>7, FlightKept
  <2> QED BY <1>1, <1>8, <2>1, GoesOnIfKept
<1> QED BY <1>7, <1>9, <1>10, <1>11

LEMMA CloseTimerInv ==
  ASSUME IInv, NEW i \in DOMAIN socketArray, CloseTimerCompletes(i)
  PROVE  IInv'
<1> USE DEF IInv
<1> DEFINE s == socketArray[i].id
<1>1. Destroy(s, {}) /\ UNCHANGED <<pendingSockTransmission, service, modem, created>>
  BY DEF CloseTimerCompletes, DestroySocket
<1>2. s \in Id
  BY Elements DEF GoodSocket, Socket
<1> HIDE DEF s
<1>3. Shape'
  <2>1. booted
    BY DEF Shape
  <2>2. /\ socketArray' \in Seq(GoodSocket) /\ Len(socketArray') <= MAX_SOCKET_AMOUNT
        /\ lost' \subseteq Id /\ refused' \subseteq Id /\ orphan' \in BOOLEAN
    BY <1>1, <1>2, Destroyed, {} \in SUBSET Id
  <2> QED BY <1>1, <2>1, <2>2 DEF Shape, service
<1>4. SingleWrite'
  BY <1>1, StackKept, SingleIfKept DEF service
<1>5. SocketsAreOpen'
  BY <1>1, <1>2, OpenAfterDestroy, {} \in SUBSET Id
<1>6. ConnectingGoesOn'
  <2>1. InFlight \subseteq InFlight'
    BY <1>1, StackKept, FlightKept DEF service
  <2> QED BY <1>1, <1>2, <2>1, GoesOnAfterDestroy, {} \in SUBSET Id
<1> QED BY <1>3, <1>4, <1>5, <1>6

-----------------------------------------------------------------------------
(* The line and its answers                                                *)

LEMMA LoopSendInv ==
  ASSUME IInv, LoopSend
  PROVE  IInv'
<1> USE DEF IInv
<1> DEFINE c == Head(stack)
           r == HandedOver(socketArray[Index(c.id)], Last(c.data))
<1>1. /\ booted /\ pending = NoCommand /\ stack # <<>>
      /\ pending' = c /\ stack' = Tail(stack)
      /\ \/ /\ c.cmd = "USOWR" /\ Has(c.id)
            /\ socketArray' = [socketArray EXCEPT ![Index(c.id)] = HandedOver(@, Last(c.data))]
         \/ socketArray' = socketArray
      /\ orphan' \in BOOLEAN
      /\ UNCHANGED <<pendingSockTransmission, booted, modem, created, lost, refused>>
  BY DEF LoopSend, Shape
<1>2. /\ c \in GoodCommand /\ c = stack[1] /\ 1 \in DOMAIN stack
      /\ stack' \in Seq(GoodCommand) /\ Len(stack') <= OUT_MESSAGE_STACK_SIZE
      /\ \A k \in DOMAIN stack' : k + 1 \in DOMAIN stack /\ k + 1 # 1 /\ stack'[k] = stack[k + 1]
      /\ InFlight \subseteq InFlight'
  BY <1>1, FirstTaken
<1> HIDE DEF c
<1>3. /\ socketArray' \in Seq(GoodSocket) /\ Len(socketArray') = Len(socketArray)
      /\ DOMAIN socketArray' = DOMAIN socketArray
      /\ \A j \in DOMAIN socketArray : /\ socketArray'[j].id = socketArray[j].id
                                       /\ socketArray'[j].state = socketArray[j].state
  <2>1. CASE c.cmd = "USOWR" /\ Has(c.id)
             /\ socketArray' = [socketArray EXCEPT ![Index(c.id)] = HandedOver(@, Last(c.data))]
    <3>1. Index(c.id) \in DOMAIN socketArray /\ socketArray[Index(c.id)] \in GoodSocket
      BY <2>1, IndexFinds, Elements
    <3>2. socketArray' = [socketArray EXCEPT ![Index(c.id)] = r] /\ socketArray \in Seq(GoodSocket)
      BY <2>1, <3>1 DEF Shape
    <3>3. Last(c.data) \in Unit
      <4>1. c.data \in Seq(Unit) /\ c.data # <<>>
        BY <1>2, <2>1 DEF GoodCommand, SentCommand
      <4>2. Len(c.data) \in 1 .. Len(c.data)
        BY <4>1, EmptySeq
      <4> QED BY <4>1, <4>2, ElementOfSeq DEF Last
    <3>4. 0 \in Unit
      BY Units
    <3>5. r \in GoodSocket /\ r.id = socketArray[Index(c.id)].id /\ r.state = socketArray[Index(c.id)].state
      BY <3>1, <3>3, <3>4 DEF HandedOver, GoodSocket, Socket, PacketsFit
    <3> HIDE DEF r
    <3>6. /\ socketArray' \in Seq(GoodSocket) /\ Len(socketArray') = Len(socketArray)
          /\ DOMAIN socketArray' = DOMAIN socketArray
          /\ \A j \in DOMAIN socketArray : socketArray'[j] = IF j = Index(c.id) THEN r ELSE socketArray[j]
      BY <3>1, <3>2, <3>5, SocketChanged
    <3> QED BY <3>5, <3>6
  <2>2. CASE socketArray' = socketArray
    BY <2>2 DEF Shape
  <2> QED BY <1>1, <2>1, <2>2
<1>4. Shape'
  BY <1>1, <1>2, <1>3 DEF Shape
<1>5. SingleWrite'
  BY <1>1, <1>2, Elements DEF SingleWrite
<1>6. SocketsAreOpen'
  BY <1>1, <1>3, OpenIfKept
<1>7. ConnectingGoesOn'
  BY <1>1, <1>2, <1>3, GoesOnIfKept
<1> QED BY <1>4, <1>5, <1>6, <1>7

LEMMA CreateAnswerInv ==
  ASSUME IInv, NEW s \in Id, CreateAnswer(s)
  PROVE  IInv'
<1> USE DEF IInv
<1> DEFINE g == GSMSocket(s)
<1>1. /\ pending.cmd = "USOCR" /\ s \notin modem /\ modem' = modem \cup {s} /\ created' = TRUE
      /\ \/ Len(socketArray) < MAX_SOCKET_AMOUNT /\ socketArray' = Append(socketArray, g)
         \/ socketArray' = socketArray
      /\ UNCHANGED <<pendingSockTransmission, service, history>>
  BY DEF CreateAnswer
<1>2. booted
  <2>1. "USOCR" \in CommandName
    BY DEF CommandName
  <2> QED BY <1>1, <2>1, OnTheLine
<1>3. SingleWrite'
  BY <1>1, StackKept, SingleIfKept DEF service
<1>4. InFlight \subseteq InFlight'
  BY <1>1, StackKept, FlightKept DEF service
<1>5. CASE Len(socketArray) < MAX_SOCKET_AMOUNT /\ socketArray' = Append(socketArray, g)
  <2>1. g \in GoodSocket /\ g.id = s /\ g.state = "DISCONNECTED"
    <3>1. <<>> \in Seq(Seq(Unit)) /\ Len(<<>>) = 0 /\ DOMAIN <<>> = {}
      OBVIOUS
    <3>2. PacketsFit(<<>>)
      BY <3>1, SocketsAssumption DEF PacketsFit
    <3>3. 0 \in Unit
      BY Units
    <3> QED BY <3>1, <3>2, <3>3 DEF GSMSocket, GoodSocket, Socket, State
  <2> HIDE DEF g
  <2>2. socketArray \in Seq(GoodSocket) /\ Len(socketArray) \in Nat /\ DOMAIN socketArray = 1 .. Len(socketArray)
    BY Elements DEF Shape
  <2>3. /\ socketArray' \in Seq(GoodSocket) /\ Len(socketArray') = Len(socketArray) + 1
        /\ \A j \in 1 .. Len(socketArray) : socketArray'[j] = socketArray[j]
        /\ socketArray'[Len(socketArray) + 1] = g
    BY <1>5, <2>1, <2>2, AppendProperties
  <2>4. DOMAIN socketArray' = 1 .. Len(socketArray) + 1
    BY <2>3, LenProperties
  <2>5. ASSUME NEW j \in DOMAIN socketArray', j # Len(socketArray) + 1
        PROVE  j \in DOMAIN socketArray /\ socketArray'[j] = socketArray[j]
    BY <2>2, <2>3, <2>4, <2>5
  <2>6. Shape'
    <3>1. Len(socketArray') <= MAX_SOCKET_AMOUNT
      BY <1>5, <2>2, <2>3, SocketsAssumption
    <3>2. modem' \subseteq Id
      BY <1>1 DEF Shape
    <3> QED BY <1>1, <1>2, <2>3, <3>1, <3>2 DEF Shape, service, history
  <2>7. SocketsAreOpen'
    <3>1. ASSUME NEW j \in DOMAIN socketArray' PROVE socketArray'[j].id \in modem' \cup lost'
      <4>1. CASE j = Len(socketArray) + 1
        BY <1>1, <2>1, <2>3, <4>1
      <4>2. CASE j # Len(socketArray) + 1
        BY <1>1, <2>5, <4>2 DEF SocketsAreOpen, history
      <4> QED BY <4>1, <4>2
    <3>2. ASSUME NEW j \in DOMAIN socketArray, socketArray[j].id = s PROVE s \in lost'
      BY <1>1, <3>2 DEF SocketsAreOpen, history
    <3>3. ASSUME NEW j \in DOMAIN socketArray', NEW k \in DOMAIN socketArray',
                 socketArray'[j].id = socketArray'[k].id, j # k
          PROVE  socketArray'[j].id \in lost'
      <4>1. CASE j = Len(socketArray) + 1
        <5>1. socketArray'[j].id = s /\ k \in DOMAIN socketArray /\ socketArray[k].id = s
          BY <2>1, <2>3, <2>5, <3>3, <4>1
        <5> QED BY <3>2, <5>1
      <4>2. CASE k = Len(socketArray) + 1
        <5>1. socketArray'[j].id = s /\ j \in DOMAIN socketArray /\ socketArray[j].id = s
          BY <2>1, <2>3, <2>5, <3>3, <4>2
        <5> QED BY <3>2, <5>1
      <4>3. CASE j # Len(socketArray) + 1 /\ k # Len(socketArray) + 1
        <5>1. /\ j \in DOMAIN socketArray /\ socketArray'[j] = socketArray[j]
              /\ k \in DOMAIN socketArray /\ socketArray'[k] = socketArray[k]
          BY <2>5, <4>3
        <5> QED BY <1>1, <3>3, <5>1 DEF SocketsAreOpen, history
      <4> QED BY <4>1, <4>2, <4>3
    <3> QED BY <3>1, <3>3 DEF SocketsAreOpen
  <2>8. ConnectingGoesOn'
    <3> SUFFICES ASSUME NEW j \in DOMAIN socketArray', socketArray'[j].state = "CONNECTING",
                        socketArray'[j].id \notin lost' \cup refused'
                 PROVE  \E d \in InFlight' : d.id = socketArray'[j].id /\ d.cmd \in ChainCommand
      BY Zenon DEF ConnectingGoesOn, ChainCommand
    <3>1. j \in DOMAIN socketArray /\ socketArray'[j] = socketArray[j]
      BY <2>1, <2>3, <2>5
    <3>2. PICK d \in InFlight : d.id = socketArray[j].id /\ d.cmd \in ChainCommand
      BY <1>1, <3>1 DEF ConnectingGoesOn, ChainCommand, history
    <3> QED BY <1>4, <3>1, <3>2
  <2> QED BY <1>3, <2>6, <2>7, <2>8
<1>6. CASE socketArray' = socketArray
  <2>1. Shape'
    <3>1. modem' \subseteq Id
      BY <1>1 DEF Shape
    <3> QED BY <1>1, <1>2, <1>6, <3>1 DEF Shape, service, history
  <2>2. SocketsAreOpen'
    BY <1>1, <1>6, OpenIfKept DEF history
  <2>3. ConnectingGoesOn'
    BY <1>1, <1>4, <1>6, GoesOnIfKept DEF history
  <2> QED BY <1>3, <2>1, <2>2, <2>3
<1> QED BY <1>1, <1>5, <1>6

\* A final result takes the command from the line, and nothing else.
LEMMA Finished ==
  ASSUME Shape, NEW ok \in BOOLEAN, Final(ok)
  PROVE  /\ pending' = NoCommand /\ pending'.cmd # "USOWR" /\ pending'.id \in Id
         /\ created' = FALSE /\ booted' = booted /\ booted
         /\ pending \in GoodCommand /\ pending.id \in Id
<1>1. pending # NoCommand /\ pending' = NoCommand /\ created' = FALSE /\ booted' = booted
  BY DEF Final
<1>2. NoCommand.cmd # "USOWR" /\ NoCommand.id \in Id
  BY SocketsAssumption DEF NoCommand, Command, Id
<1> QED BY <1>1, <1>2, OnTheLine

LEMMA SilentFinalInv ==
  ASSUME IInv, NEW ok \in BOOLEAN, CreateFinal(ok) \/ ReadFinal(ok)
  PROVE  IInv'
<1> USE DEF IInv
<1>1. /\ pending.cmd \in {"USOCR", "USORD"} /\ Final(ok)
      /\ UNCHANGED <<handler, stack, modem, history>>
  BY DEF CreateFinal, ReadFinal
<1>2. /\ pending' = NoCommand /\ pending'.cmd # "USOWR"
      /\ created' = FALSE /\ booted' = booted /\ booted
  BY <1>1, Finished
<1>3. Shape'
  BY <1>1, <1>2 DEF Shape, handler, history
<1>4. SingleWrite'
  BY <1>1, <1>2, StackKept, SingleIfKept DEF handler
<1>5. SocketsAreOpen'
  BY <1>1, OpenIfKept DEF handler, history
<1>6. ConnectingGoesOn'
  <2>1. \A c \in InFlight : c # pending => c \in InFlight'
    BY <1>1, <1>2, StackKept, FlightEnded
  <2>2. \A c \in InFlight : c.cmd \in ChainCommand => c \in InFlight'
    BY <1>1, <2>1 DEF ChainCommand
  <2> QED BY <1>1, <2>2, GoesOnIfKept DEF handler, history
<1> QED BY <1>3, <1>4, <1>5, <1>6

LEMMA ConnectFinalInv ==
  ASSUME IInv, NEW ok \in BOOLEAN, ConnectFinal(ok)
  PROVE  IInv'
<1> USE DEF IInv
<1>1. /\ Final(ok) /\ Confirm(pending.id, ok)
      /\ UNCHANGED <<pendingSockTransmission, stack, modem, lost, orphan>>
  BY DEF ConnectFinal
<1>2. /\ pending' = NoCommand /\ pending'.cmd # "USOWR" /\ pending.id \in Id
      /\ created' = FALSE /\ booted' = booted /\ booted
  BY <1>1, Finished
<1>3. \A c \in InFlight : c.id # pending.id => c \in InFlight'
  BY <1>1, <1>2, StackKept, FlightEnded
<1>4. /\ socketArray' \in Seq(GoodSocket) /\ Len(socketArray') = Len(socketArray)
      /\ DOMAIN socketArray' = DOMAIN socketArray
      /\ \A j \in DOMAIN socketArray : socketArray'[j].id = socketArray[j].id
      /\ refused' \subseteq Id
      /\ ConnectingGoesOn'
  <2> DEFINE s == pending.id
  <2>1. s \in Id /\ Confirm(s, ok) /\ \A c \in InFlight : c.id # s => c \in InFlight'
    BY <1>1, <1>2, <1>3
  <2> HIDE DEF s
  <2> QED BY <1>1, <2>1, Confirmed
<1>5. Shape'
  BY <1>1, <1>2, <1>4 DEF Shape
<1>6. SingleWrite'
  BY <1>1, <1>2, StackKept, SingleIfKept
<1>7. SocketsAreOpen'
  BY <1>1, <1>4, OpenIfKept
<1> QED BY <1>4, <1>5, <1>6, <1>7

\* The command of a chain ends and the next is asked for, for its socket if it is
\* there.
LEMMA NextOfChain ==
  ASSUME IInv, NEW ok \in BOOLEAN, Final(ok), pending.cmd \in ChainCommand,
         NEW c \in ChainCommand, NEW s \in Id, AddCommand(c, s),
         Has(pending.id) => s = pending.id,
         UNCHANGED <<handler, modem, lost, orphan>>
  PROVE  IInv'
<1> USE DEF IInv
<1>1. /\ pending' = NoCommand /\ pending'.cmd # "USOWR"
      /\ created' = FALSE /\ booted' = booted /\ booted
  BY Finished
<1>2. c \in CommandName \ {"USOWR"} /\ c # "USOCL"
  BY DEF ChainCommand, CommandName
<1>3. /\ stack' \in Seq(GoodCommand) /\ Len(stack') <= OUT_MESSAGE_STACK_SIZE
      /\ refused \subseteq refused' /\ refused' \subseteq Id
      /\ Waiting \subseteq Waiting'
      /\ s \in refused' \/ Command(c, s) \in Waiting'
      /\ NoNewWrite
  BY <1>2, Added
<1>4. Shape'
  BY <1>1, <1>3 DEF Shape, handler
<1>5. SingleWrite'
  BY <1>1, <1>3, SingleIfKept DEF handler
<1>6. SocketsAreOpen'
  BY OpenIfKept DEF handler
<1>7. ConnectingGoesOn'
  <2> SUFFICES ASSUME NEW j \in DOMAIN socketArray', socketArray'[j].state = "CONNECTING",
                      socketArray'[j].id \notin lost' \cup refused'
               PROVE  \E d \in InFlight' : d.id = socketArray'[j].id /\ d.cmd \in ChainCommand
    BY Zenon DEF ConnectingGoesOn, ChainCommand
  <2>1. (\A d \in InFlight : d # pending => d \in InFlight') /\ Waiting' \subseteq InFlight'
    BY <1>1, <1>3, FlightEnded
  <2>2. socketArray' = socketArray /\ j \in DOMAIN socketArray
    BY DEF handler
  <2>3. CASE socketArray[j].id = pending.id
    <3>1. s = socketArray[j].id
      BY <2>2, <2>3 DEF Has
    <3>2. Command(c, s) \in InFlight'
      BY <1>3, <2>1, <2>2, <3>1
    <3>3. Command(c, s).id = s /\ Command(c, s).cmd = c
      BY DEF Command
    <3> QED BY <2>2, <3>1, <3>2, <3>3
  <2>4. CASE socketArray[j].id # pending.id
    <3>1. PICK d \in InFlight : d.id = socketArray[j].id /\ d.cmd \in ChainCommand
      BY <1>3, <2>2 DEF ConnectingGoesOn, ChainCommand
    <3> QED BY <2>1, <2>2, <2>4, <3>1
  <2> QED BY <2>3, <2>4
<1> QED BY <1>4, <1>5, <1>6, <1>7

LEMMA KeepAliveFinalInv ==
  ASSUME IInv, KeepAliveFinal
  PROVE  IInv'
<1>1. PICK s \in Id : (Has(pending.id) => s = pending.id) /\ AddCommand("USOSO keepidle", s)
  BY DEF KeepAliveFinal
<1>2. /\ Final(TRUE) /\ pending.cmd \in ChainCommand /\ "USOSO keepidle" \in ChainCommand
      /\ UNCHANGED <<handler, modem, lost, orphan>>
  BY DEF KeepAliveFinal, ChainCommand
<1> QED BY <1>1, <1>2, NextOfChain, TRUE \in BOOLEAN

LEMMA ChainFinalInv ==
  ASSUME IInv, NEW ok \in BOOLEAN, ChainFinal(ok)
  PROVE  IInv'
<1> USE DEF IInv
<1> DEFINE c == IF pending.cmd # "USOSEC" /\ PeekSocket(pending.id).ssl THEN "USOSEC" ELSE "USOCO"
           s == pending.id
<1>1. /\ pending.cmd \in ChainCommand /\ Final(ok)
      /\ IF Has(s) THEN AddCommand(c, s) ELSE UNCHANGED <<stack, refused>>
      /\ UNCHANGED <<handler, modem, lost, orphan>>
  BY DEF ChainFinal, ChainCommand
<1>2. c \in ChainCommand /\ s \in Id
  BY OnTheLine DEF ChainCommand
<1> HIDE DEF c
<1>3. CASE Has(s)
  BY <1>1, <1>2, <1>3, NextOfChain
<1>4. CASE ~Has(s)
  <2>1. UNCHANGED <<stack, refused>>
    BY <1>1, <1>4
  <2>2. /\ pending' = NoCommand /\ pending'.cmd # "USOWR"
        /\ created' = FALSE /\ booted' = booted /\ booted
    BY <1>1, Finished
  <2>3. Shape'
    BY <1>1, <2>1, <2>2 DEF Shape, handler
  <2>4. SingleWrite'
    BY <1>1, <2>1, <2>2, StackKept, SingleIfKept DEF handler
  <2>5. SocketsAreOpen'
    BY <1>1, OpenIfKept DEF handler
  <2>6. ConnectingGoesOn'
    <3> SUFFICES ASSUME NEW j \in DOMAIN socketArray', socketArray'[j].state = "CONNECTING",
                        socketArray'[j].id \notin lost' \cup refused'
                 PROVE  \E d \in InFlight' : d.id = socketArray'[j].id /\ d.cmd \in ChainCommand
      BY Zenon DEF ConnectingGoesOn, ChainCommand
    <3>1. socketArray' = socketArray /\ j \in DOMAIN socketArray /\ socketArray[j].id # s
      BY <1>1, <1>4 DEF handler, Has
    <3>2. \A d \in InFlight : d # pending => d \in InFlight'
      BY <2>1, <2>2, StackKept, FlightEnded
    <3>3. PICK d \in InFlight : d.id = socketArray[j].id /\ d.cmd \in ChainCommand
      BY <1>1, <2>1, <3>1 DEF ConnectingGoesOn, ChainCommand
    <3> QED BY <3>1, <3>2, <3>3
  <2> QED BY <2>3, <2>4, <2>5, <2>6
<1> QED BY <1>3, <1>4

LEMMA WriteFinalInv ==
  ASSUME IInv, NEW ok \in BOOLEAN, WriteFinal(ok)
  PROVE  IInv'
<1> USE DEF IInv
<1>1. /\ pending.cmd = "USOWR" /\ Final(ok)
      /\ IF ok THEN SendNextAvailableData ELSE UNCHANGED <<handler, stack, orphan>>
      /\ UNCHANGED <<modem, lost, refused>>
  BY DEF WriteFinal
<1>2. /\ pending' = NoCommand /\ pending'.cmd # "USOWR"
      /\ created' = FALSE /\ booted' = booted /\ booted
  BY <1>1, Finished
<1>3. \A k \in DOMAIN stack : stack[k].cmd # "USOWR"
  BY <1>1 DEF SingleWrite
<1>4. /\ socketArray' \in Seq(GoodSocket) /\ Len(socketArray') = Len(socketArray)
      /\ SameSockets(socketArray, socketArray')
      /\ pendingSockTransmission' \in Id \cup {NONE}
      /\ stack' \in Seq(GoodCommand) /\ Len(stack') <= OUT_MESSAGE_STACK_SIZE
      /\ Waiting \subseteq Waiting'
      /\ \A j, k \in DOMAIN stack' : stack'[j].cmd = "USOWR" /\ stack'[k].cmd = "USOWR" => j = k
      /\ pendingSockTransmission' = NONE => \A k \in DOMAIN stack' : stack'[k].cmd # "USOWR"
      /\ orphan' \in BOOLEAN
  <2>1. CASE ok
    BY <1>1, <1>3, <2>1, NextSent
  <2>2. CASE ~ok
    <3>1. UNCHANGED <<handler, stack, orphan>>
      BY <1>1, <2>2
    <3> QED BY <1>3, <3>1, StackKept DEF Shape, handler, SameSockets
  <2> QED BY <2>1, <2>2
<1>5. Shape'
  BY <1>1, <1>2, <1>4 DEF Shape
<1>6. SingleWrite'
  BY <1>2, <1>4 DEF SingleWrite
<1>7. SocketsAreOpen'
  BY <1>1, <1>4, OpenIfKept DEF SameSockets
<1>8. ConnectingGoesOn'
  <2>1. \A c \in InFlight : c # pending => c \in InFlight'
    BY <1>2, <1>4, FlightEnded
  <2>2. \A c \in InFlight : c.cmd \in ChainCommand => c \in InFlight'
    BY <1>1, <2>1 DEF ChainCommand
  <2> QED BY <1>1, <1>4, <2>2, GoesOnIfKept DEF SameSockets
<1> QED BY <1>5, <1>6, <1>7, <1>8

LEMMA CloseFinalInv ==
  ASSUME IInv, NEW ok \in BOOLEAN, CloseFinal(ok)
  PROVE  IInv'
<1> USE DEF IInv
<1> DEFINE s == pending.id
<1>1. /\ pending.cmd = "USOCL" /\ Final(ok) /\ Destroy(s, {})
      /\ modem' \in {modem \ {s}, modem}
      /\ UNCHANGED <<pendingSockTransmission, stack>>
  BY DEF CloseFinal, DestroySocket
<1>2. /\ pending' = NoCommand /\ pending'.cmd # "USOWR" /\ s \in Id
      /\ created' = FALSE /\ booted' = booted /\ booted
  BY <1>1, Finished
<1>3. \A c \in InFlight : c.cmd \in ChainCommand => c \in InFlight'
  <2>1. \A c \in InFlight : c # pending => c \in InFlight'
    BY <1>1, <1>2, StackKept, FlightEnded
  <2> QED BY <1>1, <2>1 DEF ChainCommand
<1> HIDE DEF s
<1>4. Shape'
  <2>1. /\ socketArray' \in Seq(GoodSocket) /\ Len(socketArray') <= MAX_SOCKET_AMOUNT
        /\ lost' \subseteq Id /\ refused' \subseteq Id /\ orphan' \in BOOLEAN
    BY <1>1, <1>2, Destroyed, {} \in SUBSET Id
  <2> QED BY <1>1, <1>2, <2>1 DEF Shape
<1>5. SingleWrite'
  BY <1>1, <1>2, StackKept, SingleIfKept
<1>6. SocketsAreOpen'
  BY <1>1, <1>2, OpenAfterDestroy, {} \in SUBSET Id
<1>7. ConnectingGoesOn'
  BY <1>1, <1>2, <1>3, GoesOnAfterDestroy, {} \in SUBSET Id
<1> QED BY <1>4, <1>5, <1>6, <1>7

-----------------------------------------------------------------------------
(* The events and the reboot                                               *)

\* A line that is taken for an answer loses the close event it was.
LEMMA DataLineInv ==
  ASSUME IInv, NEW missed \in SUBSET Id, DataLine(missed),
         modem' \subseteq modem, \A t \in modem \ modem' : t \in missed \/ ~Has(t),
         UNCHANGED <<pendingSockTransmission, service, created>>
  PROVE  IInv'
<1> USE DEF IInv
<1>1. booted /\ pending # NoCommand /\ pending.id \in Id
  BY OnTheLine DEF DataLine
<1>2. InFlight \subseteq InFlight'
  BY StackKept, FlightKept DEF service
<1>3. SingleWrite'
  BY StackKept, SingleIfKept DEF service
<1>4. CASE pending.cmd = "USOCO"
  <2> DEFINE s == pending.id
  <2>1. s \in Id /\ Destroy(s, missed)
    BY <1>1, <1>4 DEF DataLine
  <2> HIDE DEF s
  <2>2. Shape'
    <3>1. /\ socketArray' \in Seq(GoodSocket) /\ Len(socketArray') <= MAX_SOCKET_AMOUNT
          /\ lost' \subseteq Id /\ refused' \subseteq Id /\ orphan' \in BOOLEAN
      BY <2>1, Destroyed
    <3> QED BY <1>1, <3>1 DEF Shape, service
  <2>3. SocketsAreOpen'
    BY <2>1, OpenAfterDestroy
  <2>4. ConnectingGoesOn'
    BY <1>2, <2>1, GoesOnAfterDestroy
  <2> QED BY <1>3, <2>2, <2>3, <2>4
<1>5. CASE pending.cmd # "USOCO"
  <2>1. lost' = lost \cup missed /\ UNCHANGED <<socketArray, refused, orphan>>
    BY <1>5 DEF DataLine
  <2>2. Shape'
    <3>1. lost' \subseteq Id /\ modem' \subseteq Id
      BY <2>1 DEF Shape
    <3> QED BY <1>1, <2>1, <3>1 DEF Shape, service
  <2>3. SocketsAreOpen'
    BY <2>1, OpenIfKept
  <2>4. ConnectingGoesOn'
    BY <1>2, <2>1, GoesOnIfKept
  <2> QED BY <1>3, <2>2, <2>3, <2>4
<1> QED BY <1>4, <1>5

LEMMA CloseEventInv ==
  ASSUME IInv, NEW s \in Id, CloseEvent(s)
  PROVE  IInv'
<1> USE DEF IInv
<1>1. modem' = modem \ {s} /\ UNCHANGED <<pendingSockTransmission, service, created>>
  BY DEF CloseEvent
<1>2. CASE Idle /\ DestroySocket(s)
  <2>1. booted /\ Destroy(s, {})
    BY <1>2 DEF Idle, DestroySocket
  <2>2. Shape'
    <3>1. /\ socketArray' \in Seq(GoodSocket) /\ Len(socketArray') <= MAX_SOCKET_AMOUNT
          /\ lost' \subseteq Id /\ refused' \subseteq Id /\ orphan' \in BOOLEAN
      BY <2>1, Destroyed, {} \in SUBSET Id
    <3>2. modem' \subseteq Id
      BY <1>1 DEF Shape
    <3> QED BY <1>1, <2>1, <3>1, <3>2 DEF Shape, service
  <2>3. SingleWrite'
    BY <1>1, StackKept, SingleIfKept DEF service
  <2>4. SocketsAreOpen'
    BY <1>1, <2>1, OpenAfterDestroy, {} \in SUBSET Id
  <2>5. ConnectingGoesOn'
    <3>1. InFlight \subseteq InFlight'
      BY <1>1, StackKept, FlightKept DEF service
    <3> QED BY <2>1, <3>1, GoesOnAfterDestroy, {} \in SUBSET Id
  <2> QED BY <2>2, <2>3, <2>4, <2>5
<1>3. CASE ~booted /\ UNCHANGED <<socketArray, history>>
  <2>1. socketArray = <<>> /\ DOMAIN socketArray = {} /\ DOMAIN socketArray' = {}
    BY <1>3 DEF Shape
  <2>2. Shape'
    <3>1. modem' \subseteq Id
      BY <1>1 DEF Shape
    <3> QED BY <1>1, <1>3, <3>1 DEF Shape, service, history
  <2>3. SingleWrite'
    BY <1>1, StackKept, SingleIfKept DEF service
  <2> QED BY <2>1, <2>2, <2>3 DEF SocketsAreOpen, ConnectingGoesOn
<1>4. CASE DataLine(IF Has(s) THEN {s} ELSE {})
  <2> DEFINE missed == IF Has(s) THEN {s} ELSE {}
  <2>1. /\ missed \in SUBSET Id /\ DataLine(missed)
        /\ \A t \in modem \ modem' : t \in missed \/ ~Has(t)
    BY <1>1, <1>4
  <2> HIDE DEF missed
  <2> QED BY <1>1, <2>1, DataLineInv
<1> QED BY <1>2, <1>3, <1>4 DEF CloseEvent

LEMMA OtherLineInv ==
  ASSUME IInv, OtherLine
  PROVE  IInv'
<1>1. DataLine({}) /\ UNCHANGED <<pendingSockTransmission, service, modem, created>>
  BY DEF OtherLine
<1> QED BY <1>1, DataLineInv, {} \in SUBSET Id

LEMMA ConnectEventInv ==
  ASSUME IInv, NEW s \in Id, NEW ok \in BOOLEAN, ConnectEvent(s, ok)
  PROVE  IInv'
<1> USE DEF IInv
<1>1. /\ booted /\ Confirm(s, ok)
      /\ UNCHANGED <<pendingSockTransmission, service, modem, created, lost, orphan>>
  BY DEF ConnectEvent, Idle
<1>2. InFlight \subseteq InFlight'
  BY <1>1, StackKept, FlightKept DEF service
<1>3. /\ socketArray' \in Seq(GoodSocket) /\ Len(socketArray') = Len(socketArray)
      /\ DOMAIN socketArray' = DOMAIN socketArray
      /\ \A j \in DOMAIN socketArray : socketArray'[j].id = socketArray[j].id
      /\ refused' \subseteq Id
      /\ ConnectingGoesOn'
  BY <1>1, <1>2, Confirmed
<1>4. Shape'
  BY <1>1, <1>3 DEF Shape, service
<1>5. SingleWrite'
  BY <1>1, StackKept, SingleIfKept DEF service
<1>6. SocketsAreOpen'
  BY <1>1, <1>3, OpenIfKept
<1> QED BY <1>3, <1>4, <1>5, <1>6

LEMMA ReadEventInv ==
  ASSUME IInv, NEW s \in Id, ReadEvent(s)
  PROVE  IInv'
<1> USE DEF IInv
<1> DEFINE c == Command("USORD", s)
<1>1. /\ booted /\ pending = NoCommand /\ stack' = <<c>> \o stack
      /\ Len(stack) < OUT_MESSAGE_STACK_SIZE
      /\ UNCHANGED <<handler, pending, booted, modem, created, history>>
  BY DEF ReadEvent, Idle
<1>2. c \in GoodCommand /\ c.cmd # "USOWR"
  <2>1. <<>> \in Seq(Unit)
    OBVIOUS
  <2> QED BY <2>1 DEF Command, GoodCommand, SentCommand, CommandName
<1> HIDE DEF c
<1>3. stack \in Seq(GoodCommand) /\ Len(stack) \in Nat /\ DOMAIN stack = 1 .. Len(stack)
  BY Elements DEF Shape
<1>4. /\ stack' \in Seq(GoodCommand) /\ Len(stack') = Len(stack) + 1
      /\ stack'[1] = c
      /\ \A k \in 1 .. Len(stack) : stack'[k + 1] = stack[k]
  <2>1. <<c>> \in Seq(GoodCommand) /\ Len(<<c>>) = 1 /\ <<c>>[1] = c
    BY <1>2
  <2>2. /\ <<c>> \o stack \in Seq(GoodCommand)
        /\ Len(<<c>> \o stack) = 1 + Len(stack)
        /\ \A k \in 1 .. 1 + Len(stack) : (<<c>> \o stack)[k] = IF k <= 1 THEN <<c>>[k] ELSE stack[k - 1]
    BY <1>3, <2>1, ConcatProperties
  <2>3. stack'[1] = c
    BY <1>1, <1>3, <2>1, <2>2
  <2>4. ASSUME NEW k \in 1 .. Len(stack) PROVE stack'[k + 1] = stack[k]
    <3>1. k + 1 \in 1 .. 1 + Len(stack) /\ ~(k + 1 <= 1) /\ (k + 1) - 1 = k
      BY <1>3
    <3> QED BY <1>1, <2>2, <3>1
  <2> QED BY <1>1, <1>3, <2>2, <2>3, <2>4
<1>5. DOMAIN stack' = 1 .. Len(stack) + 1
  BY <1>4, LenProperties
<1>6. ASSUME NEW k \in DOMAIN stack', k # 1
      PROVE  k - 1 \in DOMAIN stack /\ stack'[k] = stack[k - 1]
  <2>1. k - 1 \in 1 .. Len(stack) /\ (k - 1) + 1 = k
    BY <1>3, <1>5, <1>6
  <2> QED BY <1>3, <1>4, <2>1
<1>7. Waiting \subseteq Waiting'
  <2> SUFFICES ASSUME NEW k \in DOMAIN stack PROVE stack[k] \in Waiting'
    BY DEF Waiting
  <2>1. k + 1 \in DOMAIN stack' /\ stack'[k + 1] = stack[k]
    BY <1>3, <1>4, <1>5
  <2> QED BY <2>1 DEF Waiting
<1>8. Shape'
  <2>1. Len(stack') <= OUT_MESSAGE_STACK_SIZE
    BY <1>1, <1>3, <1>4, SocketsAssumption
  <2> QED BY <1>1, <1>4, <2>1 DEF Shape, handler, history
<1>9. SingleWrite'
  <2>1. ASSUME NEW k \in DOMAIN stack', stack'[k].cmd = "USOWR"
        PROVE  k - 1 \in DOMAIN stack /\ stack[k - 1].cmd = "USOWR"
    BY <1>2, <1>4, <1>6, <2>1
  <2>2. ASSUME NEW j \in DOMAIN stack', NEW k \in DOMAIN stack',
               stack'[j].cmd = "USOWR", stack'[k].cmd = "USOWR"
        PROVE  j = k
    <3>1. j - 1 = k - 1
      BY <2>1, <2>2 DEF SingleWrite
    <3> QED BY <1>3, <1>5, <3>1
  <2> QED BY <1>1, <2>1, <2>2 DEF SingleWrite, handler
<1>10. SocketsAreOpen'
  BY <1>1, OpenIfKept DEF handler, history
<1>11. ConnectingGoesOn'
  <2>1. InFlight \subseteq InFlight'
    BY <1>1, <1>7, FlightKept
  <2> QED BY <1>1, <2>1, GoesOnIfKept DEF handler, history
<1> QED BY <1>8, <1>9, <1>10, <1>11

LEMMA StartModemInv ==
  ASSUME IInv, StartModem
  PROVE  IInv'
<1>1. /\ socketArray' = <<>> /\ stack' = <<>> /\ pending' = NoCommand /\ booted' = FALSE
      /\ modem' \in {modem, {}} /\ created' = FALSE
      /\ lost' = {} /\ refused' = {} /\ orphan' = FALSE
  BY DEF StartModem
<1>2. pendingSockTransmission' \in Id \cup {NONE}
  BY Elements DEF StartModem, IInv, GoodSocket, Socket
<1>3. /\ <<>> \in Seq(GoodSocket) /\ <<>> \in Seq(GoodCommand)
      /\ Len(<<>>) = 0 /\ DOMAIN <<>> = {}
  BY EmptySeq
<1>4. NoCommand.cmd # "USOWR"
  BY DEF NoCommand, Command
<1>5. Shape'
  <2>1. 0 <= MAX_SOCKET_AMOUNT /\ 0 <= OUT_MESSAGE_STACK_SIZE
    BY SocketsAssumption
  <2>2. modem' \subseteq Id
    BY <1>1 DEF IInv, Shape
  <2> QED BY <1>1, <1>2, <1>3, <2>1, <2>2 DEF Shape
<1>6. SingleWrite' /\ SocketsAreOpen' /\ ConnectingGoesOn'
  BY <1>1, <1>3, <1>4 DEF SingleWrite, SocketsAreOpen, ConnectingGoesOn
<1> QED BY <1>5, <1>6 DEF IInv

LEMMA BootCompletesInv ==
  ASSUME IInv, BootCompletes
  PROVE  IInv'
<1> USE DEF IInv
<1>1. booted' = TRUE /\ UNCHANGED <<handler, stack, pending, modem, created, history>>
  BY DEF BootCompletes
<1>2. Shape'
  BY <1>1 DEF Shape, handler, history
<1>3. SingleWrite'
  BY <1>1, StackKept, SingleIfKept DEF handler
<1>4. SocketsAreOpen'
  BY <1>1, OpenIfKept DEF handler, history
<1>5. ConnectingGoesOn'
  <2>1. InFlight \subseteq InFlight'
    BY <1>1, StackKept, FlightKept
  <2> QED BY <1>1, <2>1, GoesOnIfKept DEF handler, history
<1> QED BY <1>2, <1>3, <1>4, <1>5

LEMMA InitInv ==
  ASSUME Init
  PROVE  IInv
<1>1. /\ <<>> \in Seq(GoodSocket) /\ <<>> \in Seq(GoodCommand)
      /\ Len(<<>>) = 0 /\ DOMAIN <<>> = {}
  BY EmptySeq
<1>2. NoCommand.cmd # "USOWR"
  BY DEF NoCommand, Command
<1>3. 0 <= MAX_SOCKET_AMOUNT /\ 0 <= OUT_MESSAGE_STACK_SIZE
  BY SocketsAssumption
<1>4. Shape
  BY <1>1, <1>3 DEF Init, Shape
<1>5. SingleWrite /\ SocketsAreOpen /\ ConnectingGoesOn
  BY <1>1, <1>2 DEF Init, SingleWrite, SocketsAreOpen, ConnectingGoesOn
<1> QED BY <1>4, <1>5 DEF IInv

LEMMA NextInv ==
  ASSUME IInv, [Next]_vars
  PROVE  IInv'
<1>1. CASE Users
  BY <1>1, CreateSocketInv, ConnectInv, CloseInv, SendDataInv DEF Users
<1>2. CASE LoopSend
  BY <1>2, LoopSendInv
<1>3. CASE Modem
  <2>1. CASE Finals
    BY <2>1, KeepAliveFinalInv, SilentFinalInv, ConnectFinalInv, ChainFinalInv, WriteFinalInv,
       CloseFinalInv DEF Finals
  <2>2. CASE \E s \in Id : \/ CreateAnswer(s) \/ CloseEvent(s) \/ ReadEvent(s)
                           \/ \E ok \in BOOLEAN : ConnectEvent(s, ok)
    BY <2>2, CreateAnswerInv, CloseEventInv, ReadEventInv, ConnectEventInv
  <2>3. CASE OtherLine
    BY <2>3, OtherLineInv
  <2> QED BY <1>3, <2>1, <2>2, <2>3 DEF Modem
<1>4. CASE \E s \in Id : TimerOf(s)
  BY <1>4, CloseTimerInv DEF TimerOf
<1>5. CASE StartModem
  BY <1>5, StartModemInv
<1>6. CASE BootCompletes
  BY <1>6, BootCompletesInv
<1>7. CASE UNCHANGED vars
  <2>1. UNCHANGED <<socketArray, pendingSockTransmission, stack, pending, booted, modem, created,
                    lost, refused, orphan>>
    BY <1>7 DEF vars, handler, service, history
  <2>2. Shape'
    BY <2>1 DEF IInv, Shape
  <2>3. SingleWrite' /\ SocketsAreOpen' /\ ConnectingGoesOn'
    BY <2>1 DEF IInv, SingleWrite, SocketsAreOpen, ConnectingGoesOn, InFlight, Waiting
  <2> QED BY <2>2, <2>3 DEF IInv
<1> QED BY <1>1, <1>2, <1>3, <1>4, <1>5, <1>6, <1>7 DEF Next

LEMMA InvHolds == Spec => []IInv
<1>1. Init => IInv
  BY InitInv
<1>2. IInv /\ [Next]_vars => IInv'
  BY NextInv
<1> QED BY <1>1, <1>2, PTL DEF Spec

\* Shape is the types and more.
LEMMA ShapeIsTyped ==
  ASSUME Shape
  PROVE  TypeOK
<1>1. socketArray \in Seq(Socket)
  <2>1. GoodSocket \subseteq Socket
    BY DEF GoodSocket
  <2> QED BY <2>1, SeqMonotonic DEF Shape
<1>2. stack \in Seq(SentCommand)
  <2>1. GoodCommand \subseteq SentCommand
    BY DEF GoodCommand
  <2> QED BY <2>1, SeqMonotonic DEF Shape
<1>3. \A i \in DOMAIN socketArray : Len(socketArray[i].out) <= MaxPackets
  BY Elements DEF GoodSocket, PacketsFit
<1>4. pending \in [cmd : CommandName \cup {"none"}, id : Id, data : Seq(Unit)]
  <2>1. CASE pending \in GoodCommand
    BY <2>1 DEF GoodCommand, SentCommand
  <2>2. CASE pending = NoCommand
    <3>1. <<>> \in Seq(Unit) /\ 0 \in Id
      BY SocketsAssumption DEF Id
    <3> QED BY <2>2, <3>1 DEF NoCommand, Command
  <2> QED BY <2>1, <2>2 DEF Shape
<1> QED BY <1>1, <1>2, <1>3, <1>4 DEF Shape, TypeOK, Socket, SentCommand, State

-----------------------------------------------------------------------------
(* Units, in order                                                         *)

\* A remainder is what is left after whole multiples.
LEMMA ModIs ==
  ASSUME NEW m \in Nat \ {0}, NEW a \in Int
  PROVE  a % m \in 0 .. m - 1 /\ a % m = a - (a \div m) * m /\ a \div m \in Int
<1>1. a % m \in 0 .. m - 1
  OBVIOUS
<1>2. a % m = a - (a \div m) * m
  OBVIOUS
<1>3. a \div m \in Int
  OBVIOUS
<1> QED BY <1>1, <1>2, <1>3

LEMMA ModOnly ==
  ASSUME NEW m \in Nat \ {0}, NEW r \in 0 .. m - 1, NEW q \in Int
  PROVE  (q * m + r) % m = r
OBVIOUS

\* A remainder may be taken early.
LEMMA ModEarly ==
  ASSUME NEW m \in Nat \ {0}, NEW a \in Int, NEW b \in Int
  PROVE  ((a % m) + b) % m = (a + b) % m
<1> DEFINE c == (a % m) + b
           r == c % m
           d == a \div m
           e == c \div m
           q == d + e
<1>1. a % m \in 0 .. m - 1 /\ a % m = a - d * m /\ d \in Int
  BY ModIs
<1>2. c \in Int
  BY <1>1
<1>3. r \in 0 .. m - 1 /\ r = c - e * m /\ e \in Int
  BY <1>2, ModIs
<1>4. q * m = d * m + e * m
  <2> HIDE DEF d, e
  <2> QED BY <1>1, <1>3
<1>5. a + b = q * m + r
  <2> DEFINE x == d * m
             y == e * m
             z == q * m
             t == a % m
  <2>1. t = a - x /\ r = t + b - y /\ z = x + y
    BY <1>1, <1>3, <1>4
  <2>2. x \in Int /\ y \in Int /\ t \in Int /\ r \in Int
    <3> HIDE DEF d, e
    <3> QED BY <1>1, <1>3
  <2> HIDE DEF x, y, z, t, r
  <2>3. a + b = z + r
    BY <2>1, <2>2
  <2> QED BY <2>3 DEF z
<1> HIDE DEF r
<1>6. (q * m + r) % m = r
  <2>1. q \in Int
    BY <1>1, <1>3
  <2> HIDE DEF q
  <2> QED BY <1>3, <2>1, ModOnly
<1>7. (a + b) % m = r
  BY <1>5, <1>6
<1> QED BY <1>7 DEF r

\* How far a sum below m has gone, from its remainder.
LEMMA ModFar ==
  ASSUME NEW m \in Nat \ {0}, NEW w \in Int, NEW n \in 0 .. m - 1
  PROVE  (((w + n) % m) - w) % m = n
<1>1. w + n \in Int /\ -w \in Int
  OBVIOUS
<1>2. (((w + n) % m) + (-w)) % m = ((w + n) + (-w)) % m
  BY <1>1, ModEarly
<1>3. (w + n) % m \in Int
  BY <1>1, ModIs
<1>4. (w + n) + (-w) = n
  OBVIOUS
<1>5. n % m = n
  OBVIOUS
<1> DEFINE x == (w + n) % m
<1>6. x + (-w) = x - w
  <2> HIDE DEF x
  <2> QED BY <1>3 DEF x
<1> QED BY <1>2, <1>4, <1>5, <1>6

-----------------------------------------------------------------------------
\* How many units full packets before packet p hold.
Off(p) == (p - 1) * PacketSize

LEMMA Offsets ==
  /\ Off(1) = 0
  /\ \A p \in Nat \ {0} : Off(p) \in Nat /\ Off(p + 1) = Off(p) + PacketSize
  /\ \A p \in 1 .. MaxPackets : Off(p) + PacketSize <= MaxPackets * PacketSize
<1>1. PacketSize \in Nat \ {0} /\ MaxPackets \in Nat \ {0}
  BY SocketsAssumption
<1>2. \A p \in Nat \ {0} : Off(p) \in Nat /\ Off(p + 1) = Off(p) + PacketSize
  <2> SUFFICES ASSUME NEW p \in Nat \ {0}
               PROVE  Off(p) \in Nat /\ Off(p + 1) = Off(p) + PacketSize
    OBVIOUS
  <2>1. (p + 1) - 1 = p /\ p * PacketSize = (p - 1) * PacketSize + PacketSize
    BY <1>1
  <2>2. (p - 1) * PacketSize \in Nat
    BY <1>1
  <2> QED BY <2>1, <2>2 DEF Off
<1>3. ASSUME NEW p \in 1 .. MaxPackets
      PROVE  Off(p) + PacketSize <= MaxPackets * PacketSize
  <2> DEFINE d == MaxPackets - p
  <2>1. d \in Nat /\ p \in Nat
    BY <1>1
  <2>2. MaxPackets * PacketSize = p * PacketSize + d * PacketSize
    BY <1>1, <2>1
  <2>3. p * PacketSize = (p - 1) * PacketSize + PacketSize
    BY <1>1, <2>1
  <2>4. d * PacketSize \in Nat /\ (p - 1) * PacketSize \in Int /\ p * PacketSize \in Int
    <3> HIDE DEF d
    <3> QED BY <1>1, <2>1
  <2> DEFINE x == (p - 1) * PacketSize
             y == d * PacketSize
             z == p * PacketSize
             v == MaxPackets * PacketSize
  <2>5. v = z + y /\ z = x + PacketSize /\ y \in Nat /\ x \in Int
    BY <2>2, <2>3, <2>4
  <2> HIDE DEF x, y, z, v
  <2>6. x + PacketSize <= v
    BY <1>1, <2>5
  <2> QED BY <2>6 DEF x, v, Off
<1> QED BY <1>1, <1>2, <1>3 DEF Off

\* FlattenSeq is the one function that satisfies its recursion.
LEMMA FlattenIs ==
  ASSUME NEW out, Len(out) \in Nat \ {0}, NEW g,
         g = [i \in 1 .. Len(out) |-> IF i = 1 THEN out[i] ELSE g[i - 1] \o out[i]]
  PROVE  FlattenSeq(out) = g[Len(out)]
<1> DEFINE n == Len(out)
<1> DEFINE f == CHOOSE h : h = [i \in 1 .. n |-> IF i = 1 THEN out[i] ELSE h[i - 1] \o out[i]]
<1>1. FlattenSeq(out) = f[n]
  <2>1. Len(out) # 0
    OBVIOUS
  <2> QED BY <2>1, Zenon DEF FlattenSeq
<1>2. f = [i \in 1 .. n |-> IF i = 1 THEN out[i] ELSE f[i - 1] \o out[i]]
  BY Zenon
<1> HIDE DEF f
<1> DEFINE T == {i \in 1 .. n : f[i] # g[i]}
<1>3. T = {}
  <2> SUFFICES ASSUME T # {} PROVE FALSE
    OBVIOUS
  <2>1. PICK x \in T : \A y \in T : x <= y
    <3>1. T \in SUBSET Nat
      OBVIOUS
    <3> HIDE DEF T
    <3> QED BY <3>1, SmallestOf
  <2>2. x \in 1 .. n /\ f[x] # g[x]
    BY <2>1
  <2>3. CASE x = 1
    <3>1. f[x] = out[x]
      BY <1>2, <2>2, <2>3, Zenon
    <3>2. g[x] = out[x]
      BY <2>2, <2>3, Zenon
    <3> QED BY <2>2, <3>1, <3>2
  <2>4. CASE x # 1
    <3>1. x - 1 \in 1 .. n /\ x - 1 < x
      BY <2>2, <2>4
    <3>2. f[x - 1] = g[x - 1]
      BY <2>1, <3>1
    <3>3. f[x] = f[x - 1] \o out[x]
      BY <1>2, <2>2, <2>4, Zenon
    <3>4. g[x] = g[x - 1] \o out[x]
      BY <2>2, <2>4, Zenon
    <3> QED BY <2>2, <3>2, <3>3, <3>4
  <2> QED BY <2>3, <2>4
<1>4. n \in 1 .. n
  OBVIOUS
<1> QED BY <1>1, <1>3, <1>4

-----------------------------------------------------------------------------
\* n units from the one after w on.
Run(w, n) == [k \in 1 .. n |-> (w + k) % UnitMod]

LEMMA RunIs ==
  ASSUME NEW w \in Int, NEW n \in Nat
  PROVE  /\ Run(w, n) \in Seq(Unit) /\ Len(Run(w, n)) = n
         /\ \A k \in 1 .. n : Run(w, n)[k] = (w + k) % UnitMod
<1>1. \A k \in 1 .. n : (w + k) % UnitMod \in Unit
  BY Units, ModIs DEF Unit
<1>2. Run(w, n) \in [1 .. n -> Unit]
  BY <1>1 DEF Run
<1>3. Run(w, n) \in Seq(Unit)
  BY <1>2
<1>4. Len(Run(w, n)) = n
  BY <1>2, <1>3, LenProperties
<1> QED BY <1>3, <1>4 DEF Run

LEMMA RunJoined ==
  ASSUME NEW w \in Int, NEW a \in Nat, NEW q \in Seq(Unit),
         \A k \in 1 .. Len(q) : q[k] = (w + a + k) % UnitMod
  PROVE  Run(w, a) \o q = Run(w, a + Len(q))
<1> DEFINE n == Len(q)
           x == Run(w, a)
           y == Run(w, a + n)
<1>1. n \in Nat
  BY LenProperties
<1>2. x \in Seq(Unit) /\ Len(x) = a /\ \A k \in 1 .. a : x[k] = (w + k) % UnitMod
  BY RunIs
<1>3. y \in Seq(Unit) /\ Len(y) = a + n /\ \A k \in 1 .. a + n : y[k] = (w + k) % UnitMod
  <2>1. a + n \in Nat
    BY <1>1
  <2> HIDE DEF n
  <2> QED BY <2>1, RunIs
<1> HIDE DEF x, y
<1>4. /\ x \o q \in Seq(Unit) /\ Len(x \o q) = a + n
      /\ \A k \in 1 .. a + n : (x \o q)[k] = IF k <= a THEN x[k] ELSE q[k - a]
  BY <1>2, ConcatProperties
<1>5. ASSUME NEW k \in 1 .. a + n PROVE (x \o q)[k] = y[k]
  <2>1. CASE k <= a
    BY <1>1, <1>2, <1>3, <1>4, <2>1
  <2>2. CASE ~(k <= a)
    <3>1. k - a \in 1 .. n /\ w + a + (k - a) = w + k
      BY <1>1, <2>2
    <3>2. (x \o q)[k] = q[k - a]
      BY <1>4, <2>2
    <3>3. q[k - a] = (w + k) % UnitMod
      BY <3>1
    <3> QED BY <1>3, <3>2, <3>3
  <2> QED BY <2>1, <2>2
<1>6. x \o q = y
  BY <1>3, <1>4, <1>5, SeqEqual
<1> QED BY <1>6 DEF x, y

\* How many units packets hold of which all but the last are full.
Total(out) == IF out = <<>> THEN 0 ELSE Off(Len(out)) + Len(out[Len(out)])

\* What waits of socket r, the packet q of its command first, are the units from the
\* one after the last that was handed over to the last that was accepted.
Numbered(r, q) ==
  /\ \A k \in 1 .. Len(q) : q[k] = (r.written + k) % UnitMod
  /\ \A p \in 1 .. Len(r.out) - 1 : Len(r.out[p]) = PacketSize
  /\ \A p \in 1 .. Len(r.out) : \A k \in 1 .. Len(r.out[p]) :
       r.out[p][k] = (r.written + Len(q) + Off(p) + k) % UnitMod
  /\ r.accepted = (r.written + Len(q) + Total(r.out)) % UnitMod

LEMMA OutIs ==
  ASSUME NEW r \in GoodSocket
  PROVE  /\ r.out \in Seq(Seq(Unit)) /\ Len(r.out) \in 0 .. MaxPackets
         /\ DOMAIN r.out = 1 .. Len(r.out)
         /\ \A p \in 1 .. Len(r.out) : r.out[p] \in Seq(Unit) /\ Len(r.out[p]) \in 1 .. PacketSize
         /\ r.out = <<>> <=> Len(r.out) = 0
         /\ r.written \in Int /\ r.accepted \in Int /\ r.written \in Unit /\ r.accepted \in Unit
<1>1. PacketsFit(r.out) /\ r.out \in Seq(Seq(Unit)) /\ r.written \in Unit /\ r.accepted \in Unit
  BY DEF GoodSocket, Socket
<1>2. DOMAIN r.out = 1 .. Len(r.out) /\ Len(r.out) \in Nat
  BY <1>1, LenProperties
<1>3. \A p \in 1 .. Len(r.out) : r.out[p] \in Seq(Unit)
  BY <1>1, ElementOfSeq
<1>4. r.out = <<>> <=> Len(r.out) = 0
  BY <1>1, EmptySeq
<1>5. \A u \in Unit : u \in Int
  BY Units DEF Unit
<1>6. Len(r.out) \in 0 .. MaxPackets
  BY <1>1, <1>2, SocketsAssumption DEF PacketsFit
<1> QED BY <1>1, <1>2, <1>3, <1>4, <1>5, <1>6 DEF PacketsFit

\* What is numbered is one run of units.
LEMMA NumberedIsRun ==
  ASSUME NEW r \in GoodSocket, NEW q \in Seq(Unit), Numbered(r, q)
  PROVE  Total(r.out) \in Nat /\ q \o FlattenSeq(r.out) = Run(r.written, Len(q) + Total(r.out))
<1> DEFINE out == r.out
           n == Len(out)
           v == r.written
           w == v + Len(q)
<1>1. /\ n \in Nat /\ v \in Int /\ Len(q) \in Nat /\ w \in Int
      /\ \A p \in 1 .. n : out[p] \in Seq(Unit) /\ Len(out[p]) \in Nat
      /\ out = <<>> <=> n = 0
  BY OutIs, LenProperties, SocketsAssumption
<1>2. q = Run(v, Len(q))
  <2>1. Run(v, 0) = <<>>
    <3>1. Run(v, 0) \in Seq(Unit) /\ Len(Run(v, 0)) = 0
      BY <1>1, RunIs
    <3> QED BY <3>1, EmptySeq
  <2>2. \A k \in 1 .. Len(q) : q[k] = (v + 0 + k) % UnitMod
    <3> SUFFICES ASSUME NEW k \in 1 .. Len(q) PROVE q[k] = (v + 0 + k) % UnitMod
      OBVIOUS
    <3>1. v + 0 + k = v + k
      BY <1>1
    <3> QED BY <3>1 DEF Numbered
  <2> HIDE DEF v
  <2>3. Run(v, 0) \o q = Run(v, 0 + Len(q))
    BY <1>1, <2>2, RunJoined
  <2>4. <<>> \o q = q
    BY ConcatEmptySeq
  <2>5. 0 + Len(q) = Len(q)
    BY <1>1
  <2> QED BY <2>1, <2>3, <2>4, <2>5
<1>3. CASE n = 0
  <2>1. out = <<>> /\ Total(out) = 0
    BY <1>1, <1>3 DEF Total
  <2>2. FlattenSeq(out) = <<>>
    BY <1>3, <2>1 DEF FlattenSeq
  <2>3. q \o <<>> = q /\ Len(q) + 0 = Len(q)
    BY <1>1, ConcatEmptySeq
  <2> QED BY <1>2, <2>1, <2>2, <2>3
<1>4. CASE n # 0
  <2> DEFINE g == [i \in 1 .. n |-> Run(w, Off(i) + Len(out[i]))]
  <2>1. Off(1) = 0 /\ \A p \in 1 .. n : Off(p) \in Nat
    <3>1. \A p \in 1 .. n : p \in Nat \ {0}
      BY <1>1
    <3> HIDE DEF n
    <3> QED BY <3>1, Offsets
  <2>2. \A p \in 1 .. n : \A k \in 1 .. Len(out[p]) : out[p][k] = (w + Off(p) + k) % UnitMod
    BY DEF Numbered
  <2>3. ASSUME NEW i \in 1 .. n
        PROVE  Run(w, Off(i)) \o out[i] = Run(w, Off(i) + Len(out[i]))
    <3> DEFINE a == Off(i)
               t == out[i]
    <3>1. a \in Nat /\ t \in Seq(Unit) /\ \A k \in 1 .. Len(t) : t[k] = (w + a + k) % UnitMod
      BY <1>1, <2>1, <2>2
    <3> HIDE DEF a, t, w
    <3>2. Run(w, a) \o t = Run(w, a + Len(t))
      BY <1>1, <3>1, RunJoined
    <3> QED BY <3>2 DEF a, t
  <2>4. ASSUME NEW i \in 1 .. n
        PROVE  g[i] = IF i = 1 THEN out[i] ELSE g[i - 1] \o out[i]
    <3>1. CASE i = 1
      <4>1. Run(w, 0) = <<>>
        <5> HIDE DEF w
        <5>1. Run(w, 0) \in Seq(Unit) /\ Len(Run(w, 0)) = 0
          BY <1>1, RunIs
        <5> QED BY <5>1, EmptySeq
      <4>2. <<>> \o out[i] = out[i]
        BY <1>1, ConcatEmptySeq
      <4>3. Run(w, Off(i) + Len(out[i])) = out[i]
        BY <2>1, <2>3, <3>1, <4>1, <4>2
      <4> QED BY <3>1, <4>3
    <3>2. CASE i # 1
      <4>1. i - 1 \in 1 .. n /\ i - 1 \in 1 .. n - 1 /\ i - 1 \in Nat \ {0} /\ (i - 1) + 1 = i
        BY <1>1, <3>2
      <4>2. Len(out[i - 1]) = PacketSize
        BY <4>1 DEF Numbered
      <4>3. Off(i) = Off(i - 1) + PacketSize
        BY <4>1, Offsets
      <4>4. g[i - 1] = Run(w, Off(i))
        BY <4>1, <4>2, <4>3
      <4> QED BY <2>3, <3>2, <4>4
    <3> QED BY <3>1, <3>2
  <2>5. g = [i \in 1 .. n |-> IF i = 1 THEN out[i] ELSE g[i - 1] \o out[i]]
    <3>1. g = [i \in 1 .. n |-> g[i]]
      OBVIOUS
    <3> HIDE DEF g
    <3> QED BY <2>4, <3>1
  <2>6. FlattenSeq(out) = g[n]
    <3>1. n \in Nat \ {0}
      BY <1>1, <1>4
    <3> HIDE DEF g
    <3> QED BY <2>5, <3>1, FlattenIs, Zenon
  <2>7. n \in 1 .. n
    BY <1>1, <1>4
  <2>8. Total(out) = Off(n) + Len(out[n]) /\ Total(out) \in Nat
    <3>1. out # <<>>
      BY <1>1, <1>4
    <3>2. Off(n) \in Nat /\ Len(out[n]) \in Nat
      BY <1>1, <2>1, <2>7
    <3> QED BY <3>1, <3>2 DEF Total
  <2>9. FlattenSeq(out) = Run(w, Total(out))
    BY <2>6, <2>7, <2>8
  <2> DEFINE t == Run(w, Total(out))
             m == Total(out)
  <2>10. t \in Seq(Unit) /\ Len(t) = m /\ \A k \in 1 .. m : t[k] = (w + k) % UnitMod
    <3>1. m \in Nat
      BY <2>8
    <3> HIDE DEF m, w
    <3> QED BY <1>1, <3>1, RunIs DEF m
  <2> HIDE DEF t, m
  <2>11. Run(v, Len(q)) \o t = Run(v, Len(q) + Len(t))
    <3> DEFINE a == Len(q)
    <3>1. a \in Nat /\ \A k \in 1 .. Len(t) : t[k] = (v + a + k) % UnitMod
      BY <1>1, <2>10
    <3> HIDE DEF a, v
    <3> QED BY <1>1, <2>10, <3>1, RunJoined
  <2>12. q \o FlattenSeq(out) = Run(v, Len(q) + m)
    BY <1>2, <2>9, <2>10, <2>11 DEF t
  <2> QED BY <2>8, <2>12 DEF m
<1> QED BY <1>3, <1>4

-----------------------------------------------------------------------------
\* A packet goes to the stack: what waits is the same.
LEMMA NumberedTaken ==
  ASSUME NEW r \in GoodSocket, r.out # <<>>, Numbered(r, <<>>),
         NEW t, t.out = Tail(r.out), t.written = r.written, t.accepted = r.accepted
  PROVE  Numbered(t, Head(r.out))
<1> DEFINE out == r.out
           n == Len(out)
           w == r.written
           h == Head(out)
           rest == Tail(out)
<1>1. /\ n \in Nat /\ n # 0 /\ w \in Int
      /\ \A p \in 1 .. n : out[p] \in Seq(Unit) /\ Len(out[p]) \in Nat
  BY OutIs, SocketsAssumption
<1>2. h = out[1] /\ Len(rest) = n - 1 /\ rest \in Seq(Seq(Unit)) /\ \A p \in 1 .. n - 1 : rest[p] = out[p + 1]
  <2>1. out \in Seq(Seq(Unit)) /\ out # <<>>
    BY OutIs
  <2> HIDE DEF out
  <2> QED BY <1>1, <2>1, HeadTailProperties
<1>3. /\ \A p \in 1 .. n - 1 : Len(out[p]) = PacketSize
      /\ \A p \in 1 .. n : \A k \in 1 .. Len(out[p]) : out[p][k] = (w + 0 + Off(p) + k) % UnitMod
      /\ r.accepted = (w + 0 + Total(out)) % UnitMod
  <2>1. Len(<<>>) = 0
    OBVIOUS
  <2> QED BY <2>1 DEF Numbered
<1>4. Off(1) = 0 /\ \A p \in 1 .. n : Off(p) \in Nat /\ Off(p + 1) = Off(p) + PacketSize
  <2>1. \A p \in 1 .. n : p \in Nat \ {0}
    BY <1>1
  <2> HIDE DEF n
  <2> QED BY <2>1, Offsets
<1>5. Total(out) = Off(n) + Len(out[n])
  BY <1>1 DEF Total
<1>6. PacketSize \in Nat
  BY SocketsAssumption
<1> HIDE DEF out, n, w, h, rest
<1>7. \A k \in 1 .. Len(h) : h[k] = (w + k) % UnitMod
  <2> SUFFICES ASSUME NEW k \in 1 .. Len(h) PROVE h[k] = (w + k) % UnitMod
    OBVIOUS
  <2>1. 1 \in 1 .. n
    BY <1>1
  <2>2. h[k] = (w + 0 + Off(1) + k) % UnitMod
    BY <1>2, <1>3, <2>1
  <2>3. w + 0 + 0 + k = w + k
    BY <1>1, <1>2, <2>1
  <2> QED BY <1>4, <2>2, <2>3
<1>8. ASSUME NEW p \in 1 .. n - 1
      PROVE  Len(h) = PacketSize /\ p + 1 \in 1 .. n /\ p \in 1 .. n
  BY <1>1, <1>2, <1>3
<1>9. \A p \in 1 .. (n - 1) - 1 : Len(rest[p]) = PacketSize
  <2> SUFFICES ASSUME NEW p \in 1 .. (n - 1) - 1 PROVE Len(rest[p]) = PacketSize
    OBVIOUS
  <2>1. p \in 1 .. n - 1 /\ p + 1 \in 1 .. n - 1
    BY <1>1
  <2> QED BY <1>2, <1>3, <2>1
<1>10. ASSUME NEW p \in 1 .. n - 1, NEW k \in 1 .. Len(rest[p])
       PROVE  rest[p][k] = (w + Len(h) + Off(p) + k) % UnitMod
  <2>1. rest[p] = out[p + 1] /\ p + 1 \in 1 .. n /\ p \in 1 .. n /\ Len(h) = PacketSize
    BY <1>2, <1>8
  <2>2. rest[p][k] = (w + 0 + Off(p + 1) + k) % UnitMod
    BY <1>3, <2>1
  <2>3. Off(p + 1) = Off(p) + PacketSize /\ Off(p) \in Nat
    BY <1>4, <2>1
  <2>4. w + 0 + Off(p + 1) + k = w + Len(h) + Off(p) + k
    BY <1>1, <1>6, <2>1, <2>3
  <2> QED BY <2>2, <2>4
<1>11. r.accepted = (w + Len(h) + Total(rest)) % UnitMod
  <2>1. CASE n = 1
    <3>1. rest = <<>> /\ Total(rest) = 0
      <4>1. rest = <<>>
        BY <1>2, <2>1, EmptySeq
      <4> QED BY <4>1 DEF Total
    <3>2. Total(out) = Len(h) /\ Len(h) \in Nat
      BY <1>1, <1>2, <1>4, <1>5, <2>1
    <3>3. w + 0 + Total(out) = w + Len(h) + 0
      BY <1>1, <3>2
    <3> QED BY <1>3, <3>1, <3>3
  <2>2. CASE n # 1
    <3>1. n - 1 \in 1 .. n - 1 /\ (n - 1) + 1 = n /\ n - 1 \in 1 .. n /\ n \in 1 .. n
      BY <1>1, <2>2
    <3>2. rest # <<>> /\ rest[n - 1] = out[n]
      BY <1>1, <1>2, <2>2, <3>1
    <3>3. Total(rest) = Off(n - 1) + Len(out[n])
      BY <1>2, <3>2 DEF Total
    <3>4. Off(n) = Off(n - 1) + PacketSize /\ Off(n - 1) \in Nat /\ Len(out[n]) \in Nat
      BY <1>1, <1>4, <3>1
    <3>5. Len(h) = PacketSize
      BY <1>8, <3>1
    <3>6. w + 0 + Total(out) = w + Len(h) + Total(rest)
      BY <1>1, <1>5, <1>6, <3>3, <3>4, <3>5
    <3> QED BY <1>3, <3>6
  <2> QED BY <2>1, <2>2
<1>12. t.out = rest /\ t.written = w /\ t.accepted = r.accepted /\ Len(t.out) = n - 1
  BY <1>2 DEF out, w, rest
<1>13. Numbered(t, h)
  BY <1>7, <1>9, <1>10, <1>11, <1>12 DEF Numbered
<1> QED BY <1>13 DEF h, out

\* A packet goes to the line: what waits begins behind it.
LEMMA NumberedHanded ==
  ASSUME NEW r \in GoodSocket, NEW q \in Seq(Unit), q # <<>>, Numbered(r, q)
  PROVE  Numbered(HandedOver(r, Last(q)), <<>>)
<1> DEFINE t == HandedOver(r, Last(q))
           out == r.out
           w == r.written
           n == Len(q)
           x == (w + n) % UnitMod
<1>1. /\ n \in Nat /\ n # 0 /\ w \in Int /\ UnitMod \in Nat \ {0}
      /\ Len(<<>>) = 0 /\ n \in 1 .. n
  <2>1. n \in Nat /\ n # 0
    BY EmptySeq, LenProperties
  <2> HIDE DEF n
  <2> QED BY <2>1, OutIs, Units
<1>2. Last(q) = x
  BY <1>1 DEF Last, Numbered
<1>3. CASE out = <<>>
  <2>1. t.out = <<>> /\ t.written = 0 /\ t.accepted = 0
    BY <1>3, OutIs DEF HandedOver, GoodSocket, Socket
  <2>2. 0 % UnitMod = 0
    BY <1>1
  <2>3. Total(<<>>) = 0
    BY DEF Total
  <2> HIDE DEF t
  <2> QED BY <1>1, <2>1, <2>2, <2>3 DEF Numbered, t
<1>4. CASE out # <<>>
  <2>1. t.out = out /\ t.written = x /\ t.accepted = r.accepted
    BY <1>2, <1>4, OutIs DEF HandedOver, GoodSocket, Socket
  <2>2. /\ Len(out) \in Nat /\ Len(out) # 0 /\ Total(out) \in Nat
        /\ \A p \in 1 .. Len(out) : Off(p) \in Nat /\ Len(out[p]) \in Nat
    <3>1. Len(out) \in Nat /\ Len(out) # 0 /\ \A p \in 1 .. Len(out) : Len(out[p]) \in Nat
      BY <1>4, OutIs, SocketsAssumption
    <3>2. \A p \in 1 .. Len(out) : p \in Nat \ {0}
      BY <3>1
    <3>3. \A p \in 1 .. Len(out) : Off(p) \in Nat
      BY <3>2, Offsets
    <3>4. Len(out) \in 1 .. Len(out)
      BY <3>1
    <3> QED BY <1>4, <3>1, <3>3, <3>4 DEF Total
  <2>3. ASSUME NEW d \in Int
        PROVE  (x + d) % UnitMod = (w + n + d) % UnitMod
    <3> DEFINE y == w + n
    <3>1. y \in Int
      BY <1>1
    <3> HIDE DEF y
    <3> QED BY <1>1, <3>1, ModEarly DEF y
  <2>4. x \in Int
    <3> DEFINE y == w + n
    <3>1. y \in Int
      BY <1>1
    <3> HIDE DEF y
    <3>2. y % UnitMod \in 0 .. UnitMod - 1
      BY <1>1, <3>1, ModIs
    <3>3. y % UnitMod \in Int
      BY <1>1, <3>2
    <3> QED BY <3>3 DEF y
  <2>5. ASSUME NEW p \in 1 .. Len(out), NEW k \in 1 .. Len(out[p])
        PROVE  out[p][k] = (x + 0 + Off(p) + k) % UnitMod
    <3> DEFINE d == Off(p) + k
    <3>1. d \in Int /\ Off(p) \in Int /\ k \in Int
      BY <2>2
    <3>2. out[p][k] = (w + n + Off(p) + k) % UnitMod
      BY DEF Numbered
    <3>3. w + n + Off(p) + k = w + n + d
      BY <1>1, <3>1
    <3> HIDE DEF x
    <3>4. x + 0 + Off(p) + k = x + d
      BY <2>4, <3>1
    <3> HIDE DEF d
    <3> QED BY <2>3, <3>1, <3>2, <3>3, <3>4
  <2>6. r.accepted = (x + 0 + Total(out)) % UnitMod
    <3>1. r.accepted = (w + n + Total(out)) % UnitMod
      BY DEF Numbered
    <3> HIDE DEF x
    <3>2. x + 0 + Total(out) = x + Total(out)
      BY <2>2, <2>4
    <3> QED BY <2>2, <2>3, <3>1, <3>2
  <2>7. \A p \in 1 .. Len(out) - 1 : Len(out[p]) = PacketSize
    BY DEF Numbered
  <2> HIDE DEF t, x
  <2> QED BY <1>1, <2>1, <2>5, <2>6, <2>7 DEF Numbered, t
<1> QED BY <1>3, <1>4

\* A socket accepts a unit: what waits ends with it.
LEMMA NumberedUnit ==
  ASSUME NEW r \in GoodSocket, NEW q \in Seq(Unit), Numbered(r, q),
         r.out = <<>> \/ ~IsFull(r.out), NEW u \in Unit, u = (r.accepted + 1) % UnitMod,
         NEW t, t.out = AppendUnit(r.out, u), t.written = r.written, t.accepted = u
  PROVE  Numbered(t, q)
<1> DEFINE out == r.out
           b == t.out
           n == Len(out)
           w == r.written + Len(q)
<1>1. /\ n \in Nat /\ w \in Int /\ Len(q) \in Nat /\ UnitMod \in Nat \ {0} /\ PacketSize \in Nat
      /\ \A p \in 1 .. n : out[p] \in Seq(Unit) /\ Len(out[p]) \in Nat
      /\ n = 0 <=> out = <<>>
  BY OutIs, LenProperties, Units, SocketsAssumption
<1>2. Longer(out, n, u, b) \/ Started(out, n, u, b)
  <2>1. /\ PacketsFit(out) /\ n = Len(out) /\ b = AppendUnit(out, u)
        /\ out = <<>> \/ ~IsFull(out)
    BY DEF GoodSocket
  <2> HIDE DEF b, out, n
  <2> QED BY <2>1, AppendUnitIs
<1>3. /\ \A k \in 1 .. Len(q) : q[k] = (r.written + k) % UnitMod
      /\ \A p \in 1 .. n - 1 : Len(out[p]) = PacketSize
      /\ \A p \in 1 .. n : \A k \in 1 .. Len(out[p]) : out[p][k] = (w + Off(p) + k) % UnitMod
      /\ r.accepted = (w + Total(out)) % UnitMod
  BY DEF Numbered
<1>4. /\ Off(1) = 0
      /\ \A p \in 1 .. n + 1 : Off(p) \in Nat
      /\ \A p \in 1 .. n : Off(p + 1) = Off(p) + PacketSize
  <2>1. (\A p \in 1 .. n + 1 : p \in Nat \ {0}) /\ (\A p \in 1 .. n : p \in Nat \ {0})
    BY <1>1
  <2> HIDE DEF n
  <2> QED BY <2>1, Offsets
<1>5. Total(out) = (IF n = 0 THEN 0 ELSE Off(n) + Len(out[n])) /\ Total(out) \in Nat
  <2>1. n # 0 => n \in 1 .. n /\ n \in 1 .. n + 1
    BY <1>1
  <2> QED BY <1>1, <1>4, <2>1 DEF Total
<1>6. u = (w + (Total(out) + 1)) % UnitMod
  <2> DEFINE y == w + Total(out)
  <2>1. y \in Int /\ y + 1 = w + (Total(out) + 1)
    BY <1>1, <1>5
  <2>2. r.accepted = y % UnitMod
    BY <1>3
  <2> HIDE DEF y
  <2>3. ((y % UnitMod) + 1) % UnitMod = (y + 1) % UnitMod
    <3>1. 1 \in Int
      OBVIOUS
    <3> QED BY <1>1, <2>1, <3>1, ModEarly
  <2>4. u = ((y % UnitMod) + 1) % UnitMod
    BY <2>2
  <2> QED BY <2>1, <2>3, <2>4
<1>7. t.written + Len(q) = w /\ t.accepted = u
  OBVIOUS
<1>8. CASE Longer(out, n, u, b)
  <2>0. /\ n # 0 /\ Len(out[n]) < PacketSize
        /\ Len(b) = n /\ b[n] = Append(out[n], u)
        /\ \A k \in 1 .. n - 1 : b[k] = out[k]
    BY <1>8 DEF Longer
  <2> DEFINE l == Len(out[n])
  <2>1. n \in 1 .. n /\ n \in 1 .. n + 1 /\ l \in Nat
    BY <1>1, <2>0
  <2>2. /\ Len(b[n]) = l + 1 /\ b[n][l + 1] = u
        /\ \A k \in 1 .. l : b[n][k] = out[n][k]
    <3> DEFINE o == out[n]
    <3>1. o \in Seq(Unit) /\ b[n] = Append(o, u) /\ l = Len(o)
      BY <1>1, <2>0, <2>1
    <3> HIDE DEF o, l, b
    <3>2. /\ Len(Append(o, u)) = l + 1 /\ Append(o, u)[l + 1] = u
          /\ \A k \in 1 .. l : Append(o, u)[k] = o[k]
      BY <3>1, AppendProperties
    <3> QED BY <3>1, <3>2 DEF o
  <2> HIDE DEF w, b, out, n
  <2>3. ASSUME NEW p \in 1 .. n, NEW k \in 1 .. Len(b[p])
        PROVE  b[p][k] = (w + Off(p) + k) % UnitMod
    <3>1. CASE p = n /\ k = l + 1
      <4>1. w + (Total(out) + 1) = w + Off(n) + (l + 1)
        <5>1. Total(out) = Off(n) + l /\ Off(n) \in Nat
          BY <1>4, <1>5, <2>0, <2>1
        <5> HIDE DEF l
        <5> QED BY <1>1, <2>1, <5>1
      <4> QED BY <1>6, <2>2, <3>1, <4>1
    <3>2. CASE p = n /\ k # l + 1
      <4>1. k \in 1 .. l
        BY <2>1, <2>2, <3>2
      <4> QED BY <1>3, <2>1, <2>2, <3>2, <4>1
    <3>3. CASE p # n
      <4>1. p \in 1 .. n - 1
        BY <1>1, <3>3
      <4>2. b[p] = out[p]
        BY <2>0, <4>1
      <4> QED BY <1>3, <4>2
    <3> QED BY <3>1, <3>2, <3>3
  <2>4. \A p \in 1 .. n - 1 : Len(b[p]) = PacketSize
    BY <1>3, <2>0
  <2>5. u = (w + Total(b)) % UnitMod
    <3>1. b # <<>>
      BY <2>0, Len(<<>>) = 0
    <3>2. Total(b) = Off(n) + (l + 1)
      BY <2>0, <2>2, <3>1 DEF Total
    <3>3. Total(out) = Off(n) + l /\ Off(n) \in Nat
      BY <1>4, <1>5, <2>0, <2>1
    <3>4. Total(out) + 1 = Total(b)
      BY <2>1, <3>2, <3>3
    <3> QED BY <1>6, <3>4
  <2>6. Len(b) = n
    BY <2>0
  <2> QED BY <1>3, <1>7, <2>3, <2>4, <2>5, <2>6 DEF Numbered, b
<1>9. CASE Started(out, n, u, b)
  <2>0. /\ n # 0 => Len(out[n]) = PacketSize
        /\ Len(b) = n + 1 /\ b[n + 1] = <<u>>
        /\ \A k \in 1 .. n : b[k] = out[k]
    BY <1>9 DEF Started
  <2>1. n + 1 \in 1 .. n + 1 /\ (n # 0 => n \in 1 .. n) /\ (n + 1) - 1 = n
    BY <1>1
  <2>2. Len(b[n + 1]) = 1 /\ b[n + 1][1] = u
    <3>1. Len(<<u>>) = 1 /\ <<u>>[1] = u
      OBVIOUS
    <3> QED BY <2>0, <3>1
  <2> HIDE DEF w, b, out, n
  <2>3. Off(n + 1) = Total(out)
    <3>1. CASE n = 0
      BY <1>4, <1>5, <3>1
    <3>2. CASE n # 0
      BY <1>4, <1>5, <2>0, <2>1, <3>2
    <3> QED BY <3>1, <3>2
  <2>4. ASSUME NEW p \in 1 .. n + 1, NEW k \in 1 .. Len(b[p])
        PROVE  b[p][k] = (w + Off(p) + k) % UnitMod
    <3>1. CASE p = n + 1
      <4>1. k = 1
        <5>1. k \in 1 .. 1
          BY <2>2, <3>1
        <5> QED BY <5>1
      <4>2. w + (Total(out) + 1) = w + Off(n + 1) + 1
        BY <1>1, <1>5, <2>3
      <4> QED BY <1>6, <2>2, <3>1, <4>1, <4>2
    <3>2. CASE p # n + 1
      <4>1. p \in 1 .. n
        BY <1>1, <3>2
      <4>2. b[p] = out[p]
        BY <2>0, <4>1
      <4> QED BY <1>3, <4>1, <4>2
    <3> QED BY <3>1, <3>2
  <2>5. ASSUME NEW p \in 1 .. n PROVE Len(b[p]) = PacketSize
    <3>1. b[p] = out[p]
      BY <2>0
    <3>2. CASE p = n
      <4>1. n # 0
        BY <1>1, <3>2
      <4> QED BY <2>0, <3>1, <3>2, <4>1
    <3>3. CASE p # n
      <4>1. p \in 1 .. n - 1
        BY <1>1, <3>3
      <4> QED BY <1>3, <3>1, <4>1
    <3> QED BY <3>2, <3>3
  <2>6. u = (w + Total(b)) % UnitMod
    <3>1. b # <<>>
      BY <1>1, <2>0, Len(<<>>) = 0
    <3>2. Total(b) = Off(n + 1) + 1
      BY <2>0, <2>2, <3>1 DEF Total
    <3> QED BY <1>6, <2>3, <3>2
  <2>7. Len(b) = n + 1
    BY <2>0
  <2> QED BY <1>3, <1>7, <2>1, <2>4, <2>5, <2>6, <2>7 DEF Numbered, b
<1> QED BY <1>2, <1>8, <1>9

-----------------------------------------------------------------------------
(* The packet that waits                                                   *)

\* Ahead, of any commands that wait.
AheadIn(W, o, s) ==
  LET own == {c \in W : c.cmd = "USOWR" /\ c.id = s}
  IN IF own = {} \/ o THEN <<>> ELSE (CHOOSE c \in own : TRUE).data

LEMMA AheadIsIn == \A s : Ahead(s) = AheadIn(Waiting, orphan, s)
BY DEF Ahead, AheadIn

LEMMA AheadNone ==
  ASSUME NEW W, NEW o, NEW s, o \/ \A c \in W : c.cmd = "USOWR" => c.id # s
  PROVE  AheadIn(W, o, s) = <<>>
BY DEF AheadIn

LEMMA AheadOne ==
  ASSUME NEW W, NEW o, NEW s, ~o, NEW c \in W, c.cmd = "USOWR",
         \A d \in W : d.cmd = "USOWR" => d = c
  PROVE  AheadIn(W, o, s) = IF c.id = s THEN c.data ELSE <<>>
<1>1. CASE c.id = s
  <2> DEFINE own == {d \in W : d.cmd = "USOWR" /\ d.id = s}
  <2>1. own = {c}
    BY <1>1
  <2>2. (CHOOSE d \in own : TRUE) = c
    <3> HIDE DEF own
    <3> QED BY <2>1
  <2>3. AheadIn(W, o, s) = (CHOOSE d \in own : TRUE).data
    BY <2>1 DEF AheadIn
  <2> QED BY <1>1, <2>2, <2>3
<1>2. CASE c.id # s
  BY <1>2, AheadNone
<1> QED BY <1>1, <1>2

LEMMA AheadSame ==
  ASSUME NEW W, NEW V, NEW o, NEW s, \A c : c.cmd = "USOWR" => (c \in V <=> c \in W)
  PROVE  AheadIn(V, o, s) = AheadIn(W, o, s)
<1> DEFINE A == {c \in W : c.cmd = "USOWR" /\ c.id = s}
           B == {c \in V : c.cmd = "USOWR" /\ c.id = s}
<1>1. A = B
  OBVIOUS
<1>2. AheadIn(W, o, s) = IF A = {} \/ o THEN <<>> ELSE (CHOOSE c \in A : TRUE).data
  BY DEF AheadIn
<1>3. AheadIn(V, o, s) = IF B = {} \/ o THEN <<>> ELSE (CHOOSE c \in B : TRUE).data
  BY DEF AheadIn
<1> HIDE DEF A, B
<1>4. CASE A = {} \/ o
  BY <1>1, <1>2, <1>3, <1>4
<1>5. CASE ~(A = {} \/ o)
  <2>1. AheadIn(W, o, s) = (CHOOSE c \in A : TRUE).data
    BY <1>2, <1>5, Zenon
  <2>2. AheadIn(V, o, s) = (CHOOSE c \in A : TRUE).data
    BY <1>1, <1>3, <1>5, Zenon
  <2> QED BY <2>1, <2>2
<1> QED BY <1>4, <1>5

\* A packet that waits is of a socket that is there, or of one that is gone.
PacketsOwned ==
  \A c \in Waiting : c.cmd = "USOWR" => Len(c.data) <= PacketSize /\ (orphan \/ Has(c.id))

\* What UnitsInOrder says, packet by packet.
QueuesNumbered ==
  \A i \in DOMAIN socketArray : socketArray[i].id \notin lost /\ ~socketArray[i].freed =>
    Numbered(socketArray[i], AheadIn(Waiting, orphan, socketArray[i].id))

UnitInv == PacketsOwned /\ QueuesNumbered

LEMMA OneWaits ==
  ASSUME Shape, SingleWrite
  PROVE  /\ \A c, d \in Waiting : c.cmd = "USOWR" /\ d.cmd = "USOWR" => c = d
         /\ \A c \in Waiting : c \in GoodCommand
         /\ \A s : Ahead(s) \in Seq(Unit)
         /\ PacketsOwned => \A s : Len(Ahead(s)) \in 0 .. PacketSize
<1>1. \A c, d \in Waiting : c.cmd = "USOWR" /\ d.cmd = "USOWR" => c = d
  BY DEF SingleWrite, Waiting
<1>2. \A c \in Waiting : c \in GoodCommand
  BY Elements DEF Waiting
<1>3. ASSUME NEW s
      PROVE  Ahead(s) \in Seq(Unit) /\ (PacketsOwned => Len(Ahead(s)) \in 0 .. PacketSize)
  <2>1. CASE orphan \/ \A c \in Waiting : c.cmd = "USOWR" => c.id # s
    <3>1. Ahead(s) = <<>>
      BY <2>1, AheadIsIn, AheadNone
    <3>2. <<>> \in Seq(Unit) /\ Len(<<>>) = 0
      OBVIOUS
    <3> QED BY <3>1, <3>2, SocketsAssumption
  <2>2. CASE ~orphan /\ \E c \in Waiting : c.cmd = "USOWR" /\ c.id = s
    <3>1. PICK c \in Waiting : c.cmd = "USOWR" /\ c.id = s
      BY <2>2
    <3>2. Ahead(s) = c.data
      BY <1>1, <2>2, <3>1, AheadIsIn, AheadOne
    <3>3. c.data \in Seq(Unit) /\ Len(c.data) \in Nat
      BY <1>2, LenProperties DEF GoodCommand, SentCommand
    <3>4. PacketsOwned => Len(c.data) <= PacketSize
      BY <3>1 DEF PacketsOwned
    <3> QED BY <3>2, <3>3, <3>4, SocketsAssumption
  <2> QED BY <2>1, <2>2
<1> QED BY <1>1, <1>2, <1>3

-----------------------------------------------------------------------------
(* Steps that send nothing                                                 *)

Alike(r, t) ==
  r.id = t.id /\ r.out = t.out /\ r.written = t.written /\ r.accepted = t.accepted /\ r.freed = t.freed

LEMMA NumberedAlike ==
  ASSUME NEW r, NEW t, NEW q, Numbered(t, q), Alike(r, t)
  PROVE  Numbered(r, q)
BY DEF Numbered, Alike

\* The packets that wait are the same.
WritesKept == \A c : c.cmd = "USOWR" => (c \in Waiting' <=> c \in Waiting)

LEMMA UnitIfKept ==
  ASSUME UnitInv, DOMAIN socketArray' = DOMAIN socketArray,
         \A i \in DOMAIN socketArray : Alike(socketArray'[i], socketArray[i]),
         lost \subseteq lost', orphan' = orphan, WritesKept
  PROVE  UnitInv'
<1>1. PacketsOwned'
  <2> SUFFICES ASSUME NEW c \in Waiting', c.cmd = "USOWR"
               PROVE  Len(c.data) <= PacketSize /\ (orphan' \/ Has(c.id)')
    BY DEF PacketsOwned
  <2>1. Len(c.data) <= PacketSize /\ (orphan \/ Has(c.id))
    <3>1. c \in Waiting
      BY DEF WritesKept
    <3> QED BY <3>1 DEF UnitInv, PacketsOwned
  <2>2. Has(c.id) => Has(c.id)'
    BY DEF Has, Alike
  <2> QED BY <2>1, <2>2
<1>2. QueuesNumbered'
  <2> SUFFICES ASSUME NEW i \in DOMAIN socketArray, socketArray'[i].id \notin lost', ~socketArray'[i].freed
               PROVE  Numbered(socketArray'[i], AheadIn(Waiting', orphan', socketArray'[i].id))
    BY DEF QueuesNumbered
  <2> DEFINE r == socketArray'[i]
             t == socketArray[i]
             q == AheadIn(Waiting, orphan, t.id)
  <2>1. Alike(r, t) /\ t.id \notin lost /\ ~t.freed /\ r.id = t.id
    BY DEF Alike
  <2>2. Numbered(t, q)
    BY <2>1 DEF UnitInv, QueuesNumbered
  <2>3. AheadIn(Waiting', orphan', r.id) = q
    <3>1. AheadIn(Waiting', orphan', t.id) = AheadIn(Waiting, orphan', t.id)
      <4> DEFINE o == orphan'
                 s == t.id
                 V == Waiting'
      <4>1. \A c : c.cmd = "USOWR" => (c \in V <=> c \in Waiting)
        BY DEF WritesKept
      <4> HIDE DEF o, s, V
      <4>2. AheadIn(V, o, s) = AheadIn(Waiting, o, s)
        BY <4>1, AheadSame
      <4> QED BY <4>2 DEF o, s, V
    <3> QED BY <2>1, <3>1
  <2> HIDE DEF r, t, q
  <2>4. Numbered(r, q)
    BY <2>1, <2>2, NumberedAlike
  <2> QED BY <2>3, <2>4 DEF r
<1> QED BY <1>1, <1>2 DEF UnitInv

\* Destroy takes out no socket but one of id s.
LEMMA OthersStay ==
  ASSUME Shape, NEW s, NEW missed, Destroy(s, missed), NEW t, t # s, Has(t)
  PROVE  Has(t)'
<1> DEFINE n == Index(s)
<1>1. DOMAIN socketArray = 1 .. Len(socketArray) /\ Len(socketArray) \in Nat /\ socketArray \in Seq(GoodSocket)
  BY Elements DEF Shape
<1>2. PICK j \in DOMAIN socketArray : socketArray[j].id = t
  BY DEF Has
<1>3. CASE Has(s)
  <2>1. socketArray' = RemoveAt(socketArray, n)
    BY <1>3 DEF Destroy
  <2>2. n \in 1 .. Len(socketArray) /\ socketArray[n].id = s
    BY <1>3, IndexFinds
  <2> HIDE DEF n
  <2>3. /\ socketArray' \in Seq(GoodSocket)
        /\ Len(socketArray') = Len(socketArray) - 1
        /\ \A k \in 1 .. Len(socketArray) - 1 : socketArray'[k] = socketArray[IF k < n THEN k ELSE k + 1]
    BY <1>1, <2>1, <2>2, RemoveAtProperties
  <2>4. DOMAIN socketArray' = 1 .. Len(socketArray) - 1
    BY <2>3, LenProperties
  <2>5. \E k \in DOMAIN socketArray' : socketArray'[k] = socketArray[j]
    <3>1. CASE j < n
      BY <1>1, <2>2, <2>3, <2>4, <3>1
    <3>2. CASE ~(j < n)
      <4>1. j - 1 \in DOMAIN socketArray' /\ ~(j - 1 < n) /\ (j - 1) + 1 = j
        BY <1>1, <1>2, <2>2, <2>4, <3>2
      <4>2. socketArray'[j - 1] = socketArray[j]
        BY <2>3, <2>4, <4>1
      <4> QED BY <4>1, <4>2
    <3> QED BY <3>1, <3>2
  <2> QED BY <1>2, <2>5 DEF Has
<1>4. CASE ~Has(s)
  <2>1. socketArray' = socketArray
    BY <1>4 DEF Destroy
  <2> QED BY <1>2, <2>1 DEF Has
<1> QED BY <1>3, <1>4

\* What remains after Destroy is numbered as it was; the packet that waits may have
\* lost its socket.
LEMMA UnitAfterDestroy ==
  ASSUME Shape, SingleWrite, SocketsAreOpen, UnitInv, NEW s \in Id, NEW missed \in SUBSET Id,
         Destroy(s, missed), stack' = stack
  PROVE  UnitInv'
<1>1. PICK f \in [DOMAIN socketArray' -> DOMAIN socketArray] :
        /\ \A i \in DOMAIN socketArray' : socketArray'[i] = socketArray[f[i]]
        /\ \A i \in DOMAIN socketArray' : socketArray'[i].id = s =>
             \E j \in DOMAIN socketArray : socketArray[j].id = s /\ j # f[i]
  BY Destroyed, Zenon
<1>2. /\ \A t \in Id \ {s} : t \in lost' <=> t \in lost \cup missed
      /\ (\E i \in DOMAIN socketArray' : socketArray'[i].id = s) => lost' = lost \cup missed
  BY Destroyed, Zenon
<1>3. orphan' = (orphan \/ \E c \in Waiting : c.cmd = "USOWR" /\ c.id = s) /\ orphan \in BOOLEAN
  BY DEF Destroy, Shape
<1>4. Waiting' = Waiting
  BY StackKept
<1>5. PacketsOwned'
  <2> SUFFICES ASSUME NEW c \in Waiting, c.cmd = "USOWR"
               PROVE  Len(c.data) <= PacketSize /\ (orphan' \/ Has(c.id)')
    BY <1>4 DEF PacketsOwned
  <2>1. Len(c.data) <= PacketSize /\ (orphan \/ Has(c.id))
    BY DEF UnitInv, PacketsOwned
  <2>2. CASE c.id = s
    BY <1>3, <2>1, <2>2
  <2>3. CASE c.id # s
    <3>1. Has(c.id) => Has(c.id)'
      <4> DEFINE t == c.id
      <4>1. t # s
        BY <2>3
      <4> HIDE DEF t
      <4>2. Has(t) => Has(t)'
        BY <4>1, OthersStay
      <4> QED BY <4>2 DEF t
    <3> QED BY <1>3, <2>1, <3>1
  <2> QED BY <2>2, <2>3
<1>6. QueuesNumbered'
  <2> SUFFICES ASSUME NEW i \in DOMAIN socketArray', socketArray'[i].id \notin lost', ~socketArray'[i].freed
               PROVE  Numbered(socketArray'[i], AheadIn(Waiting', orphan', socketArray'[i].id))
    BY DEF QueuesNumbered
  <2> DEFINE r == socketArray'[i]
             t == r.id
  <2>1. r = socketArray[f[i]] /\ f[i] \in DOMAIN socketArray /\ t \in Id
    BY <1>1, Elements DEF GoodSocket, Socket
  <2>2. t # s
    <3> SUFFICES ASSUME t = s PROVE FALSE
      OBVIOUS
    <3>1. PICK j \in DOMAIN socketArray : socketArray[j].id = s /\ j # f[i]
      BY <1>1
    <3>2. s \in lost
      BY <2>1, <3>1 DEF SocketsAreOpen
    <3> QED BY <1>2, <3>2
  <2>3. t \notin lost
    BY <1>2, <2>1, <2>2
  <2>4. Numbered(r, AheadIn(Waiting, orphan, t))
    BY <2>1, <2>3 DEF UnitInv, QueuesNumbered
  <2> DEFINE p == orphan'
  <2>5. AheadIn(Waiting, p, t) = AheadIn(Waiting, orphan, t)
    <3>1. CASE p = orphan
      BY <3>1
    <3>2. CASE p # orphan
      <4>1. p /\ \E c \in Waiting : c.cmd = "USOWR" /\ c.id = s
        BY <1>3, <3>2
      <4>2. \A c \in Waiting : c.cmd = "USOWR" => c.id # t
        BY <2>2, <4>1, OneWaits
      <4> HIDE DEF p, t
      <4>3. AheadIn(Waiting, p, t) = <<>> /\ AheadIn(Waiting, orphan, t) = <<>>
        BY <4>1, <4>2, AheadNone
      <4> QED BY <4>3
    <3> QED BY <3>1, <3>2
  <2> HIDE DEF r
  <2>6. Numbered(r, AheadIn(Waiting', orphan', t))
    BY <1>4, <2>4, <2>5
  <2> QED BY <2>6 DEF r
<1> QED BY <1>5, <1>6 DEF UnitInv

-----------------------------------------------------------------------------
(* Steps that send                                                         *)

\* Without a packet that waits, all queues begin behind what was handed over.
LEMMA NothingAhead ==
  ASSUME QueuesNumbered, \A k \in DOMAIN stack : stack[k].cmd # "USOWR"
  PROVE  \A j \in DOMAIN socketArray : socketArray[j].id \notin lost /\ ~socketArray[j].freed =>
           Numbered(socketArray[j], <<>>)
<1> SUFFICES ASSUME NEW j \in DOMAIN socketArray, socketArray[j].id \notin lost, ~socketArray[j].freed
             PROVE  Numbered(socketArray[j], <<>>)
  OBVIOUS
<1> DEFINE s == socketArray[j].id
<1>1. Numbered(socketArray[j], AheadIn(Waiting, orphan, s))
  BY DEF QueuesNumbered
<1>2. \A c \in Waiting : c.cmd = "USOWR" => c.id # s
  BY DEF Waiting
<1>3. AheadIn(Waiting, orphan, s) = <<>>
  <2> HIDE DEF s
  <2> QED BY <1>2, AheadNone
<1> QED BY <1>1, <1>3

\* SendPacket on the array a moves the first packet of a[i] to the stack.
LEMMA UnitIfSent ==
  ASSUME Shape, NEW a \in Seq(GoodSocket), NEW i \in DOMAIN a, a[i].out # <<>>, SendPacket(a, i),
         \A k \in DOMAIN stack : stack[k].cmd # "USOWR",
         \A j \in DOMAIN a : a[j].id \notin lost /\ ~a[j].freed => Numbered(a[j], <<>>),
         \A j, k \in DOMAIN a : a[j].id = a[k].id /\ j # k => a[j].id \in lost,
         lost' = lost
  PROVE  UnitInv'
<1> DEFINE s == a[i].id
           h == Head(a[i].out)
<1>1. a[i] \in GoodSocket /\ a[i] \in Socket /\ PacketsFit(a[i].out)
  BY ElementOfSeq, LenProperties DEF GoodSocket
<1>2. h \in Seq(Unit) /\ h # <<>> /\ Len(h) <= PacketSize /\ PacketsFit(Tail(a[i].out))
  <2> DEFINE out == a[i].out
  <2>1. out \in Seq(Seq(Unit)) /\ DOMAIN out = 1 .. Len(out) /\ Len(out) \in Nat /\ Len(out) # 0
    BY <1>1, LenProperties, EmptySeq DEF PacketsFit
  <2>2. h = out[1] /\ 1 \in DOMAIN out
    BY <2>1, HeadTailProperties
  <2>3. Len(out[1]) \in 1 .. PacketSize
    BY <1>1, <2>2 DEF PacketsFit
  <2>4. Len(h) <= PacketSize
    BY <2>2, <2>3, SocketsAssumption
  <2> HIDE DEF h
  <2> QED BY <1>1, <2>4, PacketTaken DEF h
<1>3. CASE Len(stack) < OUT_MESSAGE_STACK_SIZE
  <2> DEFINE c == [Command("USOWR", s) EXCEPT !.data = h]
             r == [a[i] EXCEPT !.out = Tail(@)]
  <2>1. /\ stack' = Append(stack, c) /\ socketArray' = [a EXCEPT ![i] = r] /\ orphan' = FALSE
    BY <1>3 DEF SendPacket
  <2>2. c \in GoodCommand /\ c.cmd = "USOWR" /\ c.id = s /\ c.data = h
    <3>1. s \in Id
      BY <1>1 DEF Socket
    <3> QED BY <1>2, <3>1 DEF Command, GoodCommand, SentCommand, CommandName
  <2>3. /\ r \in GoodSocket /\ r.id = s /\ r.freed = a[i].freed
        /\ r.out = Tail(a[i].out) /\ r.written = a[i].written /\ r.accepted = a[i].accepted
    BY <1>1, <1>2 DEF GoodSocket, Socket, PacketsFit
  <2> HIDE DEF c, r, h
  <2>4. /\ DOMAIN socketArray' = DOMAIN a
        /\ \A j \in DOMAIN a : socketArray'[j] = IF j = i THEN r ELSE a[j]
    BY <2>1, <2>3, SocketChanged
  <2>5. c \in Waiting' /\ \A d \in Waiting' : d.cmd = "USOWR" => d = c
    <3>1. /\ DOMAIN stack' = 1 .. Len(stack) + 1
          /\ \A k \in DOMAIN stack : k \in DOMAIN stack' /\ stack'[k] = stack[k]
          /\ stack'[Len(stack) + 1] = c /\ c \in Waiting'
      BY <1>3, <2>1, <2>2, Appended
    <3>2. \A k \in DOMAIN stack' : stack'[k].cmd = "USOWR" => k = Len(stack) + 1
      BY <3>1, Elements
    <3> QED BY <3>1, <3>2 DEF Waiting
  <2>6. PacketsOwned'
    <3> SUFFICES ASSUME NEW d \in Waiting', d.cmd = "USOWR"
                 PROVE  Len(d.data) <= PacketSize /\ (orphan' \/ Has(d.id)')
      BY DEF PacketsOwned
    <3>1. d = c
      BY <2>5
    <3>2. socketArray'[i].id = s
      BY <2>3, <2>4
    <3>3. Has(c.id)'
      BY <2>2, <2>4, <3>2 DEF Has
    <3> QED BY <1>2, <2>2, <3>1, <3>3
  <2>7. QueuesNumbered'
    <3> SUFFICES ASSUME NEW j \in DOMAIN a, socketArray'[j].id \notin lost, ~socketArray'[j].freed
                 PROVE  Numbered(socketArray'[j], AheadIn(Waiting', orphan', socketArray'[j].id))
      BY <2>4 DEF QueuesNumbered
    <3> DEFINE t == socketArray'[j].id
               V == Waiting'
    <3>1. AheadIn(V, orphan', t) = IF s = t THEN h ELSE <<>>
      <4> DEFINE o == orphan'
      <4>1. ~o /\ c \in V /\ c.cmd = "USOWR" /\ \A d \in V : d.cmd = "USOWR" => d = c
        BY <2>1, <2>2, <2>5
      <4> HIDE DEF o, V, t
      <4>2. AheadIn(V, o, t) = IF c.id = t THEN c.data ELSE <<>>
        BY <4>1, AheadOne
      <4> QED BY <2>2, <4>2 DEF o
    <3>2. CASE j = i
      <4>1. socketArray'[j] = r /\ t = s
        BY <2>3, <2>4, <3>2
      <4>2. Numbered(a[i], <<>>)
        BY <2>3, <4>1
      <4>3. Numbered(r, h)
        BY <1>1, <2>3, <4>2, NumberedTaken DEF h
      <4> QED BY <3>1, <4>1, <4>3
    <3>3. CASE j # i
      <4>1. socketArray'[j] = a[j] /\ Numbered(a[j], <<>>) /\ t # s
        BY <2>4, <3>3
      <4> QED BY <3>1, <4>1
    <3> QED BY <3>2, <3>3
  <2> QED BY <2>6, <2>7 DEF UnitInv
<1>4. CASE ~(Len(stack) < OUT_MESSAGE_STACK_SIZE)
  <2> DEFINE r == [a[i] EXCEPT !.freed = TRUE]
  <2>1. stack' = stack /\ socketArray' = [a EXCEPT ![i] = r]
    BY <1>4 DEF SendPacket
  <2>2. r \in GoodSocket /\ r.id = s /\ r.freed = TRUE
    BY <1>1 DEF GoodSocket, Socket, PacketsFit
  <2> HIDE DEF r
  <2>3. /\ DOMAIN socketArray' = DOMAIN a
        /\ \A j \in DOMAIN a : socketArray'[j] = IF j = i THEN r ELSE a[j]
    BY <2>1, <2>2, SocketChanged
  <2>4. \A c \in Waiting' : c.cmd # "USOWR"
    BY <2>1 DEF Waiting
  <2>5. QueuesNumbered'
    <3> SUFFICES ASSUME NEW j \in DOMAIN a, socketArray'[j].id \notin lost, ~socketArray'[j].freed
                 PROVE  Numbered(socketArray'[j], AheadIn(Waiting', orphan', socketArray'[j].id))
      BY <2>3 DEF QueuesNumbered
    <3>1. socketArray'[j] = a[j] /\ Numbered(a[j], <<>>)
      BY <2>2, <2>3
    <3> DEFINE t == socketArray'[j].id
               V == Waiting'
               o == orphan'
    <3>2. AheadIn(V, o, t) = <<>>
      <4>1. \A c \in V : c.cmd = "USOWR" => c.id # t
        BY <2>4
      <4> HIDE DEF o, V, t
      <4> QED BY <4>1, AheadNone
    <3> QED BY <3>1, <3>2
  <2> QED BY <2>4, <2>5 DEF UnitInv, PacketsOwned
<1> QED BY <1>3, <1>4

LEMMA WriteFinalUnit ==
  ASSUME IInv, UnitInv, NEW ok \in BOOLEAN, WriteFinal(ok)
  PROVE  UnitInv'
<1> USE DEF IInv
<1>1. /\ pending.cmd = "USOWR" /\ UNCHANGED <<lost, refused>>
      /\ IF ok THEN SendNextAvailableData ELSE UNCHANGED <<handler, stack, orphan>>
  BY DEF WriteFinal
<1>2. CASE UNCHANGED <<socketArray, stack, orphan>>
  BY <1>1, <1>2, StackKept, UnitIfKept DEF Alike, WritesKept
<1>3. CASE \E i \in DOMAIN socketArray : socketArray[i].out # <<>> /\ SendPacket(socketArray, i)
  <2>1. PICK i \in DOMAIN socketArray : socketArray[i].out # <<>> /\ SendPacket(socketArray, i)
    BY <1>3
  <2>2. \A k \in DOMAIN stack : stack[k].cmd # "USOWR"
    BY <1>1 DEF SingleWrite
  <2>3. \A j \in DOMAIN socketArray : socketArray[j].id \notin lost /\ ~socketArray[j].freed =>
          Numbered(socketArray[j], <<>>)
    BY <2>2, NothingAhead DEF UnitInv
  <2>4. \A j, k \in DOMAIN socketArray : socketArray[j].id = socketArray[k].id /\ j # k => socketArray[j].id \in lost
    BY DEF SocketsAreOpen
  <2>5. socketArray \in Seq(GoodSocket)
    BY DEF Shape
  <2> QED BY <1>1, <2>1, <2>2, <2>3, <2>4, <2>5, UnitIfSent
<1> QED BY <1>1, <1>2, <1>3, NextChosen DEF handler

LEMMA SendDataUnit ==
  ASSUME IInv, UnitInv, NEW i \in DOMAIN socketArray, SendData(i)
  PROVE  UnitInv'
<1> USE DEF IInv
<1> DEFINE u == (socketArray[i].accepted + 1) % UnitMod
           r == [socketArray[i] EXCEPT !.out = AppendUnit(@, u), !.accepted = u]
           a == [socketArray EXCEPT ![i] = r]
<1>1. /\ CanSend(i)
      /\ \/ pendingSockTransmission = NONE /\ SendPacket(a, i)
         \/ /\ pendingSockTransmission # NONE
            /\ socketArray' = a /\ UNCHANGED <<pendingSockTransmission, stack, orphan>>
      /\ UNCHANGED <<pending, booted, modem, created, lost, refused>>
  BY DEF SendData
<1>2. socketArray[i] \in GoodSocket /\ socketArray \in Seq(GoodSocket)
  BY Elements DEF Shape
<1>3. u \in Unit /\ u = (socketArray[i].accepted + 1) % UnitMod
  <2>1. socketArray[i].accepted \in Nat /\ UnitMod \in Nat /\ UnitMod # 0
    BY <1>2, Units DEF GoodSocket, Socket, Unit
  <2> QED BY <2>1 DEF Unit
<1> HIDE DEF u
<1>4. socketArray[i].out = <<>> \/ ~IsFull(socketArray[i].out)
  BY <1>1 DEF CanSend
<1>5. PacketsFit(AppendUnit(socketArray[i].out, u)) /\ AppendUnit(socketArray[i].out, u) # <<>>
  <2>1. PacketsFit(socketArray[i].out)
    BY <1>2 DEF GoodSocket
  <2> QED BY <1>3, <1>4, <2>1, UnitAppended
<1>6. /\ r \in GoodSocket /\ r.id = socketArray[i].id /\ r.freed = socketArray[i].freed /\ r.out # <<>>
      /\ r.out = AppendUnit(socketArray[i].out, u)
      /\ r.written = socketArray[i].written /\ r.accepted = u
  <2>1. AppendUnit(socketArray[i].out, u) \in Seq(Seq(Unit))
    BY <1>5 DEF PacketsFit
  <2> QED BY <1>2, <1>3, <1>5, <2>1 DEF GoodSocket, Socket
<1> HIDE DEF r
<1>7. /\ a \in Seq(GoodSocket) /\ DOMAIN a = DOMAIN socketArray
      /\ \A j \in DOMAIN socketArray : a[j] = IF j = i THEN r ELSE socketArray[j]
  BY <1>2, <1>6, SocketChanged
<1> HIDE DEF a
<1>8. ASSUME NEW q \in Seq(Unit), Numbered(socketArray[i], q) PROVE Numbered(r, q)
  BY <1>2, <1>3, <1>4, <1>6, <1>8, NumberedUnit
<1>9. CASE pendingSockTransmission = NONE /\ SendPacket(a, i)
  <2>1. \A k \in DOMAIN stack : stack[k].cmd # "USOWR"
    BY <1>9 DEF SingleWrite
  <2>2. ASSUME NEW j \in DOMAIN a, a[j].id \notin lost, ~a[j].freed PROVE Numbered(a[j], <<>>)
    <3>1. Numbered(socketArray[j], <<>>)
      BY <1>6, <1>7, <2>1, <2>2, NothingAhead DEF UnitInv
    <3>2. <<>> \in Seq(Unit)
      OBVIOUS
    <3>3. CASE j = i
      BY <1>7, <1>8, <3>1, <3>2, <3>3
    <3>4. CASE j # i
      BY <1>7, <3>1, <3>4
    <3> QED BY <3>3, <3>4
  <2>3. \A j, k \in DOMAIN a : a[j].id = a[k].id /\ j # k => a[j].id \in lost
    BY <1>6, <1>7 DEF SocketsAreOpen
  <2>4. i \in DOMAIN a /\ a[i].out # <<>>
    BY <1>6, <1>7
  <2> QED BY <1>1, <1>7, <1>9, <2>1, <2>2, <2>3, <2>4, UnitIfSent
<1>10. CASE socketArray' = a /\ UNCHANGED <<pendingSockTransmission, stack, orphan>>
  <2>1. Waiting' = Waiting /\ orphan' = orphan /\ lost' = lost
    BY <1>1, <1>10, StackKept
  <2>2. PacketsOwned'
    <3>1. \A s : Has(s) => Has(s)'
      BY <1>6, <1>7, <1>10 DEF Has
    <3> QED BY <2>1, <3>1 DEF UnitInv, PacketsOwned
  <2>3. QueuesNumbered'
    <3> SUFFICES ASSUME NEW j \in DOMAIN socketArray, a[j].id \notin lost, ~a[j].freed
                 PROVE  Numbered(a[j], AheadIn(Waiting, orphan, a[j].id))
      BY <1>7, <1>10, <2>1 DEF QueuesNumbered
    <3> DEFINE q == AheadIn(Waiting, orphan, socketArray[j].id)
    <3>1. a[j].id = socketArray[j].id /\ a[j].freed = socketArray[j].freed
      BY <1>6, <1>7
    <3>2. Numbered(socketArray[j], q)
      BY <3>1 DEF UnitInv, QueuesNumbered
    <3>3. q \in Seq(Unit)
      BY OneWaits, AheadIsIn
    <3> HIDE DEF q
    <3>4. Numbered(a[j], q)
      <4>1. CASE j = i
        BY <1>7, <1>8, <3>2, <3>3, <4>1
      <4>2. CASE j # i
        BY <1>7, <3>2, <4>2
      <4> QED BY <4>1, <4>2
    <3> QED BY <3>1, <3>4 DEF q
  <2> QED BY <2>2, <2>3 DEF UnitInv
<1> QED BY <1>1, <1>9, <1>10

\* The packet leaves the stack for the line, and its socket notes it.
LEMMA LoopSendUnit ==
  ASSUME IInv, UnitInv, LoopSend
  PROVE  UnitInv'
<1> USE DEF IInv
<1> DEFINE c == Head(stack)
           n == Index(c.id)
           r == HandedOver(socketArray[n], Last(c.data))
<1>1. /\ pending = NoCommand /\ stack # <<>> /\ pending' = c /\ stack' = Tail(stack) /\ lost' = lost
      /\ socketArray' = IF c.cmd = "USOWR" /\ ~orphan /\ Has(c.id)
                        THEN [socketArray EXCEPT ![n] = r] ELSE socketArray
      /\ orphan' = IF c.cmd = "USOWR" THEN FALSE ELSE orphan
  BY DEF LoopSend
<1>2. /\ c \in GoodCommand /\ c = stack[1] /\ 1 \in DOMAIN stack
      /\ \A k \in DOMAIN stack' : k + 1 \in DOMAIN stack /\ k + 1 # 1 /\ stack'[k] = stack[k + 1]
      /\ InFlight \subseteq InFlight'
  BY <1>1, FirstTaken
<1>3. c \in Waiting /\ Waiting' \subseteq Waiting /\ \A d \in Waiting : d \in Waiting' \/ d = c
  <2>1. c \in Waiting /\ Waiting' \subseteq Waiting
    BY <1>2 DEF Waiting
  <2>2. \A d \in Waiting : d \in Waiting' \/ d = c
    <3>1. pending' \notin Waiting' => \A d \in Waiting : d \in Waiting' \/ d = pending'
      BY <1>2 DEF InFlight
    <3>2. pending' = c
      BY <1>1
    <3> HIDE DEF c
    <3>3. \A d \in Waiting : d \in Waiting' \/ d = c
      BY <1>2, <3>2 DEF InFlight
    <3> QED BY <3>3
  <2> QED BY <2>1, <2>2
<1>4. CASE c.cmd # "USOWR"
  <2>1. WritesKept
    BY <1>3, <1>4 DEF WritesKept
  <2> QED BY <1>1, <1>4, <2>1, UnitIfKept DEF Alike
<1>5. CASE c.cmd = "USOWR"
  <2> HIDE DEF c, r, n
  <2>1. ASSUME NEW d \in Waiting' PROVE d.cmd # "USOWR"
    <3>1. PICK k \in DOMAIN stack' : d = stack'[k]
      BY DEF Waiting
    <3>2. k + 1 \in DOMAIN stack /\ k + 1 # 1 /\ d = stack[k + 1]
      BY <1>2, <3>1
    <3> QED BY <1>2, <1>5, <3>2 DEF SingleWrite
  <2>2. \A s : AheadIn(Waiting', orphan', s) = <<>>
    <3> DEFINE V == Waiting'
               o == orphan'
    <3>1. \A d \in V : d.cmd # "USOWR"
      BY <2>1
    <3> HIDE DEF V, o
    <3>2. \A s : AheadIn(V, o, s) = <<>>
      BY <3>1, AheadNone
    <3> QED BY <3>2 DEF V, o
  <2>3. \A d \in Waiting : d.cmd = "USOWR" => d = c
    BY <1>3, <1>5, OneWaits
  <2>4. \A s : AheadIn(Waiting, orphan, s) = IF c.id = s /\ ~orphan THEN c.data ELSE <<>>
    <3> SUFFICES ASSUME NEW s
                 PROVE  AheadIn(Waiting, orphan, s) = IF c.id = s /\ ~orphan THEN c.data ELSE <<>>
      OBVIOUS
    <3>1. CASE orphan
      BY <3>1, AheadNone
    <3>2. CASE ~orphan
      BY <1>3, <1>5, <2>3, <3>2, AheadOne
    <3> QED BY <3>1, <3>2
  <2>5. QueuesNumbered'
    <3>1. CASE orphan
      <4>1. socketArray' = socketArray
        BY <1>1, <3>1
      <4> SUFFICES ASSUME NEW j \in DOMAIN socketArray, socketArray[j].id \notin lost, ~socketArray[j].freed
                   PROVE  Numbered(socketArray[j], <<>>)
        BY <1>1, <2>2, <4>1 DEF QueuesNumbered
      <4> QED BY <2>4, <3>1 DEF UnitInv, QueuesNumbered
    <3>2. CASE ~orphan
      <4>1. Has(c.id)
        BY <1>3, <1>5, <3>2 DEF UnitInv, PacketsOwned
      <4>2. n \in DOMAIN socketArray /\ socketArray[n].id = c.id /\ socketArray[n] \in GoodSocket
        BY <4>1, IndexFinds, Elements DEF n
      <4>3. socketArray' = [socketArray EXCEPT ![n] = r] /\ socketArray \in Seq(GoodSocket)
        BY <1>1, <1>5, <3>2, <4>1 DEF Shape
      <4>4. c.data \in Seq(Unit) /\ c.data # <<>>
        BY <1>2, <1>5 DEF GoodCommand, SentCommand
      <4>5. r.id = c.id /\ r.freed = socketArray[n].freed
        BY <4>2 DEF r, HandedOver, GoodSocket, Socket
      <4>6. /\ DOMAIN socketArray' = DOMAIN socketArray
            /\ \A j \in DOMAIN socketArray : socketArray'[j] = IF j = n THEN r ELSE socketArray[j]
        BY <4>2, <4>3, LenProperties
      <4> SUFFICES ASSUME NEW j \in DOMAIN socketArray, socketArray'[j].id \notin lost, ~socketArray'[j].freed
                   PROVE  Numbered(socketArray'[j], <<>>)
        BY <1>1, <2>2, <4>6 DEF QueuesNumbered
      <4>7. CASE j = n
        <5>1. socketArray'[j] = r /\ c.id \notin lost /\ ~socketArray[n].freed
          BY <4>5, <4>6, <4>7
        <5>2. Numbered(socketArray[n], c.data)
          BY <2>4, <3>2, <4>2, <5>1 DEF UnitInv, QueuesNumbered
        <5> DEFINE t == socketArray[n]
                   q == c.data
        <5>3. t \in GoodSocket /\ q \in Seq(Unit) /\ q # <<>> /\ Numbered(t, q)
          BY <4>2, <4>4, <5>2
        <5> HIDE DEF t, q
        <5>4. Numbered(HandedOver(t, Last(q)), <<>>)
          BY <5>3, NumberedHanded
        <5> QED BY <5>1, <5>4 DEF r, t, q
      <4>8. CASE j # n
        <5>1. socketArray'[j] = socketArray[j] /\ socketArray[j].id \notin lost /\ ~socketArray[j].freed
          BY <4>6, <4>8
        <5>2. socketArray[j].id # c.id
          BY <4>2, <4>8, <5>1 DEF SocketsAreOpen
        <5> QED BY <2>4, <5>1, <5>2 DEF UnitInv, QueuesNumbered
      <4> QED BY <4>7, <4>8
    <3> QED BY <3>1, <3>2
  <2> QED BY <2>1, <2>5 DEF UnitInv, PacketsOwned
<1> QED BY <1>4, <1>5

\* A new socket has nothing to say: a packet of its id belongs to one that is gone, or
\* to one whose close event was lost.
LEMMA CreateAnswerUnit ==
  ASSUME IInv, UnitInv, NEW s \in Id, CreateAnswer(s)
  PROVE  UnitInv'
<1> USE DEF IInv
<1> DEFINE g == GSMSocket(s)
<1>1. /\ s \notin modem
      /\ \/ Len(socketArray) < MAX_SOCKET_AMOUNT /\ socketArray' = Append(socketArray, g)
         \/ socketArray' = socketArray
      /\ lost' = lost /\ orphan' = orphan /\ stack' = stack
  BY DEF CreateAnswer, service, history
<1>2. CASE socketArray' = socketArray
  BY <1>1, <1>2, StackKept, UnitIfKept DEF Alike, WritesKept
<1>3. CASE socketArray' = Append(socketArray, g)
  <2>1. g.id = s /\ Numbered(g, <<>>)
    <3>1. g.id = s /\ g.out = <<>> /\ g.accepted = 0 /\ g.written = 0
      BY DEF GSMSocket
    <3>2. Len(<<>>) = 0 /\ Total(<<>>) = 0
      BY DEF Total
    <3>3. 0 % UnitMod = 0
      BY Units
    <3> HIDE DEF g
    <3> QED BY <3>1, <3>2, <3>3 DEF Numbered
  <2> HIDE DEF g
  <2>2. socketArray \in Seq(GoodSocket) /\ Len(socketArray) \in Nat /\ DOMAIN socketArray = 1 .. Len(socketArray)
    BY Elements DEF Shape
  <2>3. /\ DOMAIN socketArray' = 1 .. Len(socketArray) + 1
        /\ \A j \in 1 .. Len(socketArray) : socketArray'[j] = socketArray[j]
        /\ socketArray'[Len(socketArray) + 1] = g
    BY <1>3, <2>2
  <2>4. Waiting' = Waiting
    BY <1>1, StackKept
  <2>5. PacketsOwned'
    <3>1. \A t : Has(t) => Has(t)'
      BY <2>2, <2>3 DEF Has
    <3> QED BY <1>1, <2>4, <3>1 DEF UnitInv, PacketsOwned
  <2>6. QueuesNumbered'
    <3> SUFFICES ASSUME NEW j \in DOMAIN socketArray', socketArray'[j].id \notin lost, ~socketArray'[j].freed
                 PROVE  Numbered(socketArray'[j], AheadIn(Waiting, orphan, socketArray'[j].id))
      BY <1>1, <2>4 DEF QueuesNumbered
    <3>1. CASE j = Len(socketArray) + 1
      <4>1. socketArray'[j] = g /\ s \notin lost
        BY <2>1, <2>3, <3>1
      <4>2. ~Has(s)
        BY <1>1, <4>1 DEF Has, SocketsAreOpen
      <4>3. orphan \/ \A c \in Waiting : c.cmd = "USOWR" => c.id # s
        BY <4>2 DEF UnitInv, PacketsOwned
      <4>4. AheadIn(Waiting, orphan, s) = <<>>
        BY <4>3, AheadNone
      <4> QED BY <2>1, <4>1, <4>4
    <3>2. CASE j # Len(socketArray) + 1
      <4>1. j \in DOMAIN socketArray /\ socketArray'[j] = socketArray[j]
        BY <2>2, <2>3, <3>2
      <4> QED BY <4>1 DEF UnitInv, QueuesNumbered
    <3> QED BY <3>1, <3>2
  <2> QED BY <2>5, <2>6 DEF UnitInv
<1> QED BY <1>1, <1>2, <1>3

\* A command that is no write leaves the packets that wait alone.
LEMMA WritesKeptIf ==
  ASSUME Shape, NEW c \in CommandName \ {"USOWR"}, NEW s \in Id,
         stack' = stack \/ AddCommand(c, s) \/ stack' = Append(stack, Command(c, s))
           \/ stack' = <<Command(c, s)>> \o stack
  PROVE  WritesKept
<1> DEFINE d == Command(c, s)
<1>1. stack \in Seq(GoodCommand) /\ Len(stack) \in Nat /\ DOMAIN stack = 1 .. Len(stack)
  BY Elements DEF Shape
<1>0. d \in GoodCommand
  <2>1. <<>> \in Seq(Unit)
    OBVIOUS
  <2> QED BY <2>1 DEF Command, GoodCommand, SentCommand
<1>2. d.cmd # "USOWR"
  BY DEF Command
<1> HIDE DEF d
<1>3. CASE stack' = stack
  BY <1>3, StackKept DEF WritesKept
<1>4. CASE stack' = Append(stack, d)
  <2>1. /\ DOMAIN stack' = 1 .. Len(stack) + 1 /\ stack'[Len(stack) + 1] = d
        /\ \A k \in 1 .. Len(stack) : stack'[k] = stack[k]
    <3>1. d \in GoodCommand
      BY <1>0
    <3>2. /\ Append(stack, d) \in Seq(GoodCommand) /\ Len(Append(stack, d)) = Len(stack) + 1
          /\ \A k \in 1 .. Len(stack) : Append(stack, d)[k] = stack[k]
          /\ Append(stack, d)[Len(stack) + 1] = d
      BY <1>1, <3>1, AppendProperties
    <3>3. DOMAIN stack' = 1 .. Len(stack) + 1
      BY <1>4, <3>2, LenProperties
    <3> QED BY <1>4, <3>2, <3>3
  <2>2. \A e \in Waiting' : e \in Waiting \/ e = d
    BY <1>1, <2>1 DEF Waiting
  <2>3. \A e \in Waiting : e \in Waiting'
    BY <1>1, <2>1 DEF Waiting
  <2> QED BY <1>2, <2>2, <2>3 DEF WritesKept
<1>5. CASE stack' = <<d>> \o stack
  <2>1. /\ DOMAIN stack' = 1 .. 1 + Len(stack) /\ stack'[1] = d
        /\ \A k \in 2 .. Len(stack) + 1 : stack'[k] = stack[k - 1]
    <3>1. <<d>> \in Seq(GoodCommand) /\ Len(<<d>>) = 1 /\ <<d>>[1] = d
      BY <1>0
    <3>2. /\ stack' \in Seq(GoodCommand) /\ Len(stack') = 1 + Len(stack)
          /\ \A k \in 1 .. 1 + Len(stack) : stack'[k] = IF k <= 1 THEN <<d>>[k] ELSE stack[k - 1]
      BY <1>1, <1>5, <3>1, ConcatProperties
    <3>3. stack'[1] = d /\ \A k \in 2 .. Len(stack) + 1 : stack'[k] = stack[k - 1]
      BY <1>1, <3>1, <3>2
    <3>4. DOMAIN stack' = 1 .. 1 + Len(stack)
      BY <3>2, LenProperties
    <3> QED BY <3>3, <3>4
  <2>2. \A e \in Waiting' : e \in Waiting \/ e = d
    <3> SUFFICES ASSUME NEW k \in DOMAIN stack', k # 1 PROVE stack'[k] \in Waiting
      BY <2>1 DEF Waiting
    <3>1. k \in 2 .. Len(stack) + 1 /\ k - 1 \in DOMAIN stack
      BY <1>1, <2>1
    <3> QED BY <2>1, <3>1 DEF Waiting
  <2>3. \A e \in Waiting : e \in Waiting'
    <3> SUFFICES ASSUME NEW k \in DOMAIN stack PROVE stack[k] \in Waiting'
      BY DEF Waiting
    <3>1. k + 1 \in DOMAIN stack' /\ stack'[k + 1] = stack[k]
      <4>1. k + 1 \in 2 .. Len(stack) + 1 /\ (k + 1) - 1 = k /\ k + 1 \in 1 .. 1 + Len(stack)
        BY <1>1
      <4> QED BY <2>1, <4>1
    <3> QED BY <3>1 DEF Waiting
  <2> QED BY <1>2, <2>2, <2>3 DEF WritesKept
<1>6. AddCommand(c, s) => stack' = stack \/ stack' = Append(stack, d)
  BY DEF AddCommand, d
<1> QED BY <1>3, <1>4, <1>5, <1>6 DEF d

\* The steps that leave the sockets' packets alone.
LEMMA QuietUnit ==
  ASSUME IInv, UnitInv,
         \/ CreateSocket \/ BootCompletes \/ UNCHANGED vars
         \/ \E i \in DOMAIN socketArray : Close(i) \/ \E o \in ConnectOptions : Connect(i, o[1], o[2])
         \/ KeepAliveFinal
         \/ \E ok \in BOOLEAN : CreateFinal(ok) \/ ReadFinal(ok) \/ ConnectFinal(ok) \/ ChainFinal(ok)
         \/ \E s \in Id : ReadEvent(s) \/ \E ok \in BOOLEAN : ConnectEvent(s, ok)
  PROVE  UnitInv'
<1> USE DEF IInv
<1> SUFFICES /\ orphan' = orphan /\ lost' = lost
             /\ DOMAIN socketArray' = DOMAIN socketArray
             /\ \A i \in DOMAIN socketArray : Alike(socketArray'[i], socketArray[i])
             /\ WritesKept
  BY UnitIfKept
<1>0. 0 \in Id
  BY SocketsAssumption DEF Id
<1>1. CASE CreateSocket
  <2>1. "USOCR" \in CommandName \ {"USOWR"}
    BY DEF CommandName
  <2> QED BY <1>0, <1>1, <2>1, WritesKeptIf DEF CreateSocket, handler, history, Alike
<1>2. CASE BootCompletes \/ UNCHANGED vars
  <2>1. UNCHANGED <<socketArray, stack, lost, orphan>>
    BY <1>2 DEF BootCompletes, vars, handler, service, history
  <2> QED BY <2>1, StackKept DEF Alike, WritesKept
<1>3. ASSUME NEW i \in DOMAIN socketArray, Close(i)
      PROVE  /\ orphan' = orphan /\ lost' = lost
             /\ DOMAIN socketArray' = DOMAIN socketArray
             /\ \A j \in DOMAIN socketArray : Alike(socketArray'[j], socketArray[j])
             /\ WritesKept
  <2>1. "USOCL" \in CommandName \ {"USOWR"} /\ socketArray[i] \in Socket /\ socketArray \in Seq(GoodSocket)
    BY Elements DEF CommandName, GoodSocket, Shape
  <2> QED BY <1>3, <2>1, WritesKeptIf DEF Close, Alike, Socket
<1>4. ASSUME NEW i \in DOMAIN socketArray, NEW o \in ConnectOptions, Connect(i, o[1], o[2])
      PROVE  /\ orphan' = orphan /\ lost' = lost
             /\ DOMAIN socketArray' = DOMAIN socketArray
             /\ \A j \in DOMAIN socketArray : Alike(socketArray'[j], socketArray[j])
             /\ WritesKept
  <2> DEFINE c == IF o[1] THEN "USOSO" ELSE IF o[2] THEN "USOSEC" ELSE "USOCO"
  <2>1. c \in CommandName \ {"USOWR"} /\ socketArray[i] \in Socket /\ AddCommand(c, socketArray[i].id)
    BY <1>4, Elements DEF CommandName, GoodSocket, Connect
  <2> HIDE DEF c
  <2> QED BY <1>4, <2>1, WritesKeptIf DEF Connect, Alike, Socket
<1>5. CASE KeepAliveFinal
  <2>1. PICK s \in Id : AddCommand("USOSO keepidle", s)
    BY <1>5 DEF KeepAliveFinal
  <2>2. "USOSO keepidle" \in CommandName \ {"USOWR"}
    BY DEF CommandName
  <2> QED BY <1>5, <2>1, <2>2, WritesKeptIf DEF KeepAliveFinal, handler, Alike
<1>6. ASSUME NEW ok \in BOOLEAN, CreateFinal(ok) \/ ReadFinal(ok)
      PROVE  UNCHANGED <<socketArray, stack, lost, orphan>>
  BY <1>6 DEF CreateFinal, ReadFinal, handler, history
<1>7. ASSUME NEW ok \in BOOLEAN, ChainFinal(ok)
      PROVE  /\ UNCHANGED <<socketArray, lost, orphan>>
             /\ WritesKept
  <2> DEFINE c == IF pending.cmd # "USOSEC" /\ PeekSocket(pending.id).ssl THEN "USOSEC" ELSE "USOCO"
  <2>1. c \in CommandName \ {"USOWR"} /\ pending.id \in Id /\ (stack' = stack \/ AddCommand(c, pending.id))
    BY <1>7, OnTheLine DEF CommandName, ChainFinal
  <2> HIDE DEF c
  <2> QED BY <1>7, <2>1, WritesKeptIf DEF ChainFinal, handler
<1>8. ASSUME NEW s \in Id, NEW ok \in BOOLEAN, Confirm(s, ok)
      PROVE  /\ DOMAIN socketArray' = DOMAIN socketArray
             /\ \A j \in DOMAIN socketArray : Alike(socketArray'[j], socketArray[j])
  <2>1. CASE Has(s)
    <3> DEFINE n == Index(s)
               r == OnConnectionConfirm(socketArray[n], ok)
    <3>1. n \in DOMAIN socketArray /\ socketArray[n] \in Socket
      BY <2>1, IndexFinds, Elements DEF GoodSocket
    <3>2. socketArray' = [socketArray EXCEPT ![n] = r]
      BY <1>8, <2>1, <3>1 DEF Confirm
    <3>3. Alike(r, socketArray[n])
      BY <3>1 DEF OnConnectionConfirm, Alike, Socket
    <3> HIDE DEF n, r
    <3> QED BY <3>1, <3>2, <3>3 DEF Alike, Shape
  <2>2. CASE ~Has(s)
    BY <1>8, <2>2 DEF Confirm, Alike
  <2> QED BY <2>1, <2>2
<1>9. ASSUME NEW ok \in BOOLEAN, ConnectFinal(ok)
      PROVE  /\ orphan' = orphan /\ lost' = lost
             /\ DOMAIN socketArray' = DOMAIN socketArray
             /\ \A j \in DOMAIN socketArray : Alike(socketArray'[j], socketArray[j])
             /\ WritesKept
  <2> DEFINE s == pending.id
  <2>1. s \in Id /\ Confirm(s, ok) /\ UNCHANGED <<stack, lost, orphan>>
    BY <1>9, OnTheLine DEF ConnectFinal
  <2> HIDE DEF s
  <2> QED BY <1>8, <2>1, StackKept DEF WritesKept
<1>10. ASSUME NEW s \in Id, NEW ok \in BOOLEAN, ConnectEvent(s, ok)
       PROVE  /\ orphan' = orphan /\ lost' = lost
              /\ DOMAIN socketArray' = DOMAIN socketArray
              /\ \A j \in DOMAIN socketArray : Alike(socketArray'[j], socketArray[j])
              /\ WritesKept
  BY <1>8, <1>10, StackKept DEF ConnectEvent, service, WritesKept
<1>11. ASSUME NEW s \in Id, ReadEvent(s)
       PROVE  UNCHANGED <<socketArray, lost, orphan>> /\ WritesKept
  <2>1. "USORD" \in CommandName \ {"USOWR"}
    BY DEF CommandName
  <2> QED BY <1>11, <2>1, WritesKeptIf DEF ReadEvent, handler, history
<1>12. ASSUME UNCHANGED <<socketArray, lost, orphan>>, stack' = stack \/ WritesKept
       PROVE  /\ orphan' = orphan /\ lost' = lost
              /\ DOMAIN socketArray' = DOMAIN socketArray
              /\ \A j \in DOMAIN socketArray : Alike(socketArray'[j], socketArray[j])
              /\ WritesKept
  BY <1>12, StackKept DEF Alike, WritesKept
<1> QED BY <1>1, <1>2, <1>3, <1>4, <1>5, <1>6, <1>7, <1>9, <1>10, <1>11, <1>12

\* A line that is taken for an answer, or ends its command with the socket.
LEMMA DataLineUnit ==
  ASSUME IInv, UnitInv, NEW missed \in SUBSET Id, DataLine(missed), stack' = stack
  PROVE  UnitInv'
<1> USE DEF IInv
<1>1. CASE pending.cmd = "USOCO"
  <2> DEFINE s == pending.id
  <2>1. s \in Id /\ Destroy(s, missed)
    BY <1>1, OnTheLine DEF DataLine
  <2> HIDE DEF s
  <2> QED BY <2>1, UnitAfterDestroy
<1>2. CASE pending.cmd # "USOCO"
  <2>1. lost \subseteq lost' /\ UNCHANGED <<socketArray, orphan>>
    BY <1>2 DEF DataLine
  <2> QED BY <2>1, StackKept, UnitIfKept DEF Alike, WritesKept
<1> QED BY <1>1, <1>2

\* The steps that end a socket.
LEMMA EndUnit ==
  ASSUME IInv, UnitInv,
         \/ \E i \in DOMAIN socketArray : CloseTimerCompletes(i)
         \/ \E ok \in BOOLEAN : CloseFinal(ok)
         \/ \E s \in Id : CloseEvent(s)
         \/ OtherLine
  PROVE  UnitInv'
<1> USE DEF IInv
<1>0. {} \in SUBSET Id
  OBVIOUS
<1>1. ASSUME NEW s \in Id, Destroy(s, {}), stack' = stack PROVE UnitInv'
  BY <1>0, <1>1, UnitAfterDestroy
<1>2. ASSUME NEW i \in DOMAIN socketArray, CloseTimerCompletes(i) PROVE UnitInv'
  <2> DEFINE s == socketArray[i].id
  <2>1. s \in Id /\ Destroy(s, {}) /\ stack' = stack
    BY <1>2, Elements DEF GoodSocket, Socket, CloseTimerCompletes, DestroySocket, service
  <2> HIDE DEF s
  <2> QED BY <1>1, <2>1
<1>3. ASSUME NEW ok \in BOOLEAN, CloseFinal(ok) PROVE UnitInv'
  <2> DEFINE s == pending.id
  <2>1. s \in Id /\ Destroy(s, {}) /\ stack' = stack
    BY <1>3, OnTheLine DEF CloseFinal, DestroySocket
  <2> HIDE DEF s
  <2> QED BY <1>1, <2>1
<1>4. ASSUME NEW s \in Id, CloseEvent(s) PROVE UnitInv'
  <2>1. stack' = stack
    BY <1>4 DEF CloseEvent, service
  <2>2. CASE DestroySocket(s)
    BY <1>1, <2>1, <2>2 DEF DestroySocket
  <2>3. CASE UNCHANGED <<socketArray, history>>
    BY <2>1, <2>3, StackKept, UnitIfKept DEF history, Alike, WritesKept
  <2>4. CASE DataLine(IF Has(s) THEN {s} ELSE {})
    <3> DEFINE missed == IF Has(s) THEN {s} ELSE {}
    <3>1. missed \in SUBSET Id /\ DataLine(missed)
      BY <2>4
    <3> HIDE DEF missed
    <3> QED BY <2>1, <3>1, DataLineUnit
  <2> QED BY <1>4, <2>2, <2>3, <2>4 DEF CloseEvent
<1>5. ASSUME OtherLine PROVE UnitInv'
  BY <1>0, <1>5, DataLineUnit DEF OtherLine, service
<1> QED BY <1>2, <1>3, <1>4, <1>5

\* Nothing is open and nothing waits.
LEMMA EmptyUnit ==
  /\ Init => UnitInv
  /\ StartModem => UnitInv'
<1>1. DOMAIN <<>> = {}
  OBVIOUS
<1>2. Init => UnitInv
  BY <1>1 DEF Init, UnitInv, PacketsOwned, QueuesNumbered, Waiting
<1>3. StartModem => UnitInv'
  BY <1>1 DEF StartModem, UnitInv, PacketsOwned, QueuesNumbered, Waiting
<1> QED BY <1>2, <1>3

LEMMA NextUnit ==
  ASSUME IInv, UnitInv, [Next]_vars
  PROVE  UnitInv'
<1>1. CASE Users
  BY <1>1, QuietUnit, SendDataUnit DEF Users
<1>2. CASE LoopSend
  BY <1>2, LoopSendUnit
<1>3. CASE Modem
  BY <1>3, QuietUnit, WriteFinalUnit, CreateAnswerUnit, EndUnit DEF Modem, Finals
<1>4. CASE \E s \in Id : TimerOf(s)
  BY <1>4, EndUnit DEF TimerOf
<1>5. CASE StartModem
  BY <1>5, EmptyUnit
<1>6. CASE BootCompletes \/ UNCHANGED vars
  BY <1>6, QuietUnit
<1> QED BY <1>1, <1>2, <1>3, <1>4, <1>5, <1>6 DEF Next

\* All that waits of a socket is less than what the numbers tell apart.
LEMMA FewWait ==
  ASSUME NEW r \in GoodSocket, NEW n \in 0 .. PacketSize
  PROVE  n + Total(r.out) \in 0 .. UnitMod - 1
<1> DEFINE k == Len(r.out)
           x == MaxPackets * PacketSize
           y == (MaxPackets + 1) * PacketSize
<1>1. PacketSize \in Nat \ {0} /\ MaxPackets \in Nat \ {0} /\ UnitMod \in Nat /\ UnitMod > y
  BY SocketsAssumption
<1>2. y = x + PacketSize /\ x \in Nat
  BY <1>1
<1>3. Total(r.out) \in 0 .. x
  <2>1. CASE k = 0
    <3>1. Total(r.out) = 0
      BY <2>1, OutIs DEF Total
    <3> HIDE DEF x
    <3> QED BY <1>2, <3>1
  <2>2. CASE k # 0
    <3>1. k \in 1 .. MaxPackets /\ k \in Nat \ {0}
      BY <1>1, <2>2, OutIs
    <3>2. Off(k) \in Nat /\ Off(k) + PacketSize <= x
      BY <3>1, Offsets
    <3>3. Total(r.out) = Off(k) + Len(r.out[k]) /\ Len(r.out[k]) \in 1 .. PacketSize
      <4>1. k \in 1 .. k
        BY <3>1
      <4> QED BY <2>2, <4>1, OutIs DEF Total
    <3> HIDE DEF k, x
    <3> QED BY <1>1, <1>2, <3>2, <3>3
  <2> QED BY <2>1, <2>2
<1> HIDE DEF x, y
<1> QED BY <1>1, <1>2, <1>3

LEMMA UnitInvIsOrder ==
  ASSUME IInv, UnitInv
  PROVE  UnitsInOrder
<1> USE DEF IInv
<1>1. TypeOK
  BY ShapeIsTyped
<1> SUFFICES ASSUME NEW i \in DOMAIN socketArray, socketArray[i].id \notin lost, ~socketArray[i].freed
             PROVE  LET r == socketArray[i]
                        units == Ahead(r.id) \o FlattenSeq(r.out)
                    IN /\ Len(units) = (r.accepted - r.written) % UnitMod
                       /\ \A k \in DOMAIN units : units[k] = (r.written + k) % UnitMod
  BY <1>1, Zenon DEF UnitsInOrder
<1> DEFINE r == socketArray[i]
           q == Ahead(r.id)
           units == q \o FlattenSeq(r.out)
           w == r.written
           n == Len(q) + Total(r.out)
<1>2. r \in GoodSocket /\ q \in Seq(Unit) /\ Len(q) \in 0 .. PacketSize
  BY Elements, OneWaits DEF UnitInv
<1>3. Numbered(r, q)
  BY AheadIsIn DEF UnitInv, QueuesNumbered
<1> HIDE DEF r, q
<1>4. Total(r.out) \in Nat /\ units = Run(w, n)
  BY <1>2, <1>3, NumberedIsRun
<1>5. n \in 0 .. UnitMod - 1 /\ n \in Nat /\ w \in Int /\ UnitMod \in Nat \ {0}
  <2>1. n \in 0 .. UnitMod - 1
    BY <1>2, FewWait
  <2> HIDE DEF n
  <2> QED BY <1>2, <2>1, OutIs, Units
<1>6. r.accepted = (w + n) % UnitMod
  <2>1. r.accepted = (w + Len(q) + Total(r.out)) % UnitMod
    BY <1>3 DEF Numbered
  <2>2. w + Len(q) + Total(r.out) = w + n
    BY <1>2, <1>4, <1>5
  <2> QED BY <2>1, <2>2
<1> HIDE DEF units, w, n
<1>7. Len(units) = n /\ DOMAIN units = 1 .. n /\ \A k \in 1 .. n : units[k] = (w + k) % UnitMod
  <2>1. Run(w, n) \in Seq(Unit) /\ Len(Run(w, n)) = n /\ \A k \in 1 .. n : Run(w, n)[k] = (w + k) % UnitMod
    BY <1>5, RunIs
  <2> QED BY <1>4, <2>1, LenProperties
<1>8. (r.accepted - w) % UnitMod = n
  BY <1>5, <1>6, ModFar
<1> QED BY <1>7, <1>8 DEF units, w, r, q

-----------------------------------------------------------------------------
(* The theorems                                                            *)

\* Every reachable state of the sockets is well typed, within their capacities.
THEOREM SocketTypes == Spec => []TypeOK
<1>1. IInv => TypeOK
  BY ShapeIsTyped DEF IInv
<1> QED BY <1>1, InvHolds, PTL

\* At most one packet of all sockets is on its way, and while one is,
\* pendingSockTransmission says so (Send, SendNextAvailableData).
THEOREM WritesAreSingle == Spec => []OneWriteAtATime
<1>1. IInv => OneWriteAtATime
  BY WriteIsSingle DEF IInv
<1> QED BY <1>1, InvHolds, PTL

\* The sockets of the handler are sockets of the modem, each once, unless a close
\* event was taken for an answer (DestroySocket, OnGSMEvent).
THEOREM SocketsStayOpen == Spec => []SocketsAreOpen
<1>1. IInv => SocketsAreOpen
  BY DEF IInv
<1> QED BY <1>1, InvHolds, PTL

\* A connecting socket has the next command of its chain on the way, unless one was
\* refused (OnKeepAliveConfirm, OnSSLConfirm).
THEOREM ChainsGoOn == Spec => []ConnectingGoesOn
<1>1. IInv => ConnectingGoesOn
  BY DEF IInv
<1> QED BY <1>1, InvHolds, PTL

\* What a socket accepted and has not handed to the modem waits in order, each unit
\* once (Append and UnshiftFirst of ByteStackArray, SendData, Send,
\* SendNextAvailableData).
THEOREM UnitsKeepOrder == Spec => []UnitsInOrder
<1>1. Init => UnitInv
  BY EmptyUnit
<1>2. IInv /\ UnitInv /\ [Next]_vars => UnitInv'
  BY NextUnit
<1>3. IInv /\ UnitInv => UnitsInOrder
  BY UnitInvIsOrder
<1> QED BY <1>1, <1>2, <1>3, InvHolds, PTL DEF Spec

=============================================================================
