# Verification of arduino-aux-heater

The program runs on an Arduino MKR GSM 1400 in a car. A text message or a key
pressed during a call switches the auxiliary heater on or off through a serial
line; the battery is watched; a Bluetooth module and the steering controls hang
on the same main loop. This directory models the program in TLA+, checks the
models with TLC on small instances and proves theorems about them with TLAPS.
All paths below are relative to the repository.

## 1. Inventory

Everything runs in one thread. `loop()` (`src/main.cpp`) calls `Timer::Loop`,
`AudiControls::Loop`, `BluetoothSerialHandler::Loop` and `TimeManager::LateLoop`
for ever. `gsmSerialHandler.Loop()` is commented out at this commit (main.cpp:116),
and its start state `LOCKED` replaces a commented `INITIALIZATION`
(UbloxGSMHandler.h:43); the handler and the library it came from are still built,
and are modelled as they behave when the loop calls them. What is concurrent is therefore the order of
callbacks, the clock, the bytes that arrive on serial lines, and two pins that
interrupts toggle. Components know each other through callbacks
(`ITimerCallback`, `SMSCallback`, `DTMFCallback`, `VoltageStateCallback`, the
`IGSM...Handler` interfaces) and through timer *ids*, small numbers that are
given out again as soon as they are free.

| Component | State | Operations | What makes it correct | Hard because |
|---|---|---|---|---|
| `Timer` (lib/arduino-helpers) | list of nodes ordered by id, `frameTS`, the two pointers of `Loop` | `Start`, `Stop`, `StopAll`, `Loop` | ids distinct and smallest; valid pointers; one completion per timer, when it is over | callbacks change the list under the walk; the clock wraps |
| `AuxHeaterSerial` (src) | command on the line, waiting command, attempts, callback, `flowTimer` | `LaunchHeater`, `StopHeater`, timer | three frames of one command per run; the last request decides; its callback once | requests between any two frames; a call that blocks |
| `main.cpp` | wiring | `handleSMSCommand`, `handleDtmfCommand`, `handleLevelChanged` | old texts are ignored | age from two clocks |
| `BatteryMonitor`, meters (src, lib) | level, count of agreeing samples | one sample a second | no spike counts; no level skipped; every change told | the count belongs to a level and to a run of samples |
| Modem engine: `GSMSerialModem`, `BaseGSMHandler`, `BaseSerialHandler`, `SerialCharResponseHandler`, `ModemCommandStack` (lib) | pending command, command stack, boot state, buffer, three timer ids | `StartModem`, `AddCommand`, `ForceCommand`, `Loop`, lines, timeouts | one command at a time, each ends; boot before work; no timer lost or confused | silent, late, chatty modem; ids used again |
| `GSMNetworkHandler`, `GSMHandler` (lib) | init state, SIM, registration, half a text, poll timer | unlock and configuration chain, poll, events | the chain is one command at a time and ends; ready only when configured; one poll; a text goes with its sender | errors inside the chain, late answers, events in between |
| `GSMCallHandler` (lib) | call state, calling number | events, `+CLCC` | the number belongs to the call and is freed once | reboot in a call; events taken for answers |
| `GPRSHandler` (lib) | APN state, check timer, address | activation chain, poll, deactivation | one step at a time; ends ACTIVE or DEACTIVATED; ACTIVE means up | errors and deactivation inside the chain, an event that crosses the poll |
| Sockets: `GSMSocketHandler`, `GSMSocket`, `SocketArray`, `ByteStackArray` (lib) | open sockets with their state, close timer and queued packets; whose packet is being written | create, connect chain, send, read, close, reboot | each unit once and in order, one write at a time, every socket served, the handler's sockets are the modem's | commands refused, events taken for answers, ids used again, round robin over sockets that close |
| `GSMSerialHandler`, `UbloxGSMHandler` (src/gsm) | request in flight, text and call state, call and flow timers, senders to call, start-up flow | answers, events, timers, `NotifyByCallHangUp`, `SendSMSMessage` | set up step by step; calls ring out; only friends are answered | every write overwrites the request in flight, every line stops the timeout |
| Phone book: `PhonebookReader`, `PhoneEntryArray` (src/gsm), `SplitString` (lib) | up to three phones, ordered | `HandleEntriy`, lookup | entries read as stored; the first are kept | splitting in place, 8-bit sort key, limit |
| Arrays (lib) | `StackArray` and relatives | append, insert, unshift | as sequences with a limit | boundaries |
| `BluetoothSerialHandler` (src) | connected flag, `statsTimer` | `Loop`, `SendStat`, timer | one status goes to one user | an interrupt changes the pin between two reads |
| `TimeManager` (lib) | microsecond clock, its base, the start | `LateLoop`, `UpdateSystemTime` | no part of a second lost or counted twice | wrap, updates between two rounds |
| `Button`, `AudiControls` | click counter, state pin | interrupt, timer | the pin is followed | interrupt against loop |
| `SerialTimerResponseHandler` (lib) | buffer, timer | message after a silence | unused by this program | |
| BLE, `SimcomGSMHandler`, `TemperatureHandler`, `DebugHandler`, modem command classes | none or I/O | | other board, or no state | |

What of this a test hardly reaches is listed, at its line, under `hazards` in
`PROJECT.json`, with the properties that cover it, or a note saying why none does.
Beside these there are, without a property: the 256th timer gets id 0 (Timer.cpp:35);
the age of a text is the difference of two clocks (main.cpp:197); `Append`'s refusal by
a full socket array is ignored (GSMSocketHandler.cpp:46); `OnModemReboot` clears
`pendingSockTransmission` before it tells users, who may set it again (line 357); a call
back that finds the handler busy is put off until another text (GSMSerialHandler.cpp:349);
and what section 6 names.

## 2. Plan

Done, in this order:

1. `TimerList`, `TimerService` - what everything else runs on; the refinement.
2. `AuxHeater` - the purpose of the program. 3. `BatteryMonitor`.
4. `GsmModem` - the engine below all of lib/async-GSM.
5. `GsmSockets`, `GsmNetwork` (with calls), `Gprs`: each over an abstract command
   service, "a command is answered by data lines and one final result, or refused".
6. `GsmPhone` - the program's own phone. 7. `PhoneBook`. 8. `MainLoop` - the clock
   and the Bluetooth link.
9. Proofs about 1, 2, 3, 8; then about `GsmNetwork`, `Gprs`, `GsmPhone`, `GsmModem`,
   `GsmSockets`, `PhoneBook`, and that `TimerList` implements `TimerService`.

Left, in order of worth:

1. The command service as a module of its own, which `GsmModem` implements and
   `GsmNetwork`, `Gprs` and `GsmSockets` use. Today the three state its
   consequences by themselves, including those that a cleaner service would not
   have: an answer that belongs to an earlier command, an event taken for data.
2. The composition of `GsmPhone` with `AuxHeater`; today `NotifyByCallHangUp`
   comes at any time after a text, which allows more than the heater does.
3. `SerialCharResponseHandler` symbol by symbol, with the overflow of its buffer.

## 3. Modules and the code

**TimerList** is `Timer.cpp` at pointer level. `live`, `first`, `next`, `id`,
`owner`, `remain` are the heap; `cur`, `prev`, `freed`, `delta` are the locals of
`Loop`. `Loop` is split where something can come in between: `LoopBegin`, then for
each node `Pass` or `Expire`; `Expire` unlinks the node and starts its callback,
during which `Start`, `Stop` and `StopAll` may run; `CallbackReturn` mends `pPrev`
and deletes. `StopAll` removes one node per step, and nothing else runs meanwhile.
`left` is a history variable: the ticks that really remain since the frame of
`Start` began. Two constants say what callbacks do: `StartsPerCallback` and
`StopsHeld` (may a callback stop a node the walk points at?). The run uses 1 and
FALSE, which is what the program's own callbacks mostly do. With `StopsHeld` TLC
reports `CursorOK`: `pNode`, taken before the callback, is stopped by it and read
after it. With `StartsPerCallback = 2` it reports `NeverEarly`: the second timer can
land behind the walk and pay for a frame that was over before it existed; a callback
that restarts the modem starts two.

**TimerService** is what callers rely on: a set of running timers and the one whose
callback runs. `TimerList` instantiates it with a mapping (`RunningTimers`,
`Completing`) and is checked to implement it.

**AuxHeater** is `AuxHeaterSerial.cpp` with `handleSMSCommand` and
`handleDtmfCommand`. `HandleCMD` is `Accept` (free line) or `Enqueue` (busy line);
`Transmit` is `LaunchCMD` or `StopCMD`, time they block included; `HandleResult` and
`OnTimerComplete` as in the code. `armed`, `remain` and `since` are `flowTimer` with
the frame accounting of `TimerList`. `wire`, `gap`, `asked`, `told` are histories.

**BatteryMonitor** has one action, a completed `measureTimer`, with the three
branches of `OnVoltageMeasured` (`AtTheEnd`, `AtNormal`, `OnTheWayDown`) and
`HandleAttempt`. `CHARGE_LEVEL` is 4 as in the enum, so `GetNextState` is the
subtraction of the code.

**GsmModem** is the modem engine. `LoopRead` is `SerialCharResponseHandler::Loop` up
to one line, with everything that line makes happen (`OnLine`, `OnModemResponse`,
the boot's three states); `LoopTail` is the rest of `GSMSerialModem::Loop` and
`BaseGSMHandler::Loop`. They are two actions because callbacks of the first may add
commands or restart the modem before the second runs, and because bytes may arrive.
Timers are kept by id: `Forget` is the chain of `OnTimerStop`, the three
`...TimesOut`/`ConnectionFails` actions the chain of `OnTimerComplete`, in the order
of the classes. Other components are `OtherStarts` and `OtherEnds`, which is what
makes a stale id harmful. A line is one of `OK`, `ERROR` (also ABORTED and
overflow), `empty` (also the echo), `data`; `part` is a line that has not ended.

**GsmSockets** is `lib/async-GSM/src/socket` with the packets of `ByteStackArray`.
Below it is an abstract command service: `stack` and `pending` are
`BaseGSMHandler::commandStack` and `pendingCMD`, a command ends in one final result
(`Final`), and a line that comes while one is pending is an answer to it, even if
the modem meant an event (`DataLine`). `CreateFinal` to `CloseFinal` are the branches
of `GSMSocketHandler::OnGSMResponse`; `ChainFinal` includes `OnKeepAliveConfirm` and
`OnSSLConfirm` of `GSMSocket`. `CloseEvent`, `ConnectEvent` and `ReadEvent` are the
branches of `OnGSMEvent`. Users' calls (`CreateSocket`, `Connect`, `Close`,
`SendData`) are steps of their own: each callback is the last thing its handler does,
so a call made in it is a call made after it. The exception is `OnModemReboot`, which
goes on destroying sockets after each callback: `StartModem` has that case.
`modem` is the set of ids open in the modem. `lost`, `refused` and `orphan` are
histories: ids whose close event was taken for an answer, sockets in the middle of
the connect chain whose next command was refused, and whether the packet in the
stack outlived its socket; `accepted` and `written` of a socket number its data.

**GsmNetwork** is `GSMNetworkHandler` with its base `GSMCallHandler`. `Connect`,
`CheckAnswer`, `UnlockAnswer` and `SettingAnswer` are the unlocking and the nine
settings; `FetchTime` and `OnTimerComplete` the poll every 20 seconds; `RegEvent`,
`TextHeader`, `TextLine`, `CallEvent`, `CallData` the events. `polls` counts timers
that run, `delayedRequest` says whether the field holds one: two timers with one
field is what can go wrong. `chain` and `acked` are histories of the configuration.
`lost` names what the handler *cannot* know: the end of a call or a text that came
while a command was pending and was taken for data of its answer, an answer of a
command that timed out taken for that of the next, a call the modem's restart cut
off. A property says "unless that was lost", never less. What the registration is
(roaming, denied) and the state of the call, which the handler stores and tells, is
left out; only whether the registration counts as connected is kept. `wrong`
collects what must not happen (a text with another's sender, a number of another
call, a second `free`) at the step where it happens.

**Gprs** is `GPRSHandler`: `ConfigAnswer`, `ControlAnswer`, `StatusAnswer`,
`IpAnswer`, `GattAnswer` are the branches of `OnGSMResponse`, `StatusData` and
`IpData` its data, `DeactivatedEvent` is `OnGSMEvent`, `OnTimerComplete` the poll.
`profile` is the modem's side. The third field of a status line that has two is read
uninitialised (`EventTaken` gives any outcome). `lost` is since the handler was idle
last: `refused`, `silent`, `crossed`.

**GsmPhone** is `GSMSerialHandler` and `UbloxGSMHandler`. `FlowOK` and `FlowError`
are the set-up; `Write` is `WriteGsmSerial`, which writes over what is pending;
`NoWrite` a line that only stops the timeout; `Swallows` any line that is taken for
the prompt of a text. `DialCMD`, `UpdateCallState`, `OnCallTimer`,
`NotifyByCallHangUp` are the calls. `modem.cmds` are the commands the modem took and
has not answered: as the handler knows an answer only by the state it is in, they may
be several, and `lost` names the answers that went to another. The reader of the
phone book is `book`, one Boolean here: `PhoneBook` has what is behind it. Texts of
several lines are one; HOLD and WAITING are left out, as the code does nothing then.

**PhoneBook** is `SplitString` with its pointers as positions (`Skip`, `Separate`,
`Return`: one symbol a step, in place), `ShiftQuotations`, and `HandleEntriy` with
`PhoneEntryArray::Append`. `SplitIsFields` compares with `Parts`, a definition by the
number of quotation marks before a comma that walks nowhere.

**MainLoop** is what `loop()` drives besides: `LateLoop`, `UpdateSystemTime`
(`SetTime`, from the modem's answer) and `SecondsSinceUpdate` of `TimeManager`;
`Look` and `Take`, the two reads of the state pin in `BluetoothSerialHandler::Loop`
with the line that is read after them; `SendStat` and its timer; and `BtState`, the
interrupt of `AudiControls`, between any two of them. `elapsed`, `frame`, `setTo`,
`age`, `client`, `asker`, `given`, `missed` are histories. `Timer::Loop` is taken by
what `TimerService` promises.

## 4. Runs

| Run | Question | Bounds | States |
|---|---|---|---|
| `timer` | list, pointers, ids, no early completion; refinement of `TimerService`; every timer ends | 3 nodes, ids to 4, 2 callers, durations 1 and 2, clock wraps at 3 | 171,882 |
| `aux_line` | the heater's line: runs, callbacks, pauses; a waiting command gets the line | 3 attempts, pauses 4 and 3 ticks, blocking 7, frames up to 2 ticks | 248 |
| `battery` | no level on a spike; a steady voltage is found | 13 voltages on both sides of each threshold, 3 currents | 22,739 |
| `gsm_modem` | timers by id, half lines, stack, boot; the boot ends | 2 commands, stack of 2, 4 timer ids, 1 foreign timer, 1 piece waiting, 2 calls of `StartModem` | 402,048 |
| `gsm_socket` | data in order, the connect chain, the modem's sockets, lost close events | 1 socket, 2 packets of 2 units, stack of 2, with and without keep-alive and SSL, 1 lost close event | 120,037 |
| `gsm_sockets` | one write at a time, round robin | 2 sockets, 1 packet of 1 unit each, stack of 1, plain connects, no close event lost | 79,558 |
| `gsm_refused_write` (violation) | queued packets live | same | |
| `gsm_network` | configuration, poll, texts, calls | stack of 3, 1 foreign command at a time | 1.74 million |
| `gprs` | activation, poll, deactivation, and that they end | stack of 2, 1 foreign command at a time, with all three texts | 110,858 |
| `phone` | set-up, calls, texts, and what an answer is taken for | both starts, 1 sender waiting, 2 commands unanswered | 3.21 million |
| `phone_book` | splitting, entries, the limit | lines to 5 symbols of 3 kinds, arrays of 0 to 3, both options, 5 names, 4 entries read, 3 kept, sort key modulo 4 | 34,316 |
| `main_loop` | clock, link, status | a second of 3 ticks, `micros()` wraps at 8, rounds to 4 ticks, 13 ticks, 2 updates, 2 users | 974,395 |

*Why the bounds are enough.* Three nodes give a walk a head, a middle, a last node
and one that is freed; four ids leave a gap; the clock wraps within every
behaviour. The heater's constants keep the order of the real ones (LAUNCH's
pause longer than STOP's, the blocking longer than both, a frame shorter). The
battery's voltages include each threshold and a neighbour of it, and currents that
carry a voltage over one. In the modem, one foreign timer is enough to own an id
another lost, and two starts restart it in every state; one piece waits at a time,
but the next may come between `LoopRead` and `LoopTail`, so that a line behind a line
and a part before a line happen. For sockets the two runs divide the work: packets
that fill up and the chain of commands concern one socket, turns concern two; a stack
of one is full as soon as any command waits, so refusals happen everywhere.
`UnitMod` exceeds the units that can wait, so a unit lost or repeated changes the
numbers. In `gsm_network` and `gprs` a chain needs one place, a foreign command another, and
in the former the poll or the question for a number the third, so every step can be
refused and none has to be. In `phone` a second unanswered command is what an
answer can be mistaken for; a third adds no new pair. Five symbols hold a quoted
comma with a part on each side, and arrays of 0 to 3 are too small, exact and too
large for them; numbers 1 and 5 are equal modulo 4, as 1 and 257 are in 8 bits. In
`main_loop` a second does not divide the range of `micros()`, as it does not in 32
bits, and the run is longer than the range.

*Violation.* `gsm_refused_write`: `Send` leaves the packet of a refused write in the
queue, and `AddCommand` deletes it with the command; the model only records that
(`freed`), as nothing the code does afterwards with freed memory is worth modelling,
and `UnitsInOrder` leaves such a socket out. The comment it contradicts is quoted
under `findings`.

*What the code does that no line of the repository rules out.* TLC showed each of
these while the properties were stated, and the exception each needs is in the
property and no wider:

- A callback that stops the node after it leaves `Loop` with a dead pointer, and one
  that starts two timers lets the second complete early (see **TimerList**).
- `LaunchCMD` blocks 359 ms inside the frame that is charged to its own 162 ms timer:
  the pause after LAUNCH may be missing. `StopPauseKept` is stated for STOP.
- An empty line or an echo stops the response timer of a command and does not start
  it again: a modem that then stays silent holds the command for ever.
- A packet profile's status answer that is an event makes the handler ACTIVE with a
  profile that is down (`crossed`).
- An error or a timeout in the set-up after the SIM goes on to READY without the
  steps that are left; every line of the modem, an error too, may stand for the
  prompt of a text.
- DISCONNECT does not stop the call timer: the answer to a call that is over goes to
  the next one.
- A user who leaves between the two reads of the pin, or who leaves and is followed by
  another between two rounds of the loop, is not noticed, and the rest of the status
  goes to the other. Each half of `Unseen` is needed: TLC refutes
  `OneClientPerChain` without it.
- Each update of the clock may cost the online time a second less a tick and a round
  of the loop, as `launchTimeStamp` moves by the difference to a `currentTimeStamp`
  that `LateLoop` has not brought up to date.

*Fairness.* The main loop calls `Timer::Loop` and the handlers' `Loop` for ever and
every callback returns: weak fairness of the loop's actions. The hardware clock
runs: weak fairness of `Tick`. In `TimerList` both are strong, because a `StopAll`
keeps them waiting while it lasts and may come again and again between two loops. In
`GsmModem` the completion of a timer needs strong fairness, because `Timer::Loop` and
`Loop` take turns and neither keeps the other's action enabled all the time. Users, the modem and other components need do nothing, so none of
their actions is fair, with the exceptions that follow. In `BatteryMonitor` each
completion starts the timer again. In `GsmSockets` every command ends (weak fairness
of `Finals`): this holds because commands time out, as long as the modem does not
send the echo or empty line named above. Reads go before all else in the stack, so
`EverySocketIsServed` is stated for a peer that is quiet in the end, and while
transmission is not stalled by a failed write. In `Gprs` commands end for the same
reason; a profile that rises comes up, and a poll that is made again and again is
answered with its data some time: without these two the poll goes on for ever, which
is what the code does with a modem that never activates. A step on top of the stack
again and again is sent some time: other handlers' forced commands do not always come
first, which the code leaves to chance.

*Mutants.* Every property of a passing run has an operator in its module, marked
*Mutant*, that differs from the modelled definition as a plausible bug would;
replacing the definition by it makes TLC report that property.

## 5. Theorems

TLC checks the instances above; these hold for every value of the constants that
meets the module's `ASSUME`.

*TimerListProofs.* `ListInv` = type, `ListShape`, every node but the head has a
predecessor (`PredExists`), and which locals are in use in which phase (`PhaseInv`).
The list is described without recursion: ids ascend strictly, so a node's neighbours
are determined by ids, and each operation changes one neighbourhood. `PredExists` is
needed because `Remove` goes through the predecessor. `SafeInv` adds the pointers.
- `TypeCorrect`, `ListShapeHolds`, `CursorSafe` (assumes `~StopsHeld`);
- `NeverEarlyHolds` (assumes also `StartsPerCallback <= 1`): the stronger invariant
  relates `remain`, `delta`, `left` and the position of the walk;
- `ListServes` (`ServiceSpec`; the same two assumptions): each step of the list is a
  step of `TimerService` or changes nothing in it. `Start` needs `NoneFreeBefore`: up
  to the first gap all ids are in use, by the least id that is not (`SmallestOf`, from
  the well-foundedness of `<`: the induction of the walk without an induction theorem).
  `Expire` needs the invariant of `NeverEarlyHolds`, for "when its time is over".

*AuxHeaterProofs.* The invariant is `TypeOK`, `LineOwnsTimer`, `OneCommandPerRun`,
`LastRequestDecides` and a bound of `cmdAttempt`, preserved one lemma per handler.
- `LineInvariant`, `RunsComplete` (`RunsAreComplete`), `ToldOnce`
  (`ToldOnceAtTheEnd`);
- `StopPause` (`StopPauseKept`), from `PauseInv`: during a STOP, the ticks since the
  last frame and what `flowTimer` still waits make up the promised pause, and a free
  line is never more than `MaxFrame` ticks into a frame.

*StandaloneProofs, the loop.* `ClockInv` says what holds between two calls of `LateLoop`:
the ticks since the last second that was counted, `Lag`, are at most a second less one tick and
the round so far, so that, by the assumption that a second and a round fit into the
range of `micros()`, the 32-bit difference is the true one; `age` is the counted
seconds and `Lag`; and the time since the start is between that and that with what
updates lost. Without the bound of `Lag` by `frame` a tick could wrap it. `ChainInv`
says that while a status runs and no change went unseen, its user is the one
connected, and that `Take` will read what `Look` read. The facts about `%` and `\div`
for an unknown modulus are the lemmas at the top.
- `UtcHolds` (`UtcFollows`), `OnlineHolds` (`OnlineIsElapsed`), `OneClientHolds`
  (`OneClientPerChain`).

*StandaloneProofs, the battery watch.* The module extends the loop, the battery watch
and the phone book, which share nothing: `Init`, `Next`, `Spec` and `TypeOK` of the
latter two are prefixed `BM` and `PB`. The invariant is `CountIsOfLatest` with the exact
length of `recent` for the count; `StepCases` splits a sample into attempt, no attempt,
reset.
- `CountInvariant`, `LevelSteps` (`OnlyNeighbours`, `EveryChangeReported`),
  `NoSpikeCounts` (`ThreeInARow`).

*StandaloneProofs, the phone book.* `BookInv` has two parts besides the types.
`EntryInv` says how far the split of an entry is: which of the four parts have begun, that
the commas passed are overwritten, and whether `pChr` is between quotation marks; as the
array of four is full where the name begins, the walk never looks at the name. It needs
`LineAssumption`, that a line of another kind is no entry. `RankInv` says that the ranks of
what was read are a permutation: an insertion moves the later ones by one, and the book
is the permutation cut at its capacity. `BookIsFirst` alone is not inductive, as it does
not say that every place is somebody's. `SplitInv` describes the walk by the set
`Begins` of the definition it is compared with: `ScanAt(last)` says that `last` is the
last beginning before `pChr`, that the parts kept so far are those before it that count,
and that `inQuotation` is the parity of the quotation marks; `SplitIsFields` follows where
the walk ends. The induction over the line is that over the steps of the walk.
- `StoredIsRead` (`EntryAsStored`), `BookKeepsFirst` (`BookIsFirst`), `SplitFindsFields`
  (`SplitIsFields`).

*GsmModemProofs.* What is to be shown speaks of the time before a connection fails,
but afterwards the engine goes on with a dead id, so the invariant has two halves
(`Kept`). `Sound` holds always: every timer of the engine is in one of its fields, so
it has at most three, and with those of others an id is always free (`OwnsFew`,
`FewLeaveOne`; without it `FreeId` is nobody's id and nothing holds). `Right` holds
until the failure: every field holds a timer of the engine, no two the same. `StopKeeps`
and the three `...Starts` say what `Stop`, with the chain of `OnTimerStop`, and `Start`
do to both; a `...Kept` lemma follows for each place the code does so, and `Responds`
lists what `OnModemResponse` may do. `LineInv` is `HalfLineIsTimed` extended to the
half of a turn in which nothing was read.
- `IdsAreKept` (`IdsAreTimers`), `HalfLineHasTimer` (`HalfLineIsTimed`),
  `CommandsAreSent` (`NothingDropped`).

*GsmNetworkProofs.* The type invariant is not inductive alone: `polls` keeps its range
only because a timer is started when the field is empty (`PollInv`: the field holds an
id exactly while one timer runs, as it does in READY). `ChainInv` counts the commands of the configuration
that wait, are pending or are still to be given; `ConfigInv` ties `acked` to the step
the chain has reached; `TextInv` and `NumberInv` say of whom the saved header and the
saved number are, unless `lost` has it.
- `ChainIsOne` (`OneChain`), `WaitsConfigured` (`Configured`), `PollIsOne` (`OnePoll`),
  `TextBelongs` (`TextIsItsOwn`), `NumberBelongs` (`NumberIsCallers`).

*GsmSocketsProofs.* `Shape` is the type invariant with what keeps it: no packet is
empty (a command's last unit is read when it goes on the line) or longer than
`PacketSize` (`Append` adds a packet only when the last is exactly full), and before the
modem has booted there are no sockets and no pending command (else a close event that
comes then would be neither handled nor counted as lost). `SingleWrite` is
`OneWriteAtATime` without its count; `SocketsAreOpen` and `ConnectingGoesOn` are
inductive with `Shape`, and the second needs the first: of two sockets of one id only
the older is confirmed, and the id is in `lost`. `Destroyed` says what is left after
`DestroySocket`: the other sockets, each once, and if one of them has the same id the
histories have lost nothing. `Appended`, `FirstTaken` and `FlightEnded` follow a command
through the stack to the line; every action is a few such moves.

`UnitInv` carries the data. `UnitsInOrder` speaks of all packets put together, which no
step shows; `Numbered` speaks of each by itself: every packet but the last is full, so
the k-th unit of packet p is the one of number `written` + what waits in the stack +
(p - 1) `PacketSize` + k, modulo `UnitMod`, and `accepted` is the number of the last.
Taking the first packet (`NumberedTaken`), handing it over (`NumberedHanded`) and
accepting a unit (`NumberedUnit`) move these formulas along. `NumberedIsRun` puts the
packets together without induction: the prefixes of one run of units satisfy the
recursion of `FlattenSeq`, whose solution is unique because a first place where two
solutions differ cannot exist (`FlattenIs`). `FewWait` bounds what waits by
(`MaxPackets` + 1) `PacketSize`, below `UnitMod`, so that a remainder tells how much it
is. `PacketsOwned` says that a packet that waits in the stack belongs to a socket that is
there or is marked `orphan`; without it a new socket of the same id would inherit it.
- `SocketTypes` (`TypeOK`), `WritesAreSingle` (`OneWriteAtATime`), `SocketsStayOpen`
  (`SocketsAreOpen`), `ChainsGoOn` (`ConnectingGoesOn`), `UnitsKeepOrder`
  (`UnitsInOrder`).

*GprsProofs.* `StepsInv` counts the commands and timers of an activation wherever they
are: adding and removing one from a stack of any length changes the number of its
places by one. `UpInv` follows the poll from the status line to the address.
- `StepIsOne` (`OneStep`), `ActiveHasAddress` (`ActiveIsUp`).

*GsmPhoneProofs.* `FlowInv` says how far the set-up is: all steps before `flowState`
were acknowledged (`Done`), no question about the phone book is open before it is
asked, and from READY on the book was read, unless an answer was taken for another
step's. `GoesInv` adds the timer or the command that keeps it going. `CallInv` ties the
saved +CLCC and the call timer to the call the modem has.
- `SetUpIsWhole` (`Configured`), `SetUpGoesOn` (`FlowGoesOn`), `RingingEnds`
  (`RingsOut`), `OnlyFriendsAnswered` (`AnswersFriends`).

The type invariants of all these modules are proved; that of `PhoneBook` is a conjunct
of `BookIsFirst`.

Only model-checked: every liveness property (fairness is out of the prover's reach);
every invariant of a run has a theorem. `FreedUnreachable` (TimerListProofs) and
`CountIsOfLatest`, `OnlyNeighbours`, `EveryChangeReported`, `LineOwnsTimer`,
`OneCommandPerRun` are proved and not run again.

## 6. What is abstracted and what is not modelled

- Time is counted in ticks, durations keep their order; the wrap is kept exactly in
  `Timer` and `TimeManager`. Rounds of the loop are bounded by `MaxFrame`.
- The 256th simultaneous timer, whose 8-bit id is 0, is beyond `MaxId`.
- `AuxHeaterSerial::OnTimerStop` runs only if somebody stops a foreign id; nobody
  does while timers are used as `IdsAreTimers` describes.
- `GsmModem` ends its id properties at the first failed connection: then
  `connectionTimer` keeps a dead id (BaseGSMHandler.cpp, `OnTimerComplete`), and the
  next `StartModem` stops whoever owns it. In `SPEED_CHAGE` only OK is handled and no
  timer runs; the boot may stay there, and `BootEnds` covers the other states.
- A battery that dies at OVERFLOW is never found low: that level is left through a
  normal voltage only. `LevelIsFound` says so.
- In `GsmSockets`, at most `MaxLost` close events are taken for answers at a time; a
  socket the full array refused is used by nobody; the content of reads, addresses
  and sizes is left out. Modem events come only for sockets the modem has, and a late
  result only after a connect command. `sock->GetId()` on NULL
  (GSMSocketHandler.cpp:91) gives any id the modem has; a crash there is not modelled.
- Operator names, signal quality and what else is only stored and printed.
- Lines of the modem and of a Bluetooth user are as long as the buffer at most; what
  a longer one loses is not modelled. The separator search of
  `SerialCharResponseHandler` is "a line, or a part of one".
- `clccArgs` and the empty phone book (UbloxGSMHandler.cpp:163, :21) are memory errors
  after which no state is defined. `Connect` of `GPRSHandler` without a login passes
  NULL to `strlen`; `Gprs` takes the calls that return.
- `quaterZone` of `TimeManager` is never assigned: local time is UTC, and parsing the
  modem's date is left out.
- `main.cpp`: `setup` is pins and wiring; `handleSerialCommand`, `handleLevelChanged`
  and the click handlers only write.

Not modelled at all: `Button` (its `btnState` never follows the pin, so it does not
count clicks, and its callbacks only print), `SerialTimerResponseHandler` and
`SocketMessageBuffer` (nothing uses them), `SimcomGSMHandler` and the BLE handlers
(built for other boards), `TemperatureHandler` and `DebugHandler` (sensor I/O,
output), and the modem command classes except what `PinModemCMD` keeps (they format
one line each).
