# Karnix SoC: specifications, model checking and proofs

Karnix SoC is a system on chip for an FPGA board (a VexRiscv processor with
SpinalHDL peripherals) together with its firmware: drivers and a run-time in
`src/main/c/karnix/karnix_soc`, a monitor with a console, Modbus, Ethernet and
USB in `karnix_monitor`, a game in `karnix_tetriscv`. This directory models the
parts of it where several actors meet: the event loop, the interrupt handler,
the peripherals, and what is at the other end of a wire. There is no operating
system. One event loop runs with interrupts enabled, one handler interrupts it
anywhere and is never interrupted itself, and they share variables and device
registers, mostly without locks.

Paths below are relative to `src/main/`; C files without a directory are in
`c/karnix/karnix_soc/src`.

## 1. Inventory

| Component | State | Operations | Meets | Correct when |
|---|---|---|---|---|
| Audio DAC driver (`audiodac.c/.h`) with the command FIFO of `SpiMasterCtrl.scala` and the PLIC latch | ring buffer, two pointers, interrupt enables, FIFO | submit, start, stop, handler, samples_filled/available | clients, handler, FIFO | samples leave in the order they came, none lost or repeated; playback does not stop with samples waiting |
| TetRISC-V (`karnix_tetriscv`) | synthesizer, play field, keys | fill the audio buffer, poll USB, draw | audio driver, USB | its submits are never cut short |
| Monitor event core (`karnix_monitor/src/main.c`, `trap_entry`) | PENDING, event flags, receive buffers | handler per line, `process_and_wait` | PLIC, UARTs, MAC, timers | no wake-up lost, nothing read from an empty FIFO, polls go on though timer pulses are erased |
| PLIC and timers (`MicroPLIC.scala`, `Apb3Timer.scala`) | PENDING, counters | latch, expire, pulse | handler | as above |
| USB host driver (`usb10.c`): interrupt polling | toggles, address, error count | `usb10_in_request`, the clients' poll loops | controller, device | reports arrive once, in order; the endpoint never gets stuck |
| USB host driver: control transfers | toggles, stages, descriptors, address | setup, data and status stages, `usb10_init`, LEDs | controller, device | a published address is that of a configured device; what is reported as done is done; enumeration succeeds in the end |
| USB controller (`Apb3USB10.scala`) | FSM, command word, busy and received bits, receiver | send token and handshake, receive, keep-alive, connect | driver's register accesses, bus | no command swallowed or overwritten makes a report come twice or vanish; every wait of the driver ends |
| Device settings (`config.c`, `eeprom.c`, `modbus.c`) | EEPROM pages, `reg_config_write` | load, save, requests, countdown, boot | serial line, UDP in the handler, I2C, power | what was acknowledged is kept; never a mixture |
| Modbus RTU receiver (`modbus_rtu.c`) | buffer, length, time stamp | rx, poll | UART1, timer | a request is one whole message, taken after the silence |
| Ethernet driver (`mac.c`) | receive and transmit FIFO, position in a frame per context | rx, tx, poll | lwIP, handler, loop | frames stay whole, come once, and nobody waits for ever |
| Console and keyboard (`cli.c`, `keyboard.c`) | shared input buffer and its length | rx, poll, `put_queue`, `puts_queue` | UART0, USB keyboard | bytes in order, none lost, taken in the end |
| SD card driver (`sdmmc.c`) | retries, card mode, buffer | read and write blocks | SPI, card | success means the blocks are there; a failure is reported, a retry harmless |
| Others (see `components` in PROJECT.json) | | | | |

What is hard here, and where tests do not reach:

- *interleaving without locks*: the handler runs between two reads of the same
  pointer (`samples_filled`), between the halves of `PENDING &= ~bit`, between
  two words of a frame, between test, store and count of an append to the
  console buffer, between clock and time stamp of the Modbus silence, between
  load and save of the settings, or in the middle of an I2C transfer;
- *two clocks*: the USB controller and the processor see each other's writes
  late, and the controller drops a command written at the wrong moment;
- *lost and repeated messages*: USB packets and ACKs, SD commands, tokens and
  stops; only a toggle bit tells a USB repetition from news;
- *restarts and retries*: a save of the settings takes several EEPROM pages; a
  transfer of blocks is begun again from its first block; an enumeration that
  broke off leaves a device behind in some state;
- *liveness without a scheduler*: edge-triggered timers whose pulses can be
  erased by another handler's write, event flags consumed too early, waits
  without a limit.

`hazards` in PROJECT.json lists them at their lines, each with the properties
that cover it or the reason none does.

## 2. Modules

| Module | What it is |
|---|---|
| `SampleStream` | abstract: a bounded FIFO of samples |
| `AudioDac` | the audio driver with its FIFO and interrupt; implements `SampleStream` |
| `TetrisAudio` | extends `AudioDac` with the game's loop as the client |
| `MonitorIrq` | PLIC, handler, event flags, event loop, timers, receive FIFOs |
| `ReportChannel` | abstract: reports in order, none twice |
| `Usb10Poll` | `usb10_in_request` with the client loop and the device; implements `ReportChannel` |
| `Usb10Link` | the same request register by register over the controller's state machine; implements `ReportChannel` |
| `Usb10Control` | control transfers, enumeration, LEDs, and their client |
| `ModbusSettings` | EEPROM settings, Modbus requests, the gate and its countdown |
| `ModbusRtu` | the serial line's receive handler and poll |
| `FrameChannel` | abstract: frames whole, none twice |
| `EthernetMac` | `mac_rx` and `mac_tx_packet` in both contexts; implements `FrameChannel` in both directions |
| `ConsoleInput` | the buffer that UART0, the keyboard and the command line share |
| `BlockDevice` | abstract: reads and writes of blocks |
| `SdBlocks` | the SD card driver and a card; implements `BlockDevice` |
| `...Proofs` | theorems: `AudioDacProofs` about `AudioDac` and `TetrisAudio`, `ModbusProofs` about `ModbusRtu` and `ModbusSettings`, `KeyboardProofs` about `ConsoleInput` and `Usb10Link`, and one each for `MonitorIrq`, `Usb10Poll`, `Usb10Control`, `EthernetMac`, `SdBlocks` |
| `MC...` | instances for TLC, with a cfg per run |

Operators named `...` followed by what is wrong with them (`LockMissing`,
`PlicLatchEdge`) are faulty variants of the operator after them; `mutants` in
PROJECT.json says which property notices each. They are in no specification. No
module declares a RECURSIVE operator.

### AudioDac
`Submit ... SubmitUnlock` are `audiodac0_submit_buffer` split where interrupts
are disabled and enabled: the early returns are decided *before* the critical
section (`Submit`), the copy is one step (`SubmitCopy`, the low and the high
part of the ring), then the handler may be called directly (`SubmitKick`).
`StartPlayback ... StartInts` are `audiodac0_start_playback`, whose critical
section is commented out (audiodac.c:93), so interrupts fall between its
assignments. `IrqTaken`, `IsrFull`, `IsrUnderrun`, `IsrPlay`, `IrqReturn` are the
handler, also when it is called; `space_available` is read once and used after
the FIFO has drained further. `Drain` is the SPI controller. Samples have numbers
instead of amplitudes. `Budgeted` restricts the client to what
`samples_available()` says, `MayStop` allows stop and restart.

### TetrisAudio
The two reads of each pointer in `samples_available()` are two actions; the
handler may run in between. The rest is the `while(samples_left_to_send)` loop,
which stands still at a negative number.

### MonitorIrq
One step is one access to something shared. `Trap`, `Test` ... `Raise`,
`ClearRead`, `ClearWrite` are `externalInterrupt` line by line of the PLIC, with
the clearing of a PENDING bit as a read and a write: the hardware may set a bit
in between, and the write erases it. Level lines are latched again as long as
the FIFO holds something; an expired timer pulses again each period.
`CheckFlag`, the `_poll` actions and `Work` are `process_and_wait` and the rest
of the loop. What the receivers do with their bytes and frames is counted here
and opened up in `ModbusRtu`, `EthernetMac` and `ConsoleInput`.

### Usb10Poll
`SendIn`, `Look`, `SendAck`, `Judge` are the steps of `usb10_in_request`: token,
wait, ACK, and only then the look at PID and toggle; `AgainOr` is the retry.
`PollReturns` is the client's error count. `Enumerate` and `EnumerateFails` are
`usb10_init` as the polling sees it: toggles reset on both sides, or no device.
The bus may lose or damage a packet, damage its PID, stall, lose an ACK, or hang
a command. The device is that of the USB standard: it keeps a report until its
ACK comes.

### Usb10Link
The same request one level down. `Take`, `SendEnd`, `Activity`, `ReceiveEnd`,
`KeepAliveBegin`, `KeepAliveEnd`, `Unplug`, `Plug` are the states and the guard
timer T1 of the FSM in `Apb3USB10.scala`; `due` says that its timer T2 is about
to run up. Each access of the driver to COMMAND, STATUS, RX_STATUS or the data
registers is an action (`WriteIn`, `FirstStatus`, `NextStatus`, `Look`, `Crc`,
`WriteAck`, `AckBegun`, `AckComplete`, `ReadData`). So a keep-alive may swallow
a command, a command may be written over a token that is on the wire (the
senders read the register while they send: `token = "mixed"`), the driver may
see the RECEIVED bit of the exchange before, and a pulse on the bus may announce
the packet before once more. The clocks are not counted; three operators say
what they allow: `Settled` (a waiting command is taken before the access after
the next), `BusyHands` (a token or an answer lasts longer than a few accesses),
`MayBegin` (noise is left out while the driver is at a packet). The initial
state is that of an enumerated device whose first report has been dropped (see
section 5); the client's way back to the enumeration ends the model. Return code
-1 cannot come, as nothing keeps the controller busy for a millisecond, nor can
-7: a hung ACK in `Usb10Poll` is more than the controller does.

### Usb10Control
`SetupBegin`, `SendSetup`, `LookSetup` are the setup stage; `SendIn`, `LookIn`,
`SendAck`, `Judge` and `SendOut`, `LookOut` the data and status stages in either
direction; `BusReset`, `Scan`, `SetLed` the rest of `usb10_init()` and
`usb10_hid_set_led()`; `step` is the request being made and `After` what follows
it. `DeviceSetup`, `DeviceIn`, `DeviceOut` are a device of the USB standard.
`NoteSent` remembers the toggle of a SETUP before its ACK is looked at, as the
code does (usb10.c:178), and a device may take a SETUP with DATA1 or ignore it.
`PollsFail` and `NoDevice` are `Usb10Poll` as seen from here.

### ModbusSettings
`BeginRequest` is the arrival of a request, in the event loop or in the handler (a UDP
datagram reaches `modbus_udp_recv` inside the MAC interrupt); the loop stands
still while the handler has a job. `ReadPage` is one page of `config_load`,
`WritePage` and `Settle` one of `config_save` and the wait after it. A handler
that takes over in the middle of a transfer of the loop's *cuts* both: the
controller's registers are shared, so each of the two may fail, yield garbage,
or look good without having written. An EEPROM page can be torn by a power loss;
an EEPROM that is programming answers nothing. `CountTest`, `CountRead`,
`CountPut` are `if(reg_config_write) reg_config_write--`, whose variable is
volatile: it is read twice. `Reboot` is REG_REBOOT, which leaves the EEPROM
running, `PowerLoss` does not.
The settings are one value per page and the check-sum is perfect.

### ModbusRtu
`modbus_rtu_rx` is the handler: it pushes what the FIFO holds, goes round at the
end of the buffer as the code does, and stamps the time. `CheckFlag` reads the
clock and the stamp as two accesses, `Compare` is the test with its unsigned
difference, `Lock`, `Copy`, `Reset`, `Unlock` the critical section, `modbus_recv`
and `Reply` the rest. Of the time only the age of the stamp is kept, up to the
delay. `Timer1` raises the flag again every 50 ms. A byte has the number of its
place on the line, a message is a run of bytes.

### EthernetMac
`Test`, `Header`, `Wait`, `Pop`, `Input` are `mac_rx()` access by access to the
receive FIFO, `mac_tx_packet`, `Room`, `Push` a packet to the transmit FIFO; both
exist once per context. `mac_poll` enters the first from the loop, with
interrupts enabled; `Trap` from the handler, which runs to its end. A word that
is taken for a length though it is data may be any length, and one that is too
long makes the driver reset the controller (`Reset`). A packet buffer may be
missing at any time. `Inward` and `Outward` are the two `FrameChannel`s, of what
is given to the stack and of what leaves on the wire.

### ConsoleInput
`console_rx` is the handler; `Poll`, `Lock`, `Copy`, `Reset` are
`console_poll()`; `PutTest ... PutZero` one call of `put_queue()` and `PutsTest
... PutsWrite` one of `puts_queue()`, each access to the buffer and its volatile
length a step. In which order `put_queue()` stores length and byte is the
compiler's choice. A key puts a character, two, or a string, and `Notify` raises the
console's event if the key has a callback for it (`key.quiet` if not); then the next
key of the same report follows, or the event loop goes on. `raced` records that the interrupt fell within an append.

### SdBlocks
`SendCmd` is the command and its R1, `Rx`/`StopRead`/`Settle` and
`Tx`/`BlockWritten`/`StopWrite`/`Final` the blocks and their end, `ReadAgain`,
`Response`, `WriteAgain` and `Again2` what a failure does before the next
attempt. The card has its own state (`card`): which transfer it is in, where,
and whether it is busy; `Advanced` and `Stopped` are its reactions. What the
driver ignores, it ignores here: a wait that runs out (`Waited` is followed by
the same step either way), a stop token nobody heard. `WriteResults` contains
"error" always, since the variable tested at the end of a write is never
assigned. `astray` marks that the card goes on with a transfer the driver
believes over; `BlockDevice` promises nothing from then on. The range check of a
call adds two `uint32_t` (`Sum32`): the last block numbers below 2^32 (`Word`) pass
it although the card has no such blocks, and `BlockNumbers` has them beside those
of the card. The card refuses their address, or is busy and seems to accept it;
`BlockDevice` asks that such a call does not succeed.

### The abstract specifications
`SampleStream`, `ReportChannel`, `FrameChannel` and `BlockDevice` say what a
component's user may rely on, in the variables of the detailed modules that the
user sees, and are their properties through `INSTANCE ... WITH`. Two of them
have a variable (`mixed`, `astray`) for the circumstances in which the code
promises nothing; the detailed module defines when that is.

## 3. Runs

All bounds are constants named in the modules and set in the cfg files.

| Run | Checks | Shows |
|---|---|---|
| `audio_restart` | TypeOK, PendingInOrder, DacNeverStalls | with a client that does not ask and stops and restarts, what waits is still in order, and the DAC goes on |
| `tetris_loop` | NeverPartial, NoSampleLost, ImplementsStream, EverySamplePlayed | the game's loop, as long as its budget is not negative, loses nothing, sees a bounded FIFO, and has all it submits played |
| `irq` | NoLostWakeup, NoEmptyRead, RequestTaken, ReceiversServed | every interleaving of handler, loop and devices; lost pulses and early flags are made up for |
| `usb_poll` | NoneMissing, ImplementsChannel, NeverStuck | all bus faults together, with failed polls and re-enumerations |
| `usb_link` | NoneMissing, ImplementsChannel, RequestEnds | everything that can come between two accesses of the driver to the controller |
| `usb_control` | ReadyIsConfigured, DescriptorWhole, LedApplied, EnumerationSucceeds | control transfers and enumeration under all faults, with devices unplugged |
| `settings_store` | StoreKeepsPromises, LoadsAreWhole, EveryRequestAnswered | restarts, torn pages, I2C failures, overlapping requests, and a gate that opens and closes |
| `rtu` | TypeOK, BytesInOrder, MessagesNotSplit, MessageTaken | the hand-over of the buffer, the silence, messages longer than the buffer |
| `rtu_early` | SilenceBeforeRequest, violated | a message still on the line is taken for a request (section 5) |
| `console` | TypeOK, BytesKept, BytesAnnounced, BytesTaken | line and keyboard into one buffer, access by access; no wake-up is lost between them |
| `ethernet` | WordsAreThere, FramesArriveWhole, FramesLeaveWhole, HandlerReturns, EveryFrameTaken | receiving and sending in loop and handler, with buffers running out; the waits without limit end |
| `sd_blocks` | ImplementsDevice, SurvivesOneFault, CallsReturn | reads and writes of several blocks with every fault of bus and card |

Every module's type invariant is proved (section 4); a run checks it too where an
index or a counter could leave its bounds.

Why the bounds are enough:

- *Audio.* The ring has 10 slots, the least `start_playback` accepts; 21 accepted
  samples go round it twice. Requests of 4 and 12 split at the wrap, fill the
  ring, and overfill it; the game's chunks are 4. The FIFO of 2 or 4 samples is
  emptied and filled within one ring.
- *Monitor.* Two arrivals, on one line or on two, fill a FIFO or a buffer of 2 and
  send the Modbus index round. Every line and timer is there, since an erased
  PENDING bit needs two of them.
- *USB polling.* 3 reports give both toggles and a next one, 5 faults exceed the 3
  retries, so that polls fail; 3 failures in a row lead to a new enumeration.
- *USB controller.* 3 reports as above; 2 retries and a limit of one error; 2
  faults: a lost answer and the pulse that announces the packet before are the
  pair that matters. Keep-alives, overwritten commands and late looks are no
  faults and are not bounded.
- *USB control.* 3 tries of a SETUP, 3 retries, 3 polls of a status stage, as many
  faults as use up any of them and leave two, descriptors of 4 packets: the last
  is short, and either toggle comes twice.
- *Settings.* 2 settings make a third page with the check-sum, so a save can
  stop before, between and after; 2 values tell old from new; one interrupting
  datagram gives each overlap once. Failures and restarts are not bounded. The
  gate has 1 bit: it wraps to 1 as the real one to 0xFFFFFFFF.
- *Modbus RTU.* A buffer of 4 and messages of up to 5 bytes: messages that fit,
  fill it exactly and go round. 3 messages: one before, one after. A FIFO of 2
  makes the handler read several bytes in one go; a delay of 2 has a tick in
  its middle. Words of 16 wrap where those of 2^32 do.
- *Console.* A buffer of 4, strings of 2, a FIFO of 2, 4 bytes from the line and 3
  keys: full, one short of full, and overtaken in each window of an append.
- *Ethernet.* Frames of 1 or 2 words and a transmit FIFO of 1, so that each word
  sent waits for the controller. 2 frames in and 2 packets out: one being handled
  by the loop, one by the handler.
- *SD.* 4 blocks, one write-protected; transfers of 1 to 3 blocks, at the end of
  the card as well; 3 calls, so that what one leaves behind meets the next; 3
  tries and 3 faults, so that a call can fail. Block numbers wrap at 16, as the real
  ones at 2^32; a count is at most `MaxCount`, as one is limited by the memory for
  its blocks.

`CHECK_DEADLOCK FALSE` stands in the audio and Ethernet runs and in `usb_link`: the
client may end with all samples played; the line may fall silent with the loop
at rest; and a client that has given up is where `usb_link` ends.

### Fairness

- *AudioDac* (`FairSpec`): the processor executes what it is in the middle of,
  the FIFO drains, a pending interrupt is taken. Nothing makes a client submit.
- *MonitorIrq*: the handler goes on (weak); the loop goes on even though it is
  interrupted time and again (strong: arrivals are bounded, and each interrupt
  is followed by the loop's instruction); an expired timer pulses, and one of
  its pulses falls outside another handler's window of two instructions (strong;
  pulses come each microsecond with 25 instructions between them, and a window
  that coincided with every one of them is not a schedule of this hardware); an
  unbroken silence passes.
- *Usb10Poll*: the host goes on. The device needs no fairness, and the bus works
  when its faults are used up.
- *Usb10Link*: the controller leaves a state it is in, and the driver goes on
  with a request it has begun; nobody must begin one. An answer on the bus is
  received (`air # Silence /\ Activity`); reports, noise, keep-alives and
  unplugging owe nothing.
- *Usb10Control*: the host goes on, and a device that is not configured is
  noticed again and again by polls that fail (strong: polling and LED requests
  take turns).
- *ModbusSettings*: each context goes on with its request. The EEPROM owes
  nothing: it may never end a write cycle.
- *ModbusRtu*: handler and loop go on, time passes, TIMER1 expires (strong: the
  critical section disables it for a few instructions only).
- *ConsoleInput*: handler and loop go on; nothing need arrive.
- *EthernetMac*: the handler is entered and goes on, the controller sends what is
  in its FIFO. The loop owes nothing.
- *SdBlocks*: the driver goes on, a busy card gets ready. A card in a transfer
  may stay there for ever.

## 4. Theorems

All are proved for every value of the constants that satisfies the module's
`ASSUME`, and rest on no other assumption unless one is named.

**AudioDacProofs.** `AudioInv` is the typing of all variables with the control
facts that keep it (which points of the program hold which locks, that the FIFO
does not exceed its depth because `space` is at most what it had room for);
`TypeCorrect` follows. *Order*: `RingKeepsOrder` (`Spec => []PendingInOrder`):
what waits between the two pointers is, in order, the last samples accepted. The
inductive invariant says this of each slot by its distance from the fill
pointer; it holds while playback is running. `RestartInv` extends it over stop and
restart, where between two assignments of `start_playback` the pointers belong to
different rings. *Loss*: under `Budgeted` and without restarts, `LossInv` adds
that the last sample played and the number waiting make up the number accepted;
this is not inductive without a bound on the submit in progress, since the
budget was read when the handler could still make it grow. It gives
`BudgetedLosesNothing` and, with the order, `DriverImplementsStream`: every step
of the driver is a step of `SampleStream` or leaves its variables alone.
*The game* (`TetrisAudio`, which does not stop playback: `~MayStop`, as in its
run): it reads the pointers twice with interrupts enabled, so it is not obviously
a budgeted client. `AnyStep` is a driver step with a submit of any size, under
which the driver's invariants are proved once for both clients. `PlaceInv` says
where loop and driver can be together, `BudgetInv` that what the loop has
computed is never more than what the ring can take: the handler only makes room,
and a comparison that has become stale makes the number too small, even negative,
never too great. It gives `GameNeverPartial` (no chunk is cut short),
`GameLosesNothing` and `GameImplementsStream`.

**MonitorIrqProofs.** `TypeCorrect`. `NeverReadsEmpty`: the handler of UART1 reads
a byte without looking; `ReadInv` says that wherever a one of its PENDING bit is
kept, in PENDING or in the register of a read-modify-write in progress, the FIFO
holds a byte, because only that handler empties the FIFO and the handler is not
interrupted. `ConsoleIsWoken`: `NoLostWakeup`.

**Usb10PollProofs.** `PollInv` relates the toggles of host and device, the packet
in the receiver and the numbers of the reports: its parts are `PlainType`,
`CountInv`, `HistoryInv`, `OfferInv` (an accepted packet is the one the device
still offers or has just dropped) and `JudgeInv`. It gives `TypeCorrect` and
`PollingIsAChannel`, the refinement of `ReportChannel`, for any number of retries
and faults. `LossInv` adds which reports are excused and gives `NothingIsMissing`.
`PollsEndInTime`: a poll takes at most `4 * Retries + 5` steps of the host.

**Usb10ControlProofs.** `ControlInv` is one invariant for the whole of setup, data
and status stages: `FlowInv` (which step may be at which point), `SetupInv` and
`StageInv` (the device's stage follows from the host's, or a fault has come
between them), `StoredInv` and `ArrivedInv` (what has been collected is a prefix
of the descriptor, and a packet in the receiver is the last or the next one,
told apart by its toggle), `DeviceInv` (the device's toggle is that of the packet
it will send), `AddressInv` and `LedInv`. It gives `AddressIsConfigured`,
`DescriptorIsWhole`, `LedsAreApplied` and `TypeCorrect` for any number of tries,
packets and faults. `NothingIsStoredTwice` holds also where `DescriptorIsWhole` makes its
exception, after a packet was acknowledged and dropped for its PID: there may
be a gap then, but no repetition. Its invariant `NewerInv` compares by order what
`StoredInv` compares by number: the packet in the receiver and the one the device
is at are newer than all that is stored, or are the last one stored and have the
toggle that makes the host drop them. `RequestsEndInTime` bounds the steps of a
request by the stages it has left (`StagesLeft`: packets still to come, polls of
the status stage), each with all its retries; that a packet accepted is newer than
the last, from `NewerInv`, is what makes the number of data stages finite, and
`RetryInv` bounds the retries within a stage. Without the argument about toggles a
device that repeats itself could keep the host in the data stage for ever.

**EthernetMacProofs.** `BaseInv` types the variables and places the two contexts;
`ReadInv` says that what a context has collected and what the stack was given
lies before the next word of the FIFO, so that a new frame differs from all old
ones. `FrameInv` holds until frames are mixed: only one context is within a frame
(`Alone`), between frames the next word is a length (`Between`), a context that
reads has as many words left as the frame has and has collected its beginning
(`Following`), and one that is done holds a frame the stack has not seen
(`Holding`), not the same as the other's (`Differ`). With it each step is a step
of `FrameChannel` or a stutter: `DriverImplementsChannel` (`FramesArriveWhole`).
From the same invariant `ReadsWaitForNothing` (`WordsAreThere`): the wait for a
word, which has no limit and which the handler enters too, finds the word there.
Sending is the same argument from the other end. `NumberInv` bounds the numbers
of all words by the packets pushed, also when packets were mixed, because a reset
ends the exception while the history stays; `Quiet` says that the handler sends
only while it runs. `PacketInv` holds until packets are mixed: the words in the
FIFO follow each other and what is pushed next follows the last (`FifoInv`), the
controller has the beginning of a packet newer than all that have left and the
FIFO continues it (`WireInv`), and who is about to push has room (`RoomInv`). It
gives `DriverSendsWhole` (`FramesLeaveWhole`). Both hold for frames of any length,
FIFOs of any size and any number of frames. `TypeCorrect`.

**SdBlocksProofs.** `BaseInv` types the driver and keeps its counters in bounds.
`TransferInv` relates the driver's place to the card's: unless `astray`, the
buffer holds `done` blocks as they are on the disk and a card that is sending is
at `first + done` (`ReadInv`), `done` blocks of the target have the new content
and a card that takes blocks is at `first + done` (`WriteInv`); a call is under
way only on a card that was mounted as SDHC (`EntryInv`). The blocks of a call are
those of the card or all behind its end (`FlowInv`: the wrap leaves no third case),
and unless `astray` only the former are transferred (`OnCard`). `DriverImplementsDevice`: a
success means that the blocks exist and are there, and no other block is touched, for
cards and transfers of any size and any number of faults. `TypeCorrect`.
`OneFaultSurvived` (`SurvivesOneFault`, for blocks of the card) assumes `Retries >= 3`, which is
`SDMMC_RETRIES` (sdmmc.h:24). Its invariant `OneFaultInv` gives the card's state at
each point of a call that has met at most one fault: no attempt fails without
one, except that the one after it may stumble over a card that is busy
(`Stumbled`), because the stop token of a failed multiple write is not waited for.
With two attempts TLC finds such a write failing after a single fault.
`CallsEndInTime`: a call of `count` blocks takes at most `Retries * (2 * count + 8)`
steps of the driver, whatever the card does.

**ModbusProofs.** *The receiver*: `RtuInv` is typing with `LineInv` (the message on
the line), `LockInv` (interrupts are off exactly within the critical section),
`BufferInv` (the buffer is the run of bytes after the last one settled),
`CopyInv` (the copy is what the buffer was) and `SilenceInv` (a stamp as old as
the delay stands at the end of a message, and unless an interrupt fell between
the two reads the time the loop has measured is no more than the stamp's age).
It gives `TypeCorrect`, `BytesStayInOrder` and `MessagesAreWhole` for buffers,
delays and messages of any size.
*The settings*: `StoreKeepsPromises` speaks of the EEPROM between requests; what
makes it inductive is where each request stands. `OverlapInv` says which pairs
of requests can be under way without being counted as overlapping (a reader of
the handler's within one of the loop's, nothing within a save). `RequestInv` says of
a request that none has overlapped: while it loads, its copy agrees with the
promises page by page (`LoadsPromise`); while it saves, the pages before its
position hold its copy (`Stored`), and its copy is the promise with one setting
changed (`Faithful`), unless a load failed or the EEPROM had been damaged; and
every copy a save writes is among `attempts` (`Recorded`). `ProgrammingInv`: the
EEPROM is in a write cycle only where a save is not done. `CheckInv`: the
check-sum is that of a configuration that was saved as such. It gives
`SettingsTypeCorrect`, `PromisesAreKept` and `NoMixedSettings`, for any number of
pages, values and requests, any number of restarts, torn pages and failed
transfers. The assumption `Torn \notin ...` says that half-programmed cells are not
taken for a value, and their check-sum not for one: the perfect check-sum of
section 2. `RequestsEndInTime`: a request takes at most `3 * CheckPage` steps of its
own, and no restart, failure or request of the other context adds to them.

**KeyboardProofs.** *The console's buffer*: `ConsoleInv` is typing with `MieInv`,
`BoundInv` (how far behind the buffer the length and the index of an append can
get) and `ByteInv`, which describes each intermediate state of the two appends
(`CharInv`, `StringInv`): unless the interrupt fell within one, buffer and length
are those of before with a known part of the append done. `TypeCorrect`,
`BytesAreKept`. `BytesAreAnnounced` (`BytesAnnounced`) is the lost wake-up, and
holds also when the interrupt did fall within an append.
*The USB link*: `LinkInv` has a part for each thing the driver relies on without
being able to look at it. `BusInv`: from its look at a packet until its ACK has begun
the driver has the bus to itself, so no second packet can replace the one it
judges. `CommandInv`: a command still to be taken is the one the driver is waiting
for, and an ACK is on the wire only while the driver waits for its end (a command
written over a token included). `PacketInv`: the packet on its way is the oldest
report without an ACK, the one in the receiver may be older, and is that very
one if the device waits for the ACK that would go out now. `ToggleInv`: the toggle
kept is that of the report handed over last. `MissingInv` follows the reports
excused: what the device is rid of is handed over, about to be, or excused, and
when the toggles are out of step so is the report dropped next. It gives
`LinkTypeCorrect`, `LinkMissesNone` (`NoneMissing`) and `LinkIsAChannel`, the
refinement of `ReportChannel`, for any number of retries, faults and reports, and
for every timing the three operators of section 2 allow.

Every safety property that a passing run checks, as an invariant or as a
refinement, is the statement of a theorem. Only model-checked: the liveness
properties (DacNeverStalls, EverySamplePlayed, RequestTaken, ReceiversServed,
NeverStuck, RequestEnds, EnumerationSucceeds, EveryRequestAnswered, MessageTaken,
BytesTaken, HandlerReturns, EveryFrameTaken, CallsReturn), as liveness under
fairness and ENABLED are out of the prover's reach. For some the theorems have the
safety half: `ConsoleIsWoken`, `BytesAreAnnounced`, `ReadsWaitForNothing`, and the
four about steps. `CallsEndInTime` (for CallsReturn), `RequestsEndInTime` of
ModbusProofs (for EveryRequestAnswered) and of Usb10ControlProofs (for each request
that EnumerationSucceeds makes) and `PollsEndInTime` are action properties of one
form: while a call is under way a measure, positive and at most a number
that the constants and the call fix, goes down with each step of the code that does not end the call, and
no step of anyone else raises it. So the retry loops cannot go round for ever, for any
number of faults; that the next step is always possible and is taken, which makes
this the liveness property, TLC checks.
Induction over data is out of its reach too, and nothing here needs it; there
are no RECURSIVE operators.

## 5. What the code does otherwise

**The finding with a run.** `rtu_early`: `modbus_rtu_poll()` reads the clock and
then the time stamp (modbus_rtu.c:41) with interrupts on. A byte received in
between leaves a stamp later than the clock, the unsigned difference wraps, and
the part of the message received so far is taken for a request. The comment at
modbus_rtu.c:51 says that the procedure is called from the timer's handler with
all interrupts blocked; `main.c:102` of the monitor calls it from the event loop.

**Further observations**, made while reading and modelling; the properties above
are stated so that these are their named exceptions. Where that exception is what
a hazard is about, the properties limit the damage and do not exclude it. Such a
hazard has a note in PROJECT.json that begins with "Partly" and says which part goes
wrong, uncaught, and what is known of its limits: the negative budget of the game,
interrupts within an append of the keyboard, frames and packets mixed by the handler,
overlapping changes of the settings, a transfer of the SD card gone astray, the first
report after an enumeration, the ACK before the PID, a SETUP sent with DATA1. A hazard
of which nothing is covered stands there without a property, as failed loads of the
settings and the scan of a descriptor with a gap do.

- *Audio.* `audiodac0_submit_buffer` compares with `playback - 1`, which does not
  match when playback is 0, and does not limit what it copies to what is free:
  it can fill the last slot, after which the ring looks empty.
  `samples_filled()` reads both pointers twice; an interrupt in between makes it
  exceed the ring, and the game's `samples_left_to_send` negative.
- *USB polling.* `usb10_bus_reset` presets the last *received* toggle of all
  endpoints to DATA0 (usb10.c:86), so the first report, which is DATA0, is
  acknowledged and dropped as a duplicate. STALL (-12) and duplicates (-10) are
  counted as errors by the client (monitor `main.c:414`). The two models of the
  polling excuse the reports lost to an ACK sent for what was not kept.
- *USB controller.* `usb10_in_request` does not wait for its IN to begin. After a
  NAK the RECEIVED bit is still set, so the next request may see it at once, look
  at the old packet and write its ACK over the IN token that is on the wire; the
  wait for the ACK then ends with the token and reports success (usb10.c:36). The
  report is sent again, and the toggle makes up for it.
- *USB control.* The toggle of a SETUP is remembered as sent before its answer is
  looked at (usb10.c:178): a SETUP that is tried again goes out as DATA1, and the
  data stage that follows starts with the wrong toggle. The descriptor scan does
  not end at a descriptor of length zero (usb10.c:846).
- *Settings.* The gate (`reg_config_write`) is tested, read and written by the
  loop in three accesses (monitor `main.c:440`); a client's 0 in between becomes
  0xFFFFFFFF. Negative values open it too, though `modbus.h:47` asks for positive
  ones. An I2C error during `config_load` makes a request that sets one value
  save the defaults of all the others and answer OK; a save that fails half-way
  leaves the defaults to the next one; a datagram served inside the interrupt
  during a request of the event loop can lose either of the two acknowledged
  changes. `StoreKeepsPromises` names these exceptions.
- *Modbus.* `modbus_recv()` returns -1 for short messages, and both callers keep
  that as an unsigned length (modbus_rtu.c:61, modbus_udp.c:68): a stray byte on
  the serial line is answered with 4294967295 bytes.
- *Console.* The keyboard's appends are not guarded against the interrupt
  (keyboard.c:96, 115), as `console_poll()` is (cli.c:1379), and the terminating
  zero of the character that fills the buffer is stored behind it (keyboard.c:97).
  Keys of the k_unicode, k_meta, k_ascii and k_shift kinds (keyboard.c:303, 452-491) and the
  keypad's 5 without NumLock (keyboard.c:440) put characters without raising the
  console's event. `cli_cmd_ihex`
  (cli.c:991) that is broken off leaves its bytes to be read again.
- *Ethernet.* `mac_poll` calls `mac_rx` with interrupts enabled (mac.c:174), so
  that the handler may read within a frame of the loop's; `sys_arch_protect` is
  empty (mac.c:42-50); `mac_rx` frees a buffer that `modbus_udp_recv` has freed
  (mac.c:342, modbus_udp.c:70); mac.c:140 and 147 name LPFW_ARP and IPFW_TCP.
- *SD card.* The results of `wait_ready` are ignored (sdmmc.c:932, 970, 984). The
  variable that counts retries shadows the one tested after the loop
  (sdmmc.c:902-1000), so that a write that succeeded may be reported as failed.
  `rx_buf` stores the two bytes of a CRC behind its buffer (sdmmc.c:233); that of
  the first card's CSD is the type of the second (sdmmc.h:72).

## 6. Not modelled

`components` gives the reason for each part. Of the modelled parts: the amplitudes
and formats of samples, the contents of console and Modbus bytes, the replies and
their formats, registers that are not settings, USB endpoints other than the one
polled, the controller's StateSendData and StateSendReset (`Usb10Control` has
their effects), the bit timing of I2C, SPI and USB, STALL at the controller's
level, a check-sum that collides, `sdmmc_init()` beyond success and failure,
calls for more blocks than the address space has room for (2^23), the SD driver's own
buffers (the CRC stored behind one, section 5), Modbus requests that the gate refuses
(they change nothing) and `hub_init()` before REG_HUB_TYPE is saved,
bringing up the Ethernet controller, and who owns a packet buffer inside lwIP.

Most of the repository's lines are not Karnix's own: lwIP, the VexRiscv
processor, ZModem, the FAT library and vendored headers. They are used here
through what the drivers rely on and are left alone, so the lines covered are a
small part of the whole and most of the concurrent part of the firmware.

## 7. Plan

What is left, in the order of its worth:

1. theorems: the safety halves of the remaining liveness properties where there
   is one (`HandlerReturns`: a bound on the handler's steps from the words that
   can still be in the FIFO; `RequestTaken`: a request in the buffer has TIMER1 to come; `RequestEnds`:
   no wait of the driver stands where the controller owes nothing);
2. `ModbusRtu` and `ModbusSettings` composed: a request cut in two by the race of
   `rtu_early` meets the gate and the settings;
3. StateSendData in `Usb10Link`, under `usb10_out_request()`; the effect of a
   swallowed DATA packet is a lost packet in `Usb10Control`;
4. the AXI bridges to SRAM and QSPI (`Axi4SharedToSRAM.scala`,
   `Axi4SharedToQSPI.scala`) against a memory;
5. the game's keys: `response_data` of a poll that failed is used all the same
   (`karnix_tetriscv/src/main.c:437`).
