----------------------------- MODULE Usb10Link -----------------------------
(***************************************************************************)
(* The USB controller of Apb3USB10.scala under usb10_in_request(): the     *)
(* state machine that takes commands, receives packets and keeps the bus   *)
(* alive, and the register accesses of the driver that drives it.          *)
(*                                                                         *)
(* The two run on clocks of their own, so that a status read soon after a  *)
(* command was written is still that of before.  What the clocks do allow: *)
(* a waiting command is taken before the access after the next (Settled),  *)
(* and a token or an answer lasts longer than the few accesses the driver  *)
(* makes between two of its waits (BusyHands).                             *)
(*                                                                         *)
(* Reports are numbered from the first one after the enumeration that the  *)
(* host does not drop; report n is DATA1 for odd n.                        *)
(***************************************************************************)
EXTENDS Naturals

CONSTANTS Retries,      \* `retry` in usb10_in_request
          ErrorLimit,   \* errors that the client tolerates in a row
          MaxFaults,    \* bound on the faults of bus and device
          MaxReports    \* bound on the reports the device makes

ASSUME LinkAssumption ==
    /\ Retries \in Nat /\ ErrorLimit \in Nat
    /\ MaxFaults \in Nat /\ MaxReports \in Nat

VARIABLES state,      \* controller: state of the main FSM
          start,      \* controller: cmd_start
          cmd,        \* controller: cmd and cmd_pid, the token to send
          token,      \* controller: what is on the wire in state "send"
          busy,       \* controller: busy
          received,   \* controller: received
          due,        \* controller: T2 has almost run up
          rx,         \* controller: the packet in its receiver
          air,        \* bus: the packet the device is about to send
          made,       \* device: reports made so far
          acked,      \* device: reports it is done with
          awaiting,   \* device: waits for the ACK of the report it sent
          plugged,    \* device: is there and has its address
          pc,         \* driver: where the request is
          retry,      \* driver: attempts left
          got,        \* driver: rx_status, read once
          recv,       \* driver: toggle of the last report taken
          errors,     \* client: errors in a row
          ret,        \* driver: what the request returned, negated; 0 for data
          last,       \* history: the newest report handed to the client
          handed,     \* history: how many reports were handed over
          echo,       \* history: noise has announced the packet in rx again
          excused,    \* history: reports that may go missing for an echo
          faults      \* faults so far

controller == <<state, start, cmd, token, busy, received, due, rx>>
device == <<air, made, acked, awaiting, plugged>>
driver == <<pc, retry, got, recv, errors, ret, last, handed>>
history == <<echo, excused>>
linkVars == <<controller, device, driver, history, faults>>

States == {"unconnected", "idle", "send", "keepalive", "receive"}
LinkPoints == {"idle", "free", "in", "first", "poll", "look", "crc", "delay", "ack",
           "begun", "complete", "judge", "data", "done", "gone"}

Packet(kind, report) == [kind |-> kind, pid |-> report % 2, report |-> report]
Silence == Packet("none", 0)
Garbage == Packet("bad", 0)
Packets == [kind: {"none", "bad", "nak", "data"}, pid: {0, 1}, report: 0..MaxReports]

LinkTypeOK ==
    /\ state \in States /\ start \in BOOLEAN /\ cmd \in {"none", "in", "ack"}
    /\ token \in {"in", "ack", "mixed", "deaf"}
    /\ busy \in BOOLEAN /\ received \in BOOLEAN /\ due \in BOOLEAN
    /\ rx \in Packets /\ air \in Packets
    /\ made \in 0..MaxReports /\ acked \in 0..made
    /\ awaiting \in BOOLEAN /\ plugged \in BOOLEAN
    /\ pc \in LinkPoints /\ retry \in 0..Retries /\ got \in Packets /\ recv \in {0, 1}
    /\ errors \in 0..(ErrorLimit + 1) /\ ret \in {0, 6, 8, 9, 10}
    /\ last \in 0..made /\ handed \in Nat
    /\ echo \in BOOLEAN /\ excused \subseteq 1..(MaxReports + 2) /\ faults \in 0..MaxFaults

LinkInit ==
    /\ state = "idle" /\ start = FALSE /\ cmd = "none" /\ token = "in"
    /\ busy = FALSE /\ received = FALSE /\ due = FALSE /\ rx = Garbage
    /\ air = Silence /\ made = 0 /\ acked = 0 /\ awaiting = FALSE /\ plugged = TRUE
    /\ pc = "idle" /\ retry = 0 /\ got = Silence /\ recv = 0 /\ errors = 0 /\ ret = 0
    /\ last = 0 /\ handed = 0 /\ echo = FALSE /\ excused = {} /\ faults = 0

Fault == faults < MaxFaults /\ faults' = faults + 1

\* A command waits for the next clock of the controller.
Settled == ~(start /\ state = "idle")

-----------------------------------------------------------------------------
(* The device. *)

MakeReport ==
    /\ plugged /\ made < MaxReports
    /\ made' = made + 1
    /\ UNCHANGED <<controller, air, acked, awaiting, plugged, driver, faults, history>>

\* An IN token: the oldest report without an ACK, or a NAK, or, with a token
\* or an answer that the bus has lost, nothing.
HearIn ==
    /\ plugged
    /\ awaiting' = (acked < made)
    /\ \/ /\ air' = IF acked < made THEN Packet("data", acked + 1) ELSE Packet("nak", 0)
          /\ UNCHANGED faults
       \/ air' = Silence /\ Fault
    /\ UNCHANGED <<acked, excused>>

HearAck ==
    /\ plugged /\ awaiting
    /\ acked' = acked + 1 /\ awaiting' = FALSE
    /\ excused' = IF echo THEN excused \cup {acked + 1, acked + 2} ELSE excused
    /\ UNCHANGED <<air, faults>>

HearNothing == UNCHANGED <<air, acked, awaiting, excused, faults>>

\* What the device makes of the token at its end.
Hear ==
    \/ token \in {"in", "mixed"} /\ HearIn
    \/ token \in {"ack", "mixed"} /\ HearAck
    \/ token = "ack" /\ Fault /\ UNCHANGED <<air, acked, awaiting, excused>>
    \/ token \in {"mixed", "deaf"} /\ HearNothing
    \/ token = "in" /\ ~plugged /\ HearNothing
    \/ token = "ack" /\ ~(plugged /\ awaiting) /\ HearNothing

-----------------------------------------------------------------------------
(* The controller. *)

\* A bug: the received bit of the packet before stays set.
TakeKeepsReceived ==
    /\ state = "idle" /\ start
    /\ state' = "send" /\ busy' = TRUE
    /\ IF air = Silence THEN token' = cmd /\ UNCHANGED air
                        ELSE token' = "deaf" /\ air' \in {Silence, Garbage}
    /\ UNCHANGED <<start, cmd, received, due, rx, made, acked, awaiting, plugged, driver, faults, history>>

\* StateWaitCMDorSYNC takes a command.  One sent over an answer of the device
\* spoils it and is not heard.
Take ==
    /\ state = "idle" /\ start
    /\ state' = "send" /\ busy' = TRUE /\ received' = FALSE
    /\ IF air = Silence THEN token' = cmd /\ UNCHANGED air
                        ELSE token' = "deaf" /\ air' \in {Silence, Garbage}
    /\ UNCHANGED <<start, cmd, due, rx, made, acked, awaiting, plugged, driver, faults, history>>

\* Where the driver makes a few accesses between two waits.
BusyHands == pc \in {"look", "crc", "ack", "begun", "judge", "data"}

\* A bug: a command that was written meanwhile is kept for later.
SendEndKeepsCommand ==
    /\ state = "send" /\ ~BusyHands
    /\ state' = "idle" /\ start' = (token = "mixed") /\ busy' = FALSE /\ due' = FALSE
    /\ Hear
    /\ UNCHANGED <<cmd, token, received, rx, made, plugged, driver, echo>>

\* StateSendLongToken, StateSendShortToken: the token is out; the command is
\* over, whichever is in the command word by now.
SendEnd ==
    /\ state = "send" /\ ~BusyHands
    /\ state' = "idle" /\ start' = FALSE /\ busy' = FALSE /\ due' = FALSE
    /\ Hear
    /\ UNCHANGED <<cmd, token, received, rx, made, plugged, driver, echo>>

\* The device takes longer to answer than the driver to see that BUSY is clear;
\* noise is left out while the driver is at a packet, whose data it would spoil.
MayBegin == IF air = Silence THEN ~BusyHands /\ pc # "complete" ELSE pc # "complete"

\* Activity on the bus: an answer, or noise.
Activity ==
    /\ state = "idle"
    /\ MayBegin
    /\ IF air = Silence THEN Fault ELSE UNCHANGED faults
    /\ state' = "receive" /\ busy' = TRUE /\ received' = FALSE
    /\ UNCHANGED <<start, cmd, token, due, rx, device, driver, history>>

\* What the receiver then holds.  A pulse too short to begin a packet leaves
\* the one before in it.
Arrived == IF air = Silence THEN {rx, Garbage} ELSE {air}

\* A bug: the controller stays busy.
ReceiveEndBusy ==
    /\ state = "receive" /\ ~BusyHands
    /\ state' = "idle" /\ received' = TRUE
    /\ rx' \in Arrived /\ air' = Silence /\ echo' = (air = Silence)
    /\ UNCHANGED <<start, cmd, token, busy, due, made, acked, awaiting, plugged, driver, excused, faults>>

\* StateReceive, with a packet as it was sent, or damaged on its way.
ReceiveEnd ==
    /\ state = "receive" /\ ~BusyHands
    /\ state' = "idle" /\ busy' = FALSE /\ received' = TRUE
    /\ \/ rx' \in Arrived /\ UNCHANGED faults
       \/ rx' = Garbage /\ Fault
    /\ air' = Silence /\ echo' = (air = Silence)
    /\ UNCHANGED <<start, cmd, token, due, made, acked, awaiting, plugged, driver, excused>>

\* T2 runs up in the idle state; by then the device has given up waiting.
TimePasses ==
    /\ state = "idle" /\ ~start /\ ~due /\ air = Silence
    /\ pc \in {"idle", "poll"} /\ (pc = "poll" => ~received)
    /\ due' = TRUE /\ awaiting' = FALSE
    /\ UNCHANGED <<state, start, cmd, token, busy, received, rx, air, made, acked, plugged,
                   driver, faults, history>>

\* The keep-alive begins, with a command that is taken and dropped at once.
KeepAliveBegin ==
    /\ state = "idle" /\ due
    /\ state' = "keepalive" /\ busy' = TRUE /\ received' = (received /\ ~start)
    /\ UNCHANGED <<start, cmd, token, due, rx, device, driver, faults, history>>

\* StateKeepAlive: its end is the end of any command written meanwhile.
KeepAliveEnd ==
    /\ state = "keepalive"
    /\ state' = "idle" /\ start' = FALSE /\ busy' = FALSE /\ due' = FALSE
    /\ UNCHANGED <<cmd, token, received, rx, device, driver, faults, history>>

\* T1: both lines low for 0.8 ms.
Unplug ==
    /\ state # "unconnected" /\ Fault
    /\ state' = "unconnected" /\ start' = FALSE /\ cmd' = "none"
    /\ busy' = FALSE /\ received' = FALSE
    /\ plugged' = FALSE /\ air' = Silence /\ awaiting' = FALSE
    /\ UNCHANGED <<token, due, rx, made, acked, driver, history>>

\* StateUnconnected: a device again, at address 0 now.
Plug ==
    /\ state = "unconnected"
    /\ state' = "idle" /\ start' = FALSE /\ busy' = FALSE
    /\ UNCHANGED <<cmd, token, received, due, rx, device, driver, faults, history>>

Controller == Take \/ SendEnd \/ (air # Silence /\ Activity) \/ ReceiveEnd \/ KeepAliveEnd

-----------------------------------------------------------------------------
(* usb10_in_request(). *)

\* COMMAND is written; a token that is being sent is read from it.
Write(c) ==
    /\ cmd' = c /\ start' = TRUE
    /\ token' = IF state = "send" /\ token \notin {c, "deaf"} THEN "mixed" ELSE token
    /\ UNCHANGED <<state, busy, received, due, rx>>

AgainOr(code) ==
    IF retry > 0
      THEN pc' = "in" /\ retry' = retry - 1 /\ UNCHANGED ret
      ELSE pc' = "done" /\ ret' = code /\ UNCHANGED retry

StartRequest ==
    /\ pc = "idle"
    /\ pc' = "free"
    /\ UNCHANGED <<controller, device, retry, got, recv, errors, ret, last, handed, faults, history>>

\* usb10_wait_while_busy(); nothing keeps the controller busy for its 1 ms.
WaitFree ==
    /\ pc = "free" /\ ~busy
    /\ pc' = "in" /\ retry' = Retries
    /\ UNCHANGED <<controller, device, got, recv, errors, ret, last, handed, faults, history>>

WriteIn ==
    /\ pc = "in"
    /\ Write("in")
    /\ pc' = "first"
    /\ UNCHANGED <<device, retry, got, recv, errors, ret, last, handed, faults, history>>

\* The first look at RECEIVED may come before the command has cleared it.
FirstStatus ==
    /\ pc = "first"
    /\ pc' = IF received THEN "look" ELSE "poll"
    /\ UNCHANGED <<controller, device, retry, got, recv, errors, ret, last, handed, faults, history>>

NextStatus ==
    /\ pc = "poll" /\ received /\ Settled
    /\ pc' = "look"
    /\ UNCHANGED <<controller, device, retry, got, recv, errors, ret, last, handed, faults, history>>

\* 25000 reads outlast all that can still come of the command.
NoResponse ==
    /\ pc = "poll" /\ ~received
    /\ state \notin {"send", "receive"} /\ air = Silence
    /\ ~start \/ state = "unconnected"
    /\ AgainOr(6)
    /\ UNCHANGED <<controller, device, got, recv, errors, last, handed, faults, history>>

\* RX_STATUS.
Look ==
    /\ pc = "look" /\ Settled
    /\ got' = rx
    /\ IF rx.kind = "nak" THEN pc' = "done" /\ ret' = 8 ELSE pc' = "crc" /\ UNCHANGED ret
    /\ UNCHANGED <<controller, device, retry, recv, errors, last, handed, faults, history>>

\* CRC16_OK, of whatever is in the receiver by now.
Crc ==
    /\ pc = "crc" /\ Settled
    /\ pc' = IF rx.kind = "bad" THEN "delay" ELSE "ack"
    /\ UNCHANGED <<controller, device, retry, got, recv, errors, ret, last, handed, faults, history>>

\* delay_us(20).
Delay ==
    /\ pc = "delay"
    /\ AgainOr(10)
    /\ UNCHANGED <<controller, device, got, recv, errors, last, handed, faults, history>>

WriteAck ==
    /\ pc = "ack" /\ Settled
    /\ Write("ack")
    /\ pc' = "begun"
    /\ UNCHANGED <<device, retry, got, recv, errors, ret, last, handed, faults, history>>

\* usb10_wait_cmd_complete(): up to 50 reads for BUSY to be set, ...
AckBegun ==
    /\ pc = "begun" /\ (busy \/ Settled)
    /\ pc' = "complete"
    /\ UNCHANGED <<controller, device, retry, got, recv, errors, ret, last, handed, faults, history>>

\* ... then reads until it is not.
AckComplete ==
    /\ pc = "complete" /\ ~busy
    /\ pc' = "judge"
    /\ UNCHANGED <<controller, device, retry, got, recv, errors, ret, last, handed, faults, history>>

Dupe == got.pid = recv

Judge ==
    /\ pc = "judge"
    /\ \/ got.kind # "data" /\ AgainOr(9) /\ UNCHANGED recv
       \/ got.kind = "data" /\ Dupe /\ AgainOr(10) /\ UNCHANGED recv
       \/ got.kind = "data" /\ ~Dupe /\ pc' = "data" /\ recv' = got.pid /\ UNCHANGED <<retry, ret>>
    /\ UNCHANGED <<controller, device, got, errors, last, handed, faults, history>>

\* RECV_DATA_LOW and RECV_DATA_HIGH, as they are by now.
ReadData ==
    /\ pc = "data"
    /\ last' = rx.report /\ handed' = handed + 1
    /\ pc' = "done" /\ ret' = 0
    /\ UNCHANGED <<controller, device, retry, got, recv, errors, faults, history>>

\* The client counts errors and goes back to the enumeration after too many,
\* which is beyond this module.
RequestReturns ==
    /\ pc = "done"
    /\ errors' = IF ret = 0 THEN 0 ELSE IF ret \in {8, 9} THEN errors ELSE errors + 1
    /\ pc' = IF errors' > ErrorLimit THEN "gone" ELSE "idle"
    /\ UNCHANGED <<controller, device, retry, got, recv, ret, last, handed, faults, history>>

Request == WaitFree \/ WriteIn \/ FirstStatus \/ NextStatus \/ NoResponse \/ Look \/ Crc \/ Delay
           \/ WriteAck \/ AckBegun \/ AckComplete \/ Judge \/ ReadData \/ RequestReturns

LinkNext ==
    \/ MakeReport
    \/ Take \/ SendEnd \/ Activity \/ ReceiveEnd \/ TimePasses
    \/ KeepAliveBegin \/ KeepAliveEnd \/ Unplug \/ Plug
    \/ StartRequest \/ Request

(* Processor and controller run. *)
LinkSpec == LinkInit /\ [][LinkNext]_linkVars /\ WF_linkVars(Controller) /\ WF_linkVars(Request)

-----------------------------------------------------------------------------
Channel == INSTANCE ReportChannel

\* However commands are swallowed, tokens overwritten in flight and old packets
\* looked at again, what the client gets is a ReportChannel: no report twice,
\* none after a newer one, and no report's data with another's PID.
ImplementsChannel == Channel!Spec

\* Each report the device is rid of has been handed over when the request is at
\* its end: no ACK goes out for a packet that the driver has not kept.  The one
\* exception is known: noise after an answer that was lost announces the packet
\* before again, whose ACK the device takes for its own; the report at hand is
\* then lost, and the next dropped as a repetition.
NoneMissing ==
    pc \notin {"begun", "complete", "judge", "data"} => (last + 1)..acked \subseteq excused

\* No wait of the driver lasts for ever (usb10.c: "~1ms timeout", 25000 reads).
RequestEnds == pc = "free" ~> pc \in {"idle", "gone"}
=============================================================================
