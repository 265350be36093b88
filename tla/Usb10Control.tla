---------------------------- MODULE Usb10Control ----------------------------
(***************************************************************************)
(* Control transfers on endpoint 0: usb10_setup_request() with its data    *)
(* stage, usb10_out_request(), the status stages, and what is built from   *)
(* them: usb10_init(), which enumerates a device, and usb10_hid_set_led(). *)
(*                                                                         *)
(* The device follows the USB standard: it takes any SETUP and forgets the *)
(* transfer before it, repeats a packet until its ACK comes, acknowledges  *)
(* a repeated packet without using it, takes its new address when the ACK  *)
(* of SET_ADDRESS's status stage arrives, and ends the data stage when the *)
(* direction turns.  A SETUP must come with DATA0; with DATA1 a device may *)
(* take it or ignore it.  A descriptor is Packets packets, the last short. *)
(* A command swallowed by the controller's keep-alive is a lost packet.    *)
(***************************************************************************)
EXTENDS Naturals, Sequences

CONSTANTS SetupTries,    \* `retry = 3` of the setup stage
          DataRetries,   \* `retry = 8` of the other stages
          StatusPolls,   \* the loop of usb10_set_value
          Packets,       \* packets of a descriptor
          FaultKinds,    \* what the bus may do
          MaxFaults      \* bound on the faults

AllFaults == {"lost", "unanswered", "damaged", "odd_pid", "nak", "stall",
              "ack_lost", "hung", "unplugged", "polls"}

ASSUME ControlAssumption ==
    /\ SetupTries \in Nat \ {0}
    /\ DataRetries \in Nat
    /\ StatusPolls \in Nat \ {0}
    /\ Packets \in Nat \ {0}
    /\ FaultKinds \subseteq AllFaults
    /\ MaxFaults \in Nat

VARIABLES dev,       \* the device
          address,   \* usb10_device_address: 0 none
          step,      \* what the host is doing
          pc,        \* where it is in the request
          retry,     \* `retry` of the stage
          polls,     \* rounds left in usb10_set_value
          sent,      \* usb10_last_data_pid[a][0].sent, 0 for DATA0
          recv,      \* usb10_last_data_pid[a][0].recv
          got,       \* the packets stored in response_data
          rx,        \* what the receiver holds
          result,    \* what the last request returned
          want,      \* the LEDs asked for
          gap,       \* history: this request lost a packet with an odd PID
          oddSetup,  \* history: the device took this request with DATA1
          faults     \* faults so far

host == <<address, step, pc, retry, polls, sent, recv, got, result, want>>
vars == <<dev, host, rx, gap, oddSetup, faults>>

Addresses == 0..1
Deaf == 2                \* address of a device that waits for a bus reset
Toggles == {0, 1}
Reads == {"device", "config"}
Sets == {"set_address", "set_config"}
Requests == Reads \cup Sets \cup {"led"}
Steps == Requests \cup {"off", "reset1", "reset2", "scan", "ready", "hung"}

Nothing == [kind |-> "none", pid |-> 0, packet |-> 0]
Handshake(kind) == [Nothing EXCEPT !.kind = kind]
Fresh == [addr |-> 0, conf |-> FALSE, led |-> "off", stage |-> "idle",
          req |-> "device", next |-> 1, toggle |-> 1]

TypeOK ==
    /\ dev \in [addr: Addresses \cup {Deaf}, conf: BOOLEAN, led: {"off", "on"},
                stage: {"idle", "in", "data_out", "status_in"}, req: Requests,
                next: 1..(Packets + 1), toggle: Toggles]
    /\ address \in Addresses
    /\ step \in Steps
    /\ pc \in {"begin", "setup", "setup_look", "in", "in_look", "ack", "judge",
               "out", "out_look"}
    /\ retry \in 0..(SetupTries + DataRetries)
    /\ polls \in 0..StatusPolls
    /\ sent \in [Addresses -> Toggles] /\ recv \in [Addresses -> Toggles]
    /\ got \in Seq(1..Packets)
    /\ rx \in [kind: {"none", "ack", "nak", "stall", "data", "damaged", "odd_pid"},
               pid: Toggles, packet: 0..Packets]
    /\ result \in {"ok", "failed"} /\ want \in {"off", "on"}
    /\ gap \in BOOLEAN /\ oddSetup \in BOOLEAN
    /\ faults \in 0..MaxFaults

Init ==
    /\ dev = [Fresh EXCEPT !.addr = Deaf]
    /\ address = 0 /\ step = "off" /\ pc = "begin"
    /\ retry = 0 /\ polls = 0
    /\ sent = [a \in Addresses |-> 0] /\ recv = [a \in Addresses |-> 0]
    /\ got = <<>> /\ rx = Nothing /\ result = "ok" /\ want = "off"
    /\ gap = FALSE /\ oddSetup = FALSE /\ faults = 0

Fault(kind) ==
    /\ kind \in FaultKinds
    /\ faults < MaxFaults
    /\ faults' = faults + 1

\* The address a request goes to.
To == IF step \in {"device", "set_address"} THEN 0
      ELSE IF step = "led" THEN address ELSE 1

-----------------------------------------------------------------------------
(* The device.  Each operator gives its next state.                        *)

Hears == dev.addr = To

StageOf == [r \in Requests |-> IF r \in Reads THEN "in"
                               ELSE IF r = "led" THEN "data_out" ELSE "status_in"]

TakeSetup ==
    dev' = [dev EXCEPT !.req = step, !.stage = StageOf[step], !.next = 1, !.toggle = 1,
                       !.conf = dev.conf \/ step = "set_config"]

\* A SETUP with a DATA1 packet may be ignored.
DeviceSetup(pid) ==
    /\ Hears
    /\ TakeSetup
    /\ oddSetup' = (oddSetup \/ pid = 1)

\* What the device answers to IN.  After its last packet, or with no transfer
\* going on, it has nothing; in the data stage of a write IN turns the direction.
Offers == IF dev.stage = "in" /\ dev.next <= Packets
            THEN {[kind |-> "data", pid |-> dev.toggle, packet |-> dev.next]}
          ELSE IF dev.stage = "status_in" THEN {[kind |-> "data", pid |-> 1, packet |-> 0]}
          ELSE {Handshake("nak"), Handshake("stall")}

DeviceIn ==
    /\ Hears
    /\ \/ rx' \in Offers /\ UNCHANGED dev
       \/ /\ dev.stage = "data_out"
          /\ rx' = [kind |-> "data", pid |-> 1, packet |-> 0]
          /\ dev' = [dev EXCEPT !.stage = "status_in"]

AfterAck ==
    IF ~Hears THEN dev
    ELSE IF dev.stage = "in"
      THEN [dev EXCEPT !.next = dev.next + 1, !.toggle = 1 - dev.toggle]
    ELSE [dev EXCEPT !.stage = "idle",
                     !.addr = IF dev.req = "set_address" THEN 1 ELSE dev.addr]

\* OUT with data: the LEDs, the status stage of a read, or a repetition.  A
\* toggle out of turn makes it a repetition, too.
DeviceOut(pid) ==
    /\ Hears
    /\ dev' = IF pid = 0 THEN dev
              ELSE IF dev.stage = "data_out" THEN [dev EXCEPT !.led = want, !.stage = "status_in"]
              ELSE IF dev.stage = "in" THEN [dev EXCEPT !.stage = "idle"]
              ELSE dev

\* A device is unplugged and another of its kind plugged in.
Unplug ==
    /\ Fault("unplugged")
    /\ dev' = [Fresh EXCEPT !.addr = Deaf]
    /\ UNCHANGED <<host, rx, gap, oddSetup>>

-----------------------------------------------------------------------------
(* Ends of requests. *)

\* The step that follows when usb10_init's request has succeeded.
After == [s \in Steps |->
            CASE s = "reset1" -> "device"      [] s = "device" -> "reset2"
              [] s = "reset2" -> "set_address" [] s = "set_address" -> "config"
              [] s = "config" -> "scan"        [] s = "scan" -> "set_config"
              [] s = "set_config" -> "ready"   [] OTHER -> s]

\* Faulty variant: the address is published as soon as it is assigned.
PublishEarly == address' = IF step \in {"set_address", "set_config"} THEN 1 ELSE address

Publish == address' = IF step = "set_config" THEN 1 ELSE address

AfterLed == IF address = 0 THEN "off" ELSE "ready"

Done ==
    /\ result' = "ok"
    /\ step' = IF step = "led" THEN AfterLed ELSE After[step]
    /\ Publish
    /\ pc' = "begin" /\ retry' = 0 /\ polls' = 0

\* usb10_error: the address is zero again; an error of set_led is ignored.
Fail ==
    /\ result' = "failed"
    /\ IF step = "led" THEN step' = AfterLed /\ UNCHANGED address
                       ELSE step' = "off" /\ address' = 0
    /\ pc' = "begin" /\ retry' = 0 /\ polls' = 0

Go(where, tries) ==
    /\ pc' = where /\ retry' = tries
    /\ UNCHANGED <<address, step, result, polls>>

\* `if(retry--) goto again;`, and with --retry in the setup stage.
AgainOrFail(where) == IF retry > 0 THEN Go(where, retry - 1) ELSE Fail

-----------------------------------------------------------------------------
(* The client, which calls usb10_init as long as it has no device, and the *)
(* LEDs in the same round, even if the polling has just given the device up.*)

\* Faulty variant: a new attempt goes on without a bus reset.
FirstWithoutReset == "device"

First == "reset1"

StartInit ==
    /\ step = "off"
    /\ step' = First
    /\ UNCHANGED <<dev, address, pc, retry, polls, sent, recv, got, result, want, rx, gap, oddSetup, faults>>

GiveUp ==
    /\ step = "ready"
    /\ address' = 0
    /\ step' \in {"off", "led"}
    /\ UNCHANGED <<dev, pc, retry, polls, sent, recv, got, result, want, rx, gap, oddSetup>>

NoDevice == (dev.addr # address \/ ~dev.conf) /\ GiveUp /\ UNCHANGED faults

PollsFail == Fault("polls") /\ GiveUp

SetLed ==
    /\ step = "ready"
    /\ step' = "led"
    /\ want' \in {"off", "on"}
    /\ UNCHANGED <<dev, address, pc, retry, polls, sent, recv, got, result, rx, gap, oddSetup, faults>>

\* A reset that is refused or hangs leaves the host's toggles alone.
BusReset ==
    /\ step \in {"reset1", "reset2"}
    /\ \/ /\ dev' = Fresh
          /\ sent' = [a \in Addresses |-> 1]
          /\ recv' = [a \in Addresses |-> 0]
          /\ Done
          /\ UNCHANGED faults
       \/ /\ Fault("hung")
          /\ dev' \in {dev, Fresh}
          /\ Fail
          /\ UNCHANGED <<sent, recv>>
    /\ UNCHANGED <<got, want, rx, gap, oddSetup>>

\* The descriptors are taken from the bytes received, following the length
\* byte of each.  Bytes with a gap may have a zero there: the loop never ends.
Scan ==
    /\ \/ step = "scan" /\ step' = "set_config"
       \/ step \in {"scan", "hung"} /\ got # [i \in 1..Packets |-> i] /\ step' = "hung"
    /\ UNCHANGED <<dev, address, pc, retry, polls, sent, recv, got, result, want, rx, gap, oddSetup, faults>>

-----------------------------------------------------------------------------
(* usb10_setup_request(): the setup stage. *)

SetupBegin ==
    /\ step \in Requests /\ pc = "begin"
    /\ sent' = [sent EXCEPT ![To] = 1]
    /\ recv' = [recv EXCEPT ![To] = 0]
    /\ got' = <<>> /\ gap' = FALSE /\ oddSetup' = FALSE
    /\ polls' = StatusPolls
    /\ pc' = "setup" /\ retry' = SetupTries - 1
    /\ UNCHANGED <<dev, address, step, result, want, rx, faults>>

SetupPid == 1 - sent[To]

SendSetup ==
    /\ pc = "setup"
    /\ \/ /\ Go("setup_look", retry)
          /\ \/ DeviceSetup(SetupPid) /\ rx' = Handshake("ack") /\ UNCHANGED faults
             \/ /\ (~Hears \/ SetupPid = 1)
                /\ rx' = Nothing /\ UNCHANGED <<dev, oddSetup, faults>>
             \/ Fault("lost") /\ rx' = Nothing /\ UNCHANGED <<dev, oddSetup>>
             \/ Fault("unanswered") /\ DeviceSetup(SetupPid) /\ rx' = Nothing
             \/ Fault("damaged") /\ DeviceSetup(SetupPid) /\ rx' = Handshake("damaged")
       \/ /\ Fault("hung") /\ Fail
          /\ (DeviceSetup(SetupPid) \/ UNCHANGED <<dev, oddSetup>>)
          /\ UNCHANGED rx
    /\ UNCHANGED <<sent, recv, got, want, gap>>

\* The toggle is noted as soon as something is received, be it an ACK or not.
NoteSent == sent' = [sent EXCEPT ![To] = 1 - @]

NextStage == IF step = "led" THEN "out" ELSE "in"

LookSetup ==
    /\ pc = "setup_look"
    /\ \/ rx.kind = "none" /\ AgainOrFail("setup") /\ UNCHANGED sent
       \/ rx.kind = "damaged" /\ AgainOrFail("setup") /\ NoteSent
       \/ rx.kind = "ack" /\ Go(NextStage, DataRetries) /\ NoteSent
    /\ UNCHANGED <<dev, recv, got, want, rx, gap, oddSetup, faults>>

-----------------------------------------------------------------------------
(* IN: the data stage of a read, in usb10_setup_request(), and the status  *)
(* stage of the others, in usb10_in_request().                             *)

SendIn ==
    /\ pc = "in"
    /\ \/ /\ Go("in_look", retry)
          /\ \/ DeviceIn /\ UNCHANGED faults
             \/ ~Hears /\ rx' = Nothing /\ UNCHANGED <<dev, faults>>
             \/ Fault("lost") /\ rx' = Nothing /\ UNCHANGED dev
             \/ Fault("damaged") /\ Hears /\ rx' = Handshake("damaged") /\ UNCHANGED dev
             \/ Fault("nak") /\ Hears /\ rx' = Handshake("nak") /\ UNCHANGED dev
             \/ Fault("stall") /\ Hears /\ rx' = Handshake("stall") /\ UNCHANGED dev
             \/ /\ Fault("odd_pid") /\ Hears
                /\ \E o \in Offers : o.kind = "data" /\ rx' = [o EXCEPT !.kind = "odd_pid"]
                /\ UNCHANGED dev
       \/ Fault("hung") /\ step \notin Reads /\ Fail /\ UNCHANGED <<dev, rx>>
    /\ UNCHANGED <<sent, recv, got, want, gap, oddSetup>>

\* A NAK has no CRC and counts as damaged in the data stage.  In the status
\* stage it ends usb10_in_request; usb10_set_value calls that again.
Refused ==
    IF step \in Sets /\ polls > 1
      THEN /\ pc' = "in" /\ retry' = DataRetries /\ polls' = polls - 1
           /\ UNCHANGED <<address, step, result>>
      ELSE Fail

LookIn ==
    /\ pc = "in_look"
    /\ \/ rx.kind \in {"none", "damaged"} /\ AgainOrFail("in")
       \/ rx.kind = "nak" /\ step \in Reads /\ AgainOrFail("in")
       \/ rx.kind = "nak" /\ step \notin Reads /\ Refused
       \/ rx.kind = "stall" /\ Fail
       \/ rx.kind \in {"data", "odd_pid"} /\ Go("ack", retry)
    /\ UNCHANGED <<dev, sent, recv, got, want, rx, gap, oddSetup, faults>>

\* An ACK for a packet that the host then drops loses it.
SendAck ==
    /\ pc = "ack"
    /\ \/ /\ Go("judge", retry)
          /\ \/ /\ dev' = AfterAck
                /\ gap' = (gap \/ rx.kind = "odd_pid")
                /\ UNCHANGED faults
             \/ Fault("ack_lost") /\ UNCHANGED <<dev, gap>>
       \/ Fault("hung") /\ Fail /\ dev' \in {dev, AfterAck} /\ UNCHANGED gap
    /\ UNCHANGED <<sent, recv, got, want, rx, oddSetup>>

\* Faulty variant: a repeated packet is stored again.
DupeStored == FALSE

Dupe == rx.pid = recv[To]

Last == rx.packet = Packets

Judge ==
    /\ pc = "judge"
    /\ \/ /\ (rx.kind = "odd_pid" \/ Dupe)
          /\ AgainOrFail("in")
          /\ UNCHANGED <<recv, got>>
       \/ /\ rx.kind = "data" /\ ~Dupe
          /\ recv' = [recv EXCEPT ![To] = rx.pid]
          /\ IF step \in Reads
               THEN got' = Append(got, rx.packet)
                    /\ Go(IF Last THEN "out" ELSE "in", DataRetries)
               ELSE Done /\ UNCHANGED got
    /\ UNCHANGED <<dev, sent, want, rx, gap, oddSetup, faults>>

-----------------------------------------------------------------------------
(* usb10_out_request(): the LEDs, and the status stage of a read. *)

SendOut ==
    /\ pc = "out"
    /\ LET pid == 1 - sent[To]
       IN  \/ /\ Go("out_look", retry)
              /\ \/ DeviceOut(pid) /\ rx' = Handshake("ack") /\ UNCHANGED faults
                 \/ ~Hears /\ rx' = Nothing /\ UNCHANGED <<dev, faults>>
                 \/ Fault("lost") /\ rx' = Nothing /\ UNCHANGED dev
                 \/ Fault("unanswered") /\ DeviceOut(pid) /\ rx' = Nothing
                 \/ Fault("damaged") /\ DeviceOut(pid) /\ rx' = Handshake("damaged")
                 \/ Fault("nak") /\ Hears /\ rx' = Handshake("nak") /\ UNCHANGED dev
                 \/ Fault("stall") /\ Hears /\ rx' = Handshake("stall") /\ UNCHANGED dev
           \/ Fault("hung") /\ Fail /\ (DeviceOut(pid) \/ UNCHANGED dev) /\ UNCHANGED rx
    /\ UNCHANGED <<sent, recv, got, want, gap, oddSetup>>

\* Faulty variant: the loop is left without an answer and nobody notices.
OutUnansweredIgnored == Go("in", DataRetries)

OutUnanswered == AgainOrFail("out")

LookOut ==
    /\ pc = "out_look"
    /\ \/ rx.kind = "none" /\ OutUnanswered /\ UNCHANGED sent
       \/ rx.kind = "damaged" /\ AgainOrFail("out") /\ UNCHANGED sent
       \/ rx.kind \in {"nak", "stall"} /\ Fail /\ UNCHANGED sent
       \/ /\ rx.kind = "ack"
          /\ NoteSent
          /\ IF step = "led" THEN Go("in", DataRetries) ELSE Done
    /\ UNCHANGED <<dev, recv, got, want, rx, gap, oddSetup, faults>>

Transfer == SetupBegin \/ SendSetup \/ LookSetup \/ SendIn \/ LookIn \/ SendAck
            \/ Judge \/ SendOut \/ LookOut

Host == StartInit \/ NoDevice \/ BusReset \/ Scan \/ Transfer

Next == Host \/ PollsFail \/ SetLed \/ Unplug

\* The client goes on, and polls between one call of set_led and the next; the
\* bus works when its faults are used up.
Spec == Init /\ [][Next]_vars /\ WF_vars(Host) /\ SF_vars(NoDevice)

-----------------------------------------------------------------------------
\* Whoever sees an address in usb10_device_address finds a device there that
\* is configured and has that address, whatever was lost on the way: a lost
\* ACK of SET_ADDRESS leaves the two apart and must not get that far.  Only a
\* device plugged in since is not yet known to be new.
ReadyIsConfigured ==
    address # 0 => dev.addr = Deaf \/ (dev.addr = address /\ dev.conf)

\* What usb10_init scans is the whole descriptor, each packet once and in
\* order, unless a packet was acknowledged whose PID made the host drop it.
\* The endless loop of the scan is then the only way to hang.
DescriptorWhole ==
    step \in {"scan", "hung"} => gap \/ (step = "scan" /\ got = [i \in 1..Packets |-> i])

\* usb10_hid_set_led returns success only if the device has the LEDs it was
\* sent, unless it took a SETUP with DATA1, which spoils the toggle of the
\* data that follows (usb10.c:178), or was unplugged.
LedApplied ==
    [][step = "led" /\ step' # "led" /\ result' = "ok"
       => dev'.led = want \/ oddSetup \/ dev.addr = Deaf]_vars

\* When the bus works again the device is enumerated and stays so, unless the
\* scan of a broken descriptor hangs: no toggle, address or stage left over
\* from a failed attempt keeps the next ones from succeeding.
EnumerationSucceeds == <>[](step = "hung" \/ (address # 0 /\ dev.addr = address /\ dev.conf))
=============================================================================
