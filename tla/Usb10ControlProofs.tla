------------------------- MODULE Usb10ControlProofs -------------------------
(***************************************************************************)
(* Theorems about Usb10Control: its types, and the safety properties of    *)
(* the enumeration and of the LEDs.  The invariant follows a request from  *)
(* stage to stage: where the device is (StageInv), which packet host and   *)
(* device are at and which toggle that implies (StoredInv, ArrivedInv,     *)
(* DeviceInv), and what both know of the address (AddressInv).             *)
(* Then, that nothing is stored twice even after a packet was lost         *)
(* (NewerInv), and so that the steps of a request are bounded.             *)
(***************************************************************************)
EXTENDS Usb10Control, TLAPS

DataPcs == {"in", "in_look", "ack", "judge"}

OutPcs == {"out", "out_look"}

Absent == dev.addr = Deaf

Upto(n) == [i \in 1..n |-> i]

\* Where the control is, and what the receiver holds there.
FlowInv ==
    /\ pc # "begin" => step \in Requests
    /\ pc \in OutPcs => step \notin Sets
    /\ pc \in {"ack", "judge"} => rx.kind \in {"data", "odd_pid"}

\* The device has begun to execute the request.
Taken ==
    /\ dev.addr = To
    /\ dev.stage = StageOf[step] /\ dev.next = 1 /\ dev.toggle = 1
    /\ step = "set_config" => dev.conf

SetupInv ==
    /\ pc \in {"setup", "setup_look"} => got = <<>> /\ ~gap /\ recv[To] = 0
    /\ pc = "setup_look" /\ rx.kind = "ack" => Absent \/ Taken

\* Only a read has the device send packets, and the host stays where it is.
StageInv ==
    ~Absent =>
      /\ step \in Reads /\ pc \in DataPcs => dev.addr = To /\ dev.stage = "in"
      /\ step \notin Reads /\ pc \in DataPcs \cup OutPcs => dev.stage # "in"

\* What was stored is the descriptor so far.
StoredInv ==
    /\ step \in Reads /\ pc \in DataPcs =>
         gap \/ (Len(got) < Packets /\ got = Upto(Len(got)) /\ recv[To] = Len(got) % 2)
    /\ step = "scan" \/ (step \in Reads /\ pc \in OutPcs) => gap \/ got = Upto(Packets)
    /\ step = "hung" => gap

Arrived == pc \in {"ack", "judge"} \/ (pc = "in_look" /\ rx.kind \in {"data", "odd_pid"})

\* The packet received is the one the device is at, until its ACK arrives.
ArrivedInv ==
    step \in Reads /\ Arrived =>
      /\ rx.packet > 0
      /\ ~gap => rx.pid = rx.packet % 2 /\ rx.packet \in {Len(got), Len(got) + 1}
      /\ pc # "judge" => Absent \/ dev.next = rx.packet
      /\ pc = "judge" => gap \/ Absent \/ dev.next = rx.packet
                             \/ (rx.kind = "data" /\ dev.next = rx.packet + 1)

\* The device is at the packet stored last or at the next.
DeviceInv ==
    step \in Reads /\ pc \in DataPcs /\ ~gap /\ ~Absent =>
      /\ dev.toggle = dev.next % 2
      /\ pc # "judge" => dev.next \in {Len(got), Len(got) + 1}

Configured == Absent \/ (dev.addr = 1 /\ dev.conf)

AddressInv ==
    /\ address # 0 => step \in {"ready", "led"}
    /\ step = "ready" => address = 1
    /\ step \in {"ready", "led"} => Configured
    /\ step = "set_config" /\ pc \in DataPcs => Configured

LedInv ==
    step = "led" /\ ~oddSetup /\ ~Absent =>
      /\ pc = "setup_look" /\ rx.kind = "ack" => sent[To] = 1
      /\ pc \in OutPcs =>
           /\ dev.addr = To /\ sent[To] = 0
           /\ dev.stage = "data_out" \/ (dev.stage = "status_in" /\ dev.led = want)
      /\ pc = "out_look" /\ rx.kind = "ack" => dev.led = want
      /\ pc \in DataPcs => dev.led = want

Stages == {"idle", "in", "data_out", "status_in"}

Device == [addr: Addresses \cup {Deaf}, conf: BOOLEAN, led: {"off", "on"},
           stage: Stages, req: Requests, next: 1..(Packets + 1), toggle: Toggles]

ControlInv == /\ TypeOK /\ FlowInv /\ SetupInv /\ StageInv /\ StoredInv
              /\ ArrivedInv /\ DeviceInv /\ AddressInv /\ LedInv

-----------------------------------------------------------------------------

\* What a record of a device is made of.
LEMMA Fields ==
    ASSUME NEW d \in Device
    PROVE  /\ d.addr \in Addresses \cup {Deaf} /\ d.conf \in BOOLEAN
           /\ d.led \in {"off", "on"} /\ d.stage \in Stages /\ d.req \in Requests
           /\ d.next \in 1..(Packets + 1) /\ d.toggle \in Toggles
  BY SMT DEF Device

LEMMA NewStage ==
    ASSUME NEW d \in Device, NEW s \in Stages, NEW e, e = [d EXCEPT !.stage = s]
    PROVE  /\ e \in Device
           /\ e.addr = d.addr /\ e.stage = s /\ e.conf = d.conf /\ e.led = d.led
  <1>1. e = [addr |-> d.addr, conf |-> d.conf, led |-> d.led, stage |-> s, req |-> d.req, next |-> d.next,
             toggle |-> d.toggle]
    BY Zenon DEF Device
  <1>2. /\ d.addr \in Addresses \cup {Deaf} /\ d.conf \in BOOLEAN /\ d.led \in {"off", "on"}
        /\ d.req \in Requests /\ d.next \in 1..(Packets + 1) /\ d.toggle \in Toggles
    BY SMT DEF Device
  <1>3. e \in Device
    BY <1>1, <1>2, Zenon DEF Device
  <1> QED
    BY <1>1, <1>3, Zenon

LEMMA FreshDevice ==
    /\ Fresh \in Device /\ [Fresh EXCEPT !.addr = Deaf] \in Device
    /\ Fresh.addr = 0 /\ [Fresh EXCEPT !.addr = Deaf].addr = Deaf
  <1>1. 1 \in 1..(Packets + 1)
    BY ControlAssumption, SMT
  <1>2. /\ Fresh \in [addr: {0}, conf: BOOLEAN, led: {"off"}, stage: {"idle"},
                      req: {"device"}, next: {1}, toggle: {1}]
        /\ Fresh.addr = 0
    BY Zenon DEF Fresh
  <1>3. Fresh \in Device
    BY <1>1, <1>2, SMT DEF Device, Stages, Addresses, Requests, Reads, Toggles
  <1>4. [Fresh EXCEPT !.addr = Deaf] \in Device /\ [Fresh EXCEPT !.addr = Deaf].addr = Deaf
    BY <1>3, SMT DEF Device
  <1> QED
    BY <1>2, <1>3, <1>4

LEMMA SetupTaken ==
    ASSUME TypeOK, step \in Requests, NEW pid \in Toggles, DeviceSetup(pid)
    PROVE  /\ dev' \in Device
           /\ dev.addr = To /\ dev'.addr = To
           /\ dev'.stage = StageOf[step] /\ dev'.next = 1 /\ dev'.toggle = 1
           /\ step = "set_config" => dev'.conf
           /\ dev.conf => dev'.conf
           /\ dev'.led = dev.led
           /\ oddSetup' \in BOOLEAN
           /\ pid = 1 => oddSetup'
           /\ oddSetup => oddSetup'
  <1> DEFINE s == StageOf[step]
             c == dev.conf \/ step = "set_config"
  <1>1. dev' = [dev EXCEPT !.req = step, !.stage = s, !.next = 1, !.toggle = 1, !.conf = c]
    BY DEF DeviceSetup, TakeSetup
  <1>2. dev \in Device /\ dev.addr = To
    BY DEF TypeOK, Device, Stages, DeviceSetup, Hears
  <1>3. s \in Stages /\ 1 \in Toggles
    BY DEF StageOf, Stages, Toggles
  <1>4. c \in BOOLEAN
    OBVIOUS
  <1>5. 1 \in 1..(Packets + 1)
    BY ControlAssumption, SMT
  <1> HIDE DEF s, c
  <1>6. dev' = [addr |-> dev.addr, conf |-> c, led |-> dev.led, stage |-> s, req |-> step,
                next |-> 1, toggle |-> 1]
    BY <1>1, <1>2, Zenon DEF Device
  <1>8. dev' \in Device
    BY <1>2, <1>3, <1>4, <1>5, <1>6, Fields, Zenon DEF Device
  <1>7. oddSetup' = (oddSetup \/ pid = 1)
    BY DEF DeviceSetup
  <1> QED
    BY <1>2, <1>6, <1>7, <1>8, Zenon DEF s, c

LEMMA InAnswered ==
    ASSUME TypeOK, DeviceIn
    PROVE  /\ dev' \in Device
           /\ dev.addr = To /\ dev'.addr = dev.addr /\ dev'.conf = dev.conf /\ dev'.led = dev.led
           /\ dev.stage = "in" => dev' = dev
           /\ dev.stage # "in" => dev'.stage # "in"
           /\ rx' \in [kind: {"none", "ack", "nak", "stall", "data", "damaged", "odd_pid"},
                       pid: Toggles, packet: 0..Packets]
           /\ rx'.kind \in {"data", "nak", "stall"}
           /\ dev.stage = "in" /\ rx'.kind = "data" =>
                rx'.packet = dev.next /\ rx'.pid = dev.toggle
  <1>1. dev \in Device
    BY DEF TypeOK, Device, Stages
  <1>2. dev.addr = To
    BY DEF DeviceIn, Hears
  <1>3. 0 \in 0..Packets /\ dev.next \in Nat
    BY <1>1, ControlAssumption, SMT DEF Device
  <1>4. /\ Handshake("nak") = [kind |-> "nak", pid |-> 0, packet |-> 0]
        /\ Handshake("stall") = [kind |-> "stall", pid |-> 0, packet |-> 0]
    BY DEF Handshake, Nothing
  <1>5. CASE rx' \in Offers /\ dev' = dev
    <2>1. CASE dev.stage = "in" /\ dev.next <= Packets
      <3>1. rx' = [kind |-> "data", pid |-> dev.toggle, packet |-> dev.next]
        BY <1>5, <2>1 DEF Offers
      <3>2. dev.toggle \in Toggles /\ dev.next \in 0..Packets
        BY <1>1, <2>1, ControlAssumption, SMT DEF Device
      <3> QED
        BY <1>1, <1>2, <1>5, <2>1, <3>1, <3>2
    <2>2. CASE ~(dev.stage = "in" /\ dev.next <= Packets)
      <3>1. \/ dev.stage # "in" /\ rx' = [kind |-> "data", pid |-> 1, packet |-> 0]
            \/ rx' = Handshake("nak") \/ rx' = Handshake("stall")
        BY <1>5, <2>2 DEF Offers
      <3> QED
        BY <1>1, <1>2, <1>3, <1>4, <1>5, <3>1, SMT DEF Toggles
    <2> QED
      BY <2>1, <2>2
  <1>6. CASE /\ dev.stage = "data_out"
             /\ rx' = [kind |-> "data", pid |-> 1, packet |-> 0]
             /\ dev' = [dev EXCEPT !.stage = "status_in"]
    <2>1. "status_in" \in Stages
      BY DEF Stages
    <2>2. /\ dev' \in Device
          /\ dev'.addr = dev.addr /\ dev'.stage = "status_in" /\ dev'.conf = dev.conf
          /\ dev'.led = dev.led
      BY <1>1, <1>6, <2>1, NewStage
    <2> QED
      BY <1>2, <1>3, <1>6, <2>2, SMT DEF Toggles
  <1> QED
    BY <1>5, <1>6 DEF DeviceIn

LEMMA AckTaken ==
    ASSUME TypeOK, dev' = AfterAck, dev.stage = "in" => dev.addr # To \/ dev.next <= Packets
    PROVE  /\ dev' \in Device
           /\ dev'.conf = dev.conf /\ dev'.led = dev.led
           /\ dev.addr = Deaf => dev' = dev
           /\ dev'.addr \in {dev.addr, 1}
           /\ dev.stage = "in" => dev'.addr = dev.addr /\ dev'.stage = "in"
           /\ dev.stage # "in" => dev'.stage # "in"
           /\ dev.addr = To /\ dev.stage = "in" => dev'.next = dev.next + 1 /\ dev'.toggle = 1 - dev.toggle
           /\ dev'.addr = Deaf => dev.addr = Deaf
  <1>1. dev \in Device
    BY DEF TypeOK, Device, Stages
  <1>2. To \in Addresses
    BY DEF TypeOK, To, Addresses
  <1>3. CASE ~Hears
    BY <1>1, <1>2, <1>3, SMT DEF AfterAck, Hears
  <1>4. CASE Hears /\ dev.stage = "in"
    <2> DEFINE n == dev.next + 1
               t == 1 - dev.toggle
    <2>1. dev' = [dev EXCEPT !.next = n, !.toggle = t]
      BY <1>4 DEF AfterAck
    <2>2. n \in 1..(Packets + 1) /\ t \in Toggles
      BY <1>1, <1>4, ControlAssumption, SMT DEF Device, Toggles, Hears
    <2> HIDE DEF n, t
    <2>3. dev' = [addr |-> dev.addr, conf |-> dev.conf, led |-> dev.led, stage |-> dev.stage,
                  req |-> dev.req, next |-> n, toggle |-> t]
      BY <1>1, <2>1, Zenon DEF Device
    <2>4. dev' \in Device
      BY <1>1, <2>2, <2>3, Fields, Zenon DEF Device
    <2> QED
      BY <1>2, <1>4, <2>3, <2>4, SMT DEF Hears, Addresses, Deaf, n, t
  <1>5. CASE Hears /\ dev.stage # "in"
    <2> DEFINE a == IF dev.req = "set_address" THEN 1 ELSE dev.addr
    <2>1. dev' = [dev EXCEPT !.stage = "idle", !.addr = a]
      BY <1>5 DEF AfterAck
    <2>2. a \in Addresses /\ a \in {dev.addr, 1}
      BY <1>2, <1>5, SMT DEF Hears, Addresses
    <2> HIDE DEF a
    <2>3. dev' = [addr |-> a, conf |-> dev.conf, led |-> dev.led, stage |-> "idle",
                  req |-> dev.req, next |-> dev.next, toggle |-> dev.toggle]
      BY <1>1, <2>1, Zenon DEF Device
    <2>4. dev' \in Device
      <3>1. "idle" \in Stages
        BY DEF Stages
      <3> QED
        BY <1>1, <2>2, <2>3, <3>1, Fields, Zenon DEF Device
    <2> QED
      BY <1>2, <1>5, <2>2, <2>3, <2>4, SMT DEF Hears, Addresses, Deaf
  <1> QED
    BY <1>3, <1>4, <1>5

LEMMA OutTaken ==
    ASSUME TypeOK, NEW pid \in Toggles, DeviceOut(pid)
    PROVE  /\ dev' \in Device
           /\ dev.addr = To /\ dev'.addr = dev.addr /\ dev'.conf = dev.conf
           /\ dev.stage # "in" => dev'.stage # "in"
           /\ pid = 1 /\ dev.stage = "data_out" => dev'.stage = "status_in" /\ dev'.led = want
           /\ dev.stage = "status_in" => dev'.stage = "status_in" /\ dev'.led = dev.led
  <1>1. dev \in Device
    BY DEF TypeOK, Device, Stages
  <1>2. want \in {"off", "on"}
    BY DEF TypeOK
  <1>3. dev.addr = To
    BY DEF DeviceOut, Hears
  <1>4. CASE pid = 0 \/ dev.stage \notin {"data_out", "in"}
    BY <1>1, <1>3, <1>4, SMT DEF DeviceOut
  <1>5. CASE pid # 0 /\ dev.stage = "data_out"
    <2>1. dev' = [dev EXCEPT !.led = want, !.stage = "status_in"]
      BY <1>5 DEF DeviceOut
    <2>2. dev' = [addr |-> dev.addr, conf |-> dev.conf, led |-> want, stage |-> "status_in",
                  req |-> dev.req, next |-> dev.next, toggle |-> dev.toggle]
      BY <1>1, <2>1, Zenon DEF Device
    <2>3. "status_in" \in Stages
      BY DEF Stages
    <2>4. dev' \in Device
      BY <1>1, <1>2, <2>2, <2>3, Fields, Zenon DEF Device
    <2> QED
      BY <1>3, <1>5, <2>2, <2>4
  <1>6. CASE pid # 0 /\ dev.stage = "in"
    <2>1. dev' = [dev EXCEPT !.stage = "idle"] /\ "idle" \in Stages
      BY <1>6 DEF DeviceOut, Stages
    <2>2. /\ dev' \in Device
          /\ dev'.addr = dev.addr /\ dev'.stage = "idle" /\ dev'.conf = dev.conf
      BY <1>1, <2>1, NewStage
    <2> QED
      BY <1>3, <1>6, <2>2
  <1> QED
    BY <1>4, <1>5, <1>6

-----------------------------------------------------------------------------
(* How requests end, and what then remains to be shown. *)

LEMMA Begins ==
    ASSUME pc' = "begin", TypeOK', AddressInv',
           step' = "scan" => gap' \/ got' = Upto(Packets), step' = "hung" => gap'
    PROVE  ControlInv'
  BY DEF ControlInv, FlowInv, SetupInv, StageInv, StoredInv, ArrivedInv, DeviceInv, LedInv,
         DataPcs, OutPcs, Arrived

LEMMA FailEnds ==
    ASSUME TypeOK, AddressInv, Fail
    PROVE  /\ pc' = "begin" /\ result' = "failed" /\ retry' = 0 /\ polls' = 0
           /\ step' \in {"off", "ready"} /\ address' \in {0, address}
           /\ address' # 0 => step' = "ready"
           /\ step' = "ready" => step = "led" /\ address' = 1
  BY DEF Fail, AfterLed, TypeOK, AddressInv, Addresses

LEMMA DoneEnds ==
    ASSUME TypeOK, AddressInv, Done, step \in Requests \cup {"reset1", "reset2"}
    PROVE  /\ pc' = "begin" /\ result' = "ok" /\ retry' = 0 /\ polls' = 0
           /\ step' \in Steps /\ step' \notin {"led", "hung"}
           /\ step' = "scan" => step = "config"
           /\ address' \in Addresses
           /\ address' # 0 => step' = "ready"
           /\ step' = "ready" => step \in {"set_config", "led"} /\ address' = 1
  <1>1. step' = IF step = "led" THEN AfterLed ELSE After[step]
    BY DEF Done
  <1>2. address' = IF step = "set_config" THEN 1 ELSE address
    BY DEF Done, Publish
  <1>3. step \in Steps /\ address \in Addresses
    BY DEF TypeOK
  <1>4. /\ step = "reset1" => After[step] = "device"
        /\ step = "device" => After[step] = "reset2"
        /\ step = "reset2" => After[step] = "set_address"
        /\ step = "set_address" => After[step] = "config"
        /\ step = "config" => After[step] = "scan"
        /\ step = "set_config" => After[step] = "ready"
    BY <1>3 DEF After
  <1>5. pc' = "begin" /\ result' = "ok" /\ retry' = 0 /\ polls' = 0
    BY DEF Done
  <1>6. CASE step = "led"
    <2>1. address' = address /\ step' \in {"off", "ready"} /\ (step' = "off" <=> address = 0)
      BY <1>1, <1>2, <1>6 DEF AfterLed
    <2>2. step' \in Steps
      BY <2>1 DEF Steps
    <2>3. address \in {0, 1}
      BY <1>3, SMT DEF Addresses
    <2> QED
      BY <1>3, <1>5, <1>6, <2>1, <2>2, <2>3
  <1>7. CASE step # "led"
    <2>1. /\ step' \in {"device", "reset2", "set_address", "config", "scan", "ready"}
          /\ step' = "scan" => step = "config"
          /\ step' = "ready" => step = "set_config"
      BY <1>1, <1>4, <1>7 DEF Requests, Reads, Sets
    <2>2. step' \in Steps
      BY <2>1 DEF Steps, Requests, Reads, Sets
    <2>3. address = 0 /\ 1 \in Addresses /\ 0 \in Addresses
      BY <1>7, SMT DEF AddressInv, Addresses, Requests, Reads, Sets
    <2>4. address' = IF step' = "ready" THEN 1 ELSE 0
      BY <1>1, <1>2, <1>4, <1>7, <2>1, <2>3
    <2> QED
      BY <1>5, <2>1, <2>2, <2>3, <2>4
  <1> QED
    BY <1>6, <1>7

Receivable == [kind: {"none", "ack", "nak", "stall", "data", "damaged", "odd_pid"},
               pid: Toggles, packet: 0..Packets]

LEMMA Handshakes ==
    ASSUME NEW kind \in {"none", "ack", "nak", "stall", "damaged"}
    PROVE  Handshake(kind) \in Receivable /\ Handshake(kind).kind = kind
  <1>1. Handshake(kind) = [kind |-> kind, pid |-> 0, packet |-> 0]
    BY DEF Handshake, Nothing
  <1>2. 0 \in 0..Packets
    BY ControlAssumption, SMT
  <1> QED
    BY <1>1, <1>2 DEF Receivable, Toggles

LEMMA NothingReceived == Nothing \in Receivable /\ Nothing.kind = "none"
  <1>1. 0 \in 0..Packets
    BY ControlAssumption, SMT
  <1> QED
    BY <1>1 DEF Nothing, Receivable, Toggles

\* A stage starts again or the request fails.
LEMMA Tries ==
    ASSUME TypeOK, AddressInv, NEW where, AgainOrFail(where)
    PROVE  \/ Fail
           \/ /\ pc' = where /\ retry' \in 0..(SetupTries + DataRetries)
              /\ UNCHANGED <<address, step, result, polls>>
  BY ControlAssumption DEF AgainOrFail, Go, TypeOK

\* The types of a step that does not end a request.
LEMMA KeepsTypes ==
    ASSUME TypeOK, UNCHANGED <<address, step, result, polls, want>>,
           dev' \in Device, rx' \in Receivable,
           sent' \in [Addresses -> Toggles], recv' \in [Addresses -> Toggles],
           got' \in Seq(1..Packets), gap' \in BOOLEAN, oddSetup' \in BOOLEAN,
           retry' \in 0..(SetupTries + DataRetries), faults' \in 0..MaxFaults,
           pc' \in {"begin", "setup", "setup_look", "in", "in_look", "ack", "judge",
                    "out", "out_look"}
    PROVE  TypeOK'
  BY Zenon DEF TypeOK, Device, Receivable, Stages

\* A step that fails the request.
LEMMA FailKeeps ==
    ASSUME ControlInv, Fail, UNCHANGED <<recv, got, want>>,
           dev' \in Device, dev'.addr \in {dev.addr, 1}, dev.conf => dev'.conf,
           dev.addr = Deaf => dev' = dev,
           rx' \in Receivable, sent' \in [Addresses -> Toggles], gap' \in BOOLEAN,
           oddSetup' \in BOOLEAN, faults' \in 0..MaxFaults
    PROVE  ControlInv'
  <1>1. TypeOK /\ AddressInv
    BY DEF ControlInv
  <1>2. /\ pc' = "begin" /\ result' = "failed" /\ retry' = 0 /\ polls' = 0
        /\ step' \in {"off", "ready"} /\ address' \in {0, address}
        /\ address' # 0 => step' = "ready"
        /\ step' = "ready" => step = "led" /\ address' = 1
    BY <1>1, FailEnds
  <1>3. 0 \in 0..(SetupTries + DataRetries) /\ 0 \in 0..StatusPolls /\ 0 \in Addresses
    BY ControlAssumption, SMT DEF Addresses
  <1>4. step' \in Steps /\ address' \in Addresses
    BY <1>1, <1>2, <1>3, Zenon DEF Steps, TypeOK
  <1>5. TypeOK'
    BY <1>1, <1>2, <1>3, <1>4, Zenon DEF TypeOK, Device, Receivable, Stages
  <1>6. AddressInv'
    BY <1>1, <1>2 DEF AddressInv, Configured, Absent, DataPcs
  <1> QED
    BY <1>2, <1>5, <1>6, Begins

LEMMA Faults ==
    ASSUME TypeOK, UNCHANGED faults \/ \E kind \in AllFaults : Fault(kind)
    PROVE  faults' \in 0..MaxFaults
  BY ControlAssumption, SMT DEF TypeOK, Fault

-----------------------------------------------------------------------------
(* The client, the bus reset and the unplugging. *)

LEMMA Initially == Init => ControlInv
  <1> SUFFICES ASSUME Init PROVE ControlInv
    OBVIOUS
  <1>1. dev \in Device /\ dev.addr = Deaf
    BY FreshDevice DEF Init
  <1>2. rx \in Receivable
    BY NothingReceived DEF Init
  <1>3. 0 \in 0..(SetupTries + DataRetries) /\ 0 \in 0..StatusPolls /\ 0 \in 0..MaxFaults
    BY ControlAssumption, SMT
  <1>4. <<>> \in Seq(1..Packets)
    OBVIOUS
  <1>5. TypeOK
    <2>1. gap \in BOOLEAN /\ oddSetup \in BOOLEAN
      BY DEF Init
    <2>2. address \in Addresses /\ step \in Steps
      BY DEF Init, Addresses, Steps
    <2>3. sent \in [Addresses -> Toggles] /\ recv \in [Addresses -> Toggles]
      BY DEF Init, Toggles
    <2>4. /\ pc = "begin" /\ result = "ok" /\ want = "off"
          /\ retry = 0 /\ polls = 0 /\ faults = 0 /\ got = <<>>
      BY DEF Init
    <2> QED
      BY <1>1, <1>2, <1>3, <1>4, <2>1, <2>2, <2>3, <2>4, Zenon DEF TypeOK, Device, Receivable, Stages
  <1>6. AddressInv
    BY DEF Init, AddressInv, DataPcs
  <1> QED
    BY <1>5, <1>6 DEF Init, ControlInv, FlowInv, SetupInv, StageInv, StoredInv, ArrivedInv,
       DeviceInv, LedInv, DataPcs, OutPcs, Arrived

LEMMA StartInitKeeps == ControlInv /\ StartInit => ControlInv'
  <1> SUFFICES ASSUME ControlInv, StartInit PROVE ControlInv'
    OBVIOUS
  <1>1. step' = "reset1" /\ UNCHANGED <<dev, address, pc, retry, polls, sent, recv, got, result,
                                         want, rx, gap, oddSetup, faults>>
    BY DEF StartInit, First
  <1>2. pc = "begin" /\ address = 0
    BY DEF StartInit, ControlInv, FlowInv, AddressInv, Requests, Reads, Sets
  <1>3. TypeOK'
    <2>1. TypeOK
      BY DEF ControlInv
    <2>2. step' \in Steps
      BY <1>1 DEF Steps
    <2> QED
      BY <1>1, <2>1, <2>2, SMT DEF TypeOK
  <1>4. AddressInv'
    BY <1>1, <1>2 DEF AddressInv, DataPcs
  <1> QED
    BY <1>1, <1>2, <1>3, <1>4, Begins

LEMMA GiveUpKeeps ==
    ASSUME ControlInv, GiveUp, faults' \in 0..MaxFaults
    PROVE  ControlInv'
  <1>1. /\ step = "ready" /\ address' = 0 /\ step' \in {"off", "led"}
        /\ UNCHANGED <<dev, pc, retry, polls, sent, recv, got, result, want, rx, gap, oddSetup>>
    BY DEF GiveUp
  <1>2. pc = "begin"
    BY <1>1 DEF ControlInv, FlowInv, Requests, Reads, Sets
  <1>3. step' \in Steps /\ 0 \in Addresses
    BY <1>1 DEF Steps, Requests, Addresses
  <1>4. TypeOK'
    <2>1. TypeOK
      BY DEF ControlInv
    <2> QED
      BY <1>1, <1>3, <2>1, SMT DEF TypeOK
  <1>5. AddressInv'
    BY <1>1, <1>2 DEF ControlInv, AddressInv, DataPcs, Configured, Absent
  <1> QED
    BY <1>1, <1>2, <1>4, <1>5, Begins

LEMMA SetLedKeeps == ControlInv /\ SetLed => ControlInv'
  <1> SUFFICES ASSUME ControlInv, SetLed PROVE ControlInv'
    OBVIOUS
  <1>1. /\ step = "ready" /\ step' = "led" /\ want' \in {"off", "on"}
        /\ UNCHANGED <<dev, address, pc, retry, polls, sent, recv, got, result, rx, gap,
                       oddSetup, faults>>
    BY DEF SetLed
  <1>2. pc = "begin"
    BY <1>1 DEF ControlInv, FlowInv, Requests, Reads, Sets
  <1>3. step' \in Steps
    BY <1>1 DEF Steps, Requests
  <1>4. TypeOK'
    <2>1. TypeOK
      BY DEF ControlInv
    <2> QED
      BY <1>1, <1>3, <2>1, SMT DEF TypeOK
  <1>5. AddressInv'
    BY <1>1, <1>2 DEF ControlInv, AddressInv, DataPcs, Configured, Absent
  <1> QED
    BY <1>1, <1>2, <1>4, <1>5, Begins

LEMMA ScanKeeps == ControlInv /\ Scan => ControlInv'
  <1> SUFFICES ASSUME ControlInv, Scan PROVE ControlInv'
    OBVIOUS
  <1>1. /\ step \in {"scan", "hung"} /\ step' \in {"set_config", "hung"}
        /\ step' = "hung" => got # Upto(Packets)
        /\ UNCHANGED <<dev, address, pc, retry, polls, sent, recv, got, result, want, rx, gap,
                       oddSetup, faults>>
    BY DEF Scan, Upto
  <1>2. pc = "begin" /\ address = 0
    BY <1>1 DEF ControlInv, FlowInv, AddressInv, Requests, Reads, Sets, TypeOK
  <1>3. step' \in Steps
    BY <1>1 DEF Steps, Requests, Sets
  <1>4. TypeOK'
    <2>1. TypeOK
      BY DEF ControlInv
    <2> QED
      BY <1>1, <1>3, <2>1, SMT DEF TypeOK
  <1>5. AddressInv'
    BY <1>1, <1>2 DEF AddressInv, DataPcs
  <1>6. step' = "hung" => gap'
    BY <1>1 DEF ControlInv, StoredInv
  <1> QED
    BY <1>1, <1>2, <1>4, <1>5, <1>6, Begins

LEMMA BusResetKeeps == ControlInv /\ BusReset => ControlInv'
  <1> SUFFICES ASSUME ControlInv, BusReset PROVE ControlInv'
    OBVIOUS
  <1>1. step \in {"reset1", "reset2"} /\ UNCHANGED <<got, want, rx, gap, oddSetup>>
    BY DEF BusReset
  <1>2. TypeOK /\ AddressInv /\ address = 0
    BY <1>1 DEF ControlInv, AddressInv, TypeOK
  <1>3. dev \in Device /\ rx \in Receivable
    BY <1>2 DEF TypeOK, Device, Receivable, Stages
  <1>4. CASE /\ dev' = Fresh
             /\ sent' = [a \in Addresses |-> 1] /\ recv' = [a \in Addresses |-> 0]
             /\ Done /\ UNCHANGED faults
    <2>1. /\ pc' = "begin" /\ result' = "ok" /\ retry' = 0 /\ polls' = 0
          /\ step' \in Steps /\ step' \notin {"led", "hung"}
          /\ step' = "scan" => step = "config"
          /\ address' \in Addresses
          /\ address' # 0 => step' = "ready"
          /\ step' = "ready" => step \in {"set_config", "led"} /\ address' = 1
      BY <1>1, <1>2, <1>4, DoneEnds
    <2>2. dev' \in Device
      BY <1>4, FreshDevice
    <2>3. sent' \in [Addresses -> Toggles] /\ recv' \in [Addresses -> Toggles]
      BY <1>4 DEF Toggles
    <2>4. 0 \in 0..(SetupTries + DataRetries) /\ 0 \in 0..StatusPolls
      BY ControlAssumption, SMT
    <2>5. TypeOK'
      <3>1. /\ pc' = "begin" /\ result' = "ok" /\ retry' = 0 /\ polls' = 0
            /\ step' \in Steps /\ address' \in Addresses
            /\ UNCHANGED <<got, want, rx, gap, oddSetup, faults>>
        BY <1>1, <1>4, <2>1
      <3> QED
        BY <1>2, <2>2, <2>3, <2>4, <3>1, SMT DEF TypeOK, Device, Stages
    <2>6. AddressInv'
      <3>1. CASE step' = "ready"
        BY <1>1, <2>1, <3>1
      <3>2. CASE step' # "ready"
        BY <1>2, <2>1, <3>2 DEF AddressInv, DataPcs
      <3> QED
        BY <3>1, <3>2
    <2> QED
      BY <1>1, <2>1, <2>5, <2>6, Begins
  <1>5. CASE /\ Fault("hung") /\ dev' \in {dev, Fresh} /\ Fail /\ UNCHANGED <<sent, recv>>
    <2>1. /\ pc' = "begin" /\ result' = "failed" /\ retry' = 0 /\ polls' = 0
          /\ step' \in {"off", "ready"} /\ address' \in {0, address}
          /\ address' # 0 => step' = "ready"
          /\ step' = "ready" => step = "led" /\ address' = 1
      BY <1>2, <1>5, FailEnds
    <2>2. dev' \in Device
      BY <1>3, <1>5, FreshDevice
    <2>3. step' = "off" /\ address' = 0
      BY <1>1, <1>2, <2>1
    <2>4. 0 \in 0..(SetupTries + DataRetries) /\ 0 \in 0..StatusPolls
      BY ControlAssumption, SMT
    <2>5. faults' \in 0..MaxFaults
      BY <1>2, <1>5, Faults DEF AllFaults
    <2>6. TypeOK'
      BY <1>1, <1>2, <1>5, <2>1, <2>2, <2>3, <2>4, <2>5, Zenon
         DEF TypeOK, Device, Stages, Steps, Addresses
    <2>7. AddressInv'
      BY <2>1, <2>3 DEF AddressInv, DataPcs
    <2> QED
      BY <2>1, <2>3, <2>6, <2>7, Begins
  <1> QED
    BY <1>4, <1>5 DEF BusReset

LEMMA UnplugKeeps == ControlInv /\ Unplug => ControlInv'
  <1> SUFFICES ASSUME ControlInv, Unplug PROVE ControlInv'
    OBVIOUS
  <1>1. /\ dev' \in Device /\ dev'.addr = Deaf
        /\ UNCHANGED <<address, step, pc, retry, polls, sent, recv, got, result, want>>
        /\ UNCHANGED <<rx, gap, oddSetup>>
    BY FreshDevice DEF Unplug, host
  <1>2. faults' \in 0..MaxFaults
    BY Faults DEF Unplug, AllFaults, ControlInv
  <1>3. TypeOK'
    BY <1>1, <1>2, Zenon DEF ControlInv, TypeOK, Device, Stages
  <1>4. FlowInv'
    BY <1>1 DEF ControlInv, FlowInv
  <1>5. SetupInv'
    BY <1>1 DEF ControlInv, SetupInv, Absent, To
  <1>6. StageInv' /\ DeviceInv' /\ LedInv'
    BY <1>1 DEF StageInv, DeviceInv, LedInv, Absent
  <1>7. StoredInv'
    BY <1>1 DEF ControlInv, StoredInv, To
  <1>8. ArrivedInv'
    BY <1>1 DEF ControlInv, ArrivedInv, Arrived, Absent
  <1>9. AddressInv'
    BY <1>1 DEF ControlInv, AddressInv, Configured, Absent
  <1> QED
    BY <1>3, <1>4, <1>5, <1>6, <1>7, <1>8, <1>9 DEF ControlInv

-----------------------------------------------------------------------------
(* The setup stage. *)

\* What the steps of a transfer start from.
LEMMA InTransfer ==
    ASSUME ControlInv, step \in Requests
    PROVE  /\ TypeOK /\ AddressInv
           /\ dev \in Device /\ rx \in Receivable /\ To \in Addresses /\ To # Deaf
           /\ sent \in [Addresses -> Toggles] /\ recv \in [Addresses -> Toggles]
           /\ got \in Seq(1..Packets) /\ gap \in BOOLEAN /\ oddSetup \in BOOLEAN
           /\ retry \in 0..(SetupTries + DataRetries)
           /\ faults \in 0..MaxFaults
  <1>1. TypeOK /\ AddressInv
    BY DEF ControlInv
  <1>2. To \in Addresses /\ To # Deaf
    BY <1>1, SMT DEF TypeOK, To, Addresses, Deaf
  <1> QED
    BY <1>1, <1>2 DEF TypeOK, Device, Receivable, Stages

LEMMA Flips ==
    ASSUME NEW f \in [Addresses -> Toggles], NEW a \in Addresses, NEW t \in Toggles
    PROVE  /\ [f EXCEPT ![a] = t] \in [Addresses -> Toggles]
           /\ [f EXCEPT ![a] = t][a] = t
           /\ 1 - f[a] \in Toggles
  BY SMT DEF Toggles

LEMMA SetupBeginKeeps == ControlInv /\ SetupBegin => ControlInv'
  <1> SUFFICES ASSUME ControlInv, SetupBegin PROVE ControlInv'
    OBVIOUS
  <1>1. /\ step \in Requests /\ pc = "begin" /\ pc' = "setup"
        /\ sent' = [sent EXCEPT ![To] = 1] /\ recv' = [recv EXCEPT ![To] = 0]
        /\ got' = <<>> /\ gap' = FALSE /\ oddSetup' = FALSE
        /\ polls' = StatusPolls /\ retry' = SetupTries - 1
        /\ UNCHANGED <<dev, address, step, result, want, rx, faults>>
    BY DEF SetupBegin
  <1>2. /\ TypeOK /\ AddressInv
        /\ To \in Addresses
        /\ sent \in [Addresses -> Toggles] /\ recv \in [Addresses -> Toggles]
    BY <1>1, InTransfer
  <1>3. To' = To
    BY <1>1 DEF To
  <1>4. sent' \in [Addresses -> Toggles] /\ recv' \in [Addresses -> Toggles] /\ recv'[To] = 0
    BY <1>1, <1>2, Flips DEF Toggles
  <1>5. retry' \in 0..(SetupTries + DataRetries) /\ polls' \in 0..StatusPolls
    BY <1>1, ControlAssumption, SMT
  <1>6. got' \in Seq(1..Packets)
    BY <1>1
  <1>7. TypeOK'
    <2>1. gap' \in BOOLEAN /\ oddSetup' \in BOOLEAN
      BY <1>1
    <2>2. pc' \in {"begin", "setup", "setup_look", "in", "in_look", "ack", "judge",
                  "out", "out_look"}
      BY <1>1
    <2>3. UNCHANGED <<dev, address, step, result, want, rx, faults>>
      BY <1>1
    <2> QED
      BY <1>2, <1>4, <1>5, <1>6, <2>1, <2>2, <2>3, SMT DEF TypeOK
  <1>8. FlowInv' /\ SetupInv' /\ StageInv' /\ ArrivedInv' /\ DeviceInv' /\ LedInv'
    BY <1>1, <1>3, <1>4
       DEF FlowInv, SetupInv, StageInv, ArrivedInv, DeviceInv, LedInv, DataPcs, OutPcs, Arrived
  <1>9. StoredInv'
    BY <1>1 DEF StoredInv, DataPcs, OutPcs, Requests, Reads, Sets
  <1>10. AddressInv'
    BY <1>1, <1>2 DEF AddressInv, Configured, Absent, DataPcs
  <1> QED
    BY <1>7, <1>8, <1>9, <1>10 DEF ControlInv

LEMMA SendSetupKeeps == ControlInv /\ SendSetup => ControlInv'
  <1> SUFFICES ASSUME ControlInv, SendSetup PROVE ControlInv'
    OBVIOUS
  <1>1. pc = "setup" /\ step \in Requests /\ UNCHANGED <<sent, recv, got, want, gap>>
    BY DEF SendSetup, ControlInv, FlowInv
  <1>2. /\ TypeOK /\ AddressInv
        /\ dev \in Device /\ rx \in Receivable /\ To \in Addresses /\ To # Deaf
        /\ sent \in [Addresses -> Toggles] /\ recv \in [Addresses -> Toggles]
        /\ got \in Seq(1..Packets) /\ gap \in BOOLEAN /\ oddSetup \in BOOLEAN
        /\ retry \in 0..(SetupTries + DataRetries)
    BY <1>1, InTransfer
  <1>3. SetupPid \in Toggles /\ (SetupPid = 1 <=> sent[To] = 0)
    BY <1>2, SMT DEF SetupPid, Toggles
  <1>4. faults' \in 0..MaxFaults
    <2>1. UNCHANGED faults \/ \E kind \in AllFaults : Fault(kind)
      BY DEF SendSetup, AllFaults
    <2> QED
      BY <1>2, <2>1, Faults
  <1>5. /\ dev' \in Device /\ dev'.addr = dev.addr /\ dev'.led = dev.led
        /\ dev.conf => dev'.conf
        /\ dev.addr = Deaf => dev' = dev
        /\ oddSetup' \in BOOLEAN /\ (oddSetup => oddSetup')
    <2>1. CASE DeviceSetup(SetupPid)
      BY <1>1, <1>2, <1>3, <2>1, SetupTaken
    <2>2. CASE UNCHANGED <<dev, oddSetup>>
      BY <1>2, <2>2
    <2> QED
      BY <2>1, <2>2 DEF SendSetup
  <1>6. CASE Fail
    <2>1. rx' \in Receivable
      <3>1. rx' \in {rx, Handshake("ack"), Handshake("damaged"), Nothing}
        BY DEF SendSetup
      <3> QED
        BY <1>2, <3>1, Handshakes, NothingReceived
    <2> QED
      BY <1>1, <1>2, <1>4, <1>5, <1>6, <2>1, FailKeeps
  <1>7. CASE ~Fail
    <2>1. pc' = "setup_look" /\ UNCHANGED <<retry, address, step, result, polls>>
      BY <1>7 DEF SendSetup, Go
    <2>2. /\ rx' \in {Handshake("ack"), Handshake("damaged"), Nothing}
          /\ rx' = Handshake("ack") => DeviceSetup(SetupPid)
      <3>1. Handshake("ack").kind = "ack" /\ Handshake("damaged").kind = "damaged"
            /\ Nothing.kind = "none"
        BY Handshakes, NothingReceived
      <3> QED
        BY <1>7, <3>1, Zenon DEF SendSetup
    <2>3. rx' \in Receivable /\ (rx'.kind = "ack" => DeviceSetup(SetupPid))
      BY <2>2, Handshakes, NothingReceived
    <2>4. rx'.kind = "ack" =>
            /\ dev'.addr = To /\ dev'.stage = StageOf[step] /\ dev'.next = 1 /\ dev'.toggle = 1
            /\ step = "set_config" => dev'.conf
            /\ SetupPid = 1 => oddSetup'
      BY <1>1, <1>2, <1>3, <2>3, SetupTaken
    <2>5. To' = To
      BY <2>1 DEF To
    <2>6. TypeOK'
      BY <1>1, <1>2, <1>4, <1>5, <2>1, <2>3, KeepsTypes
    <2>7. FlowInv'
      BY <1>1, <2>1 DEF ControlInv, FlowInv, OutPcs
    <2>8. SetupInv'
      BY <1>1, <2>1, <2>4, <2>5 DEF ControlInv, SetupInv, Taken
    <2>9. StageInv' /\ ArrivedInv' /\ DeviceInv'
      BY <2>1 DEF StageInv, ArrivedInv, DeviceInv, DataPcs, OutPcs, Arrived
    <2>10. StoredInv'
      BY <1>1, <2>1 DEF StoredInv, DataPcs, OutPcs, Requests, Reads, Sets
    <2>11. AddressInv'
      BY <1>1, <1>2, <1>5, <2>1 DEF AddressInv, Configured, Absent, DataPcs
    <2>12. LedInv'
      <3>1. rx'.kind = "ack" /\ ~oddSetup' => sent'[To] = 1
        BY <1>1, <1>2, <1>3, <2>4, SMT DEF Toggles
      <3> QED
        BY <2>1, <2>5, <3>1 DEF LedInv, DataPcs, OutPcs
    <2> QED
      BY <2>6, <2>7, <2>8, <2>9, <2>10, <2>11, <2>12 DEF ControlInv
  <1> QED
    BY <1>6, <1>7

LEMMA LookSetupKeeps == ControlInv /\ LookSetup => ControlInv'
  <1> SUFFICES ASSUME ControlInv, LookSetup PROVE ControlInv'
    OBVIOUS
  <1>1. /\ pc = "setup_look" /\ step \in Requests
        /\ UNCHANGED <<dev, recv, got, want, rx, gap, oddSetup, faults>>
    BY DEF LookSetup, ControlInv, FlowInv
  <1>2. /\ TypeOK /\ AddressInv
        /\ dev \in Device /\ rx \in Receivable /\ To \in Addresses /\ To # Deaf
        /\ sent \in [Addresses -> Toggles] /\ recv \in [Addresses -> Toggles]
        /\ got \in Seq(1..Packets) /\ gap \in BOOLEAN /\ oddSetup \in BOOLEAN
        /\ retry \in 0..(SetupTries + DataRetries) /\ faults \in 0..MaxFaults
    BY <1>1, InTransfer
  <1>3. /\ sent' \in [Addresses -> Toggles]
        /\ rx.kind = "ack" => sent'[To] = 1 - sent[To]
    <2>1. CASE UNCHANGED sent /\ rx.kind # "ack"
      BY <1>2, <2>1
    <2>2. CASE NoteSent
      BY <1>2, <2>2, SMT DEF NoteSent, Toggles
    <2> QED
      BY <2>1, <2>2 DEF LookSetup
  <1>4. CASE Fail
    BY <1>1, <1>2, <1>3, <1>4, FailKeeps
  <1>5. CASE ~Fail
    <2>1. /\ retry' \in 0..(SetupTries + DataRetries)
          /\ UNCHANGED <<address, step, result, polls>>
          /\ \/ pc' = "setup"
             \/ rx.kind = "ack" /\ pc' = NextStage
      <3>1. DataRetries \in 0..(SetupTries + DataRetries)
        BY ControlAssumption, SMT
      <3> QED
        BY <1>2, <1>5, <3>1, Tries DEF LookSetup, Go
    <2>2. To' = To
      BY <2>1 DEF To
    <2>3. pc' \in {"setup", "in", "out"} /\ (pc' = "out" <=> pc' # "setup" /\ step = "led")
      BY <2>1 DEF NextStage
    <2>4. TypeOK'
      BY <1>1, <1>2, <1>3, <2>1, <2>3, KeepsTypes
    <2>5. pc' # "setup" => rx.kind = "ack"
      BY <2>1
    <2>6. pc' # "setup" => Absent \/ Taken
      BY <1>1, <2>5 DEF ControlInv, SetupInv
    <2>7. got = <<>> /\ ~gap /\ recv[To] = 0
      BY <1>1 DEF ControlInv, SetupInv
    <2>8. FlowInv'
      BY <1>1, <2>1, <2>3 DEF FlowInv, OutPcs, Sets
    <2>9. SetupInv'
      BY <1>1, <2>2, <2>3, <2>7 DEF SetupInv
    <2>10. StageInv'
      BY <1>1, <2>1, <2>2, <2>3, <2>6
         DEF StageInv, Absent, Taken, StageOf, DataPcs, OutPcs, Requests, Reads, Sets
    <2>11. StoredInv'
      <3>1. Len(got) = 0 /\ Upto(0) = got
        BY <2>7 DEF Upto
      <3>2. 0 < Packets /\ 0 % 2 = 0
        BY ControlAssumption, SMT
      <3>3. step \in Reads => pc' \notin OutPcs
        BY <2>3 DEF Reads, OutPcs
      <3>4. step \notin {"scan", "hung"}
        BY <1>1 DEF Requests, Reads, Sets
      <3> QED
        BY <1>1, <2>1, <2>2, <2>7, <3>1, <3>2, <3>3, <3>4 DEF StoredInv
    <2>12. ArrivedInv'
      BY <2>3 DEF ArrivedInv, Arrived
    <2>13. DeviceInv'
      <3>1. Len(got) = 0 /\ 1 % 2 = 1 /\ 0 + 1 = 1
        BY <2>7, SMT
      <3>2. CASE pc' = "in" /\ ~Absent
        BY <1>1, <2>6, <3>1, <3>2, SMT DEF DeviceInv, Taken
      <3> QED
        BY <1>1, <2>3, <3>2 DEF DeviceInv, DataPcs, Absent
    <2>14. AddressInv'
      BY <1>1, <1>2, <2>1, <2>3, <2>6
         DEF AddressInv, Configured, Absent, Taken, To, DataPcs
    <2>15. LedInv'
      <3>1. CASE step = "led" /\ pc' = "out" /\ ~oddSetup /\ ~Absent
        <4>1. sent[To] = 1
          BY <1>1, <2>5, <3>1 DEF ControlInv, LedInv
        <4>2. sent'[To] = 0
          BY <1>3, <2>5, <3>1, <4>1, SMT
        <4>3. dev.addr = To /\ dev.stage = "data_out"
          BY <2>6, <3>1 DEF Taken, StageOf, Requests, Reads, Sets
        <4> QED
          BY <1>1, <2>1, <2>2, <3>1, <4>2, <4>3 DEF LedInv, OutPcs, DataPcs, Absent
      <3> QED
        BY <1>1, <2>1, <2>3, <3>1 DEF LedInv, OutPcs, DataPcs, Absent
    <2> QED
      BY <2>4, <2>8, <2>9, <2>10, <2>11, <2>12, <2>13, <2>14, <2>15 DEF ControlInv
  <1> QED
    BY <1>4, <1>5

-----------------------------------------------------------------------------
(* IN, its answer and the ACK. *)

LEMMA SendInKeeps == ControlInv /\ SendIn => ControlInv'
  <1> SUFFICES ASSUME ControlInv, SendIn PROVE ControlInv'
    OBVIOUS
  <1>1. pc = "in" /\ step \in Requests /\ UNCHANGED <<sent, recv, got, want, gap, oddSetup>>
    BY DEF SendIn, ControlInv, FlowInv
  <1>2. /\ TypeOK /\ AddressInv
        /\ dev \in Device /\ rx \in Receivable /\ To \in Addresses /\ To # Deaf
        /\ sent \in [Addresses -> Toggles] /\ recv \in [Addresses -> Toggles]
        /\ got \in Seq(1..Packets) /\ gap \in BOOLEAN /\ oddSetup \in BOOLEAN
        /\ retry \in 0..(SetupTries + DataRetries)
    BY <1>1, InTransfer
  <1>3. faults' \in 0..MaxFaults
    <2>1. UNCHANGED faults \/ \E kind \in AllFaults : Fault(kind)
      BY DEF SendIn, AllFaults
    <2> QED
      BY <1>2, <2>1, Faults
  <1>4. CASE Fail /\ UNCHANGED <<dev, rx>>
    BY <1>1, <1>2, <1>3, <1>4, FailKeeps
  <1>5. CASE Go("in_look", retry)
    <2>1. pc' = "in_look" /\ UNCHANGED <<retry, address, step, result, polls>>
      BY <1>5 DEF Go
    <2>2. To' = To
      BY <2>1 DEF To
    <2>3. /\ dev' \in Device /\ dev'.addr = dev.addr /\ dev'.conf = dev.conf /\ dev'.led = dev.led
          /\ dev.stage = "in" => dev' = dev
          /\ dev.stage # "in" => dev'.stage # "in"
      <3>1. CASE DeviceIn
        BY <1>2, <3>1, InAnswered
      <3>2. CASE UNCHANGED dev
        BY <1>2, <3>2
      <3> QED
        BY <1>5, <3>1, <3>2 DEF SendIn
    <2>4. /\ rx' \in Receivable
          /\ rx'.kind \in {"data", "odd_pid"} =>
               /\ dev.addr = To
               /\ dev.stage = "in" => rx'.packet = dev.next /\ rx'.pid = dev.toggle
      <3>1. CASE DeviceIn
        BY <1>2, <3>1, InAnswered DEF Receivable
      <3>2. CASE rx' \in {Nothing, Handshake("damaged"), Handshake("nak"), Handshake("stall")}
        BY <3>2, Handshakes, NothingReceived
      <3>3. CASE Hears /\ \E o \in Offers : o.kind = "data" /\ rx' = [o EXCEPT !.kind = "odd_pid"]
        <4>1. PICK o \in Offers : o.kind = "data" /\ rx' = [o EXCEPT !.kind = "odd_pid"]
          BY <3>3
        <4>2. Handshake("nak").kind = "nak" /\ Handshake("stall").kind = "stall"
          BY Handshakes
        <4>3. \/ /\ dev.stage = "in" /\ dev.next <= Packets
                 /\ o = [kind |-> "data", pid |-> dev.toggle, packet |-> dev.next]
              \/ dev.stage # "in" /\ o = [kind |-> "data", pid |-> 1, packet |-> 0]
          BY <4>1, <4>2 DEF Offers
        <4>4. /\ o = [kind |-> "data", pid |-> o.pid, packet |-> o.packet]
              /\ o.pid \in Toggles /\ o.packet \in 0..Packets
          <5>1. /\ dev.toggle \in Toggles /\ dev.next \in Nat
                /\ 0 \in 0..Packets /\ 1 \in Toggles
            BY <1>2, ControlAssumption, SMT DEF Device, Toggles
          <5>2. dev.next <= Packets => dev.next \in 0..Packets
            BY <5>1, ControlAssumption, SMT
          <5> QED
            BY <4>3, <5>1, <5>2
        <4>5. rx' = [kind |-> "odd_pid", pid |-> o.pid, packet |-> o.packet]
          BY <4>1, <4>4
        <4>6. rx' \in Receivable
          BY <4>4, <4>5 DEF Receivable
        <4>7. dev.stage = "in" => rx'.packet = dev.next /\ rx'.pid = dev.toggle
          BY <4>3, <4>5
        <4> QED
          BY <3>3, <4>6, <4>7 DEF Hears
      <3>4. ~Fail
        BY <2>1 DEF Fail
      <3> QED
        BY <3>1, <3>2, <3>3, <3>4 DEF SendIn
    <2>5. TypeOK'
      BY <1>1, <1>2, <1>3, <2>1, <2>3, <2>4, KeepsTypes
    <2>6. FlowInv' /\ SetupInv'
      BY <1>1, <2>1 DEF FlowInv, SetupInv, OutPcs
    <2>7. StageInv'
      BY <1>1, <2>1, <2>2, <2>3 DEF ControlInv, StageInv, Absent, DataPcs, OutPcs
    <2>8. StoredInv'
      BY <1>1, <2>1, <2>2 DEF ControlInv, StoredInv, DataPcs, OutPcs
    <2>9. ArrivedInv'
      <3> SUFFICES ASSUME step \in Reads, rx'.kind \in {"data", "odd_pid"}
                   PROVE  /\ rx'.packet > 0
                          /\ ~gap => rx'.pid = rx'.packet % 2
                                     /\ rx'.packet \in {Len(got), Len(got) + 1}
                          /\ dev'.next = rx'.packet
        BY <1>1, <2>1 DEF ArrivedInv, Arrived
      <3>1. dev.addr = To /\ ~Absent /\ dev.stage = "in"
        BY <1>1, <1>2, <2>4 DEF ControlInv, StageInv, DataPcs, Absent
      <3>2. dev' = dev /\ rx'.packet = dev.next /\ rx'.pid = dev.toggle
        BY <2>3, <2>4, <3>1
      <3>3. dev.next > 0
        BY <1>2, SMT DEF Device
      <3> QED
        BY <1>1, <3>1, <3>2, <3>3 DEF ControlInv, DeviceInv, DataPcs
    <2>10. DeviceInv'
      <3> SUFFICES ASSUME step \in Reads, ~gap, ~Absent'
                   PROVE  dev'.toggle = dev'.next % 2 /\ dev'.next \in {Len(got), Len(got) + 1}
        BY <1>1, <2>1 DEF DeviceInv
      <3>1. ~Absent /\ dev.stage = "in"
        BY <1>1, <2>3 DEF ControlInv, StageInv, Absent, DataPcs
      <3>2. dev' = dev
        BY <2>3, <3>1
      <3> QED
        BY <1>1, <3>1, <3>2 DEF ControlInv, DeviceInv, DataPcs
    <2>11. AddressInv'
      BY <1>1, <1>2, <2>1, <2>3 DEF AddressInv, Configured, Absent, DataPcs
    <2>12. LedInv'
      BY <1>1, <2>1, <2>3 DEF ControlInv, LedInv, Absent, DataPcs, OutPcs
    <2> QED
      BY <2>5, <2>6, <2>7, <2>8, <2>9, <2>10, <2>11, <2>12 DEF ControlInv
  <1> QED
    BY <1>4, <1>5 DEF SendIn

LEMMA LookInKeeps == ControlInv /\ LookIn => ControlInv'
  <1> SUFFICES ASSUME ControlInv, LookIn PROVE ControlInv'
    OBVIOUS
  <1>1. /\ pc = "in_look" /\ step \in Requests
        /\ UNCHANGED <<dev, sent, recv, got, want, rx, gap, oddSetup, faults>>
    BY DEF LookIn, ControlInv, FlowInv
  <1>2. /\ TypeOK /\ AddressInv
        /\ dev \in Device /\ rx \in Receivable /\ To \in Addresses /\ To # Deaf
        /\ sent \in [Addresses -> Toggles] /\ recv \in [Addresses -> Toggles]
        /\ got \in Seq(1..Packets) /\ gap \in BOOLEAN /\ oddSetup \in BOOLEAN
        /\ retry \in 0..(SetupTries + DataRetries) /\ faults \in 0..MaxFaults
    BY <1>1, InTransfer
  <1>3. CASE Fail
    BY <1>1, <1>2, <1>3, FailKeeps
  <1>4. CASE ~Fail
    <2>1. /\ retry' \in 0..(SetupTries + DataRetries) /\ UNCHANGED <<address, step, result>>
          /\ polls' \in 0..StatusPolls
          /\ pc' = "in" \/ (pc' = "ack" /\ rx.kind \in {"data", "odd_pid"})
      <3>1. DataRetries \in 0..(SetupTries + DataRetries) /\ polls \in 0..StatusPolls
        BY <1>2, ControlAssumption, SMT DEF TypeOK
      <3>2. polls > 1 => polls - 1 \in 0..StatusPolls
        BY <3>1, ControlAssumption, SMT
      <3> QED
        BY <1>2, <1>4, <3>1, <3>2, Tries DEF LookIn, Go, Refused
    <2>2. To' = To
      BY <2>1 DEF To
    <2>3. TypeOK'
      <3>1. pc' \in {"begin", "setup", "setup_look", "in", "in_look", "ack", "judge",
                     "out", "out_look"}
        BY <2>1
      <3>2. UNCHANGED <<dev, address, step, sent, recv, got, want, rx, result, gap, oddSetup, faults>>
        BY <1>1, <2>1
      <3> QED
        BY <1>2, <2>1, <3>1, <3>2, SMT DEF TypeOK
    <2>4. FlowInv' /\ SetupInv'
      BY <1>1, <2>1 DEF FlowInv, SetupInv, OutPcs
    <2>5. StageInv'
      BY <1>1, <2>1, <2>2 DEF ControlInv, StageInv, Absent, DataPcs, OutPcs
    <2>6. StoredInv'
      BY <1>1, <2>1, <2>2 DEF ControlInv, StoredInv, DataPcs, OutPcs
    <2>7. ArrivedInv'
      BY <1>1, <2>1 DEF ControlInv, ArrivedInv, Arrived, Absent
    <2>8. DeviceInv'
      BY <1>1, <2>1 DEF ControlInv, DeviceInv, Absent, DataPcs
    <2>9. AddressInv'
      BY <1>1, <1>2, <2>1 DEF AddressInv, Configured, Absent, DataPcs
    <2>10. LedInv'
      BY <1>1, <2>1 DEF ControlInv, LedInv, Absent, DataPcs, OutPcs
    <2> QED
      BY <2>3, <2>4, <2>5, <2>6, <2>7, <2>8, <2>9, <2>10 DEF ControlInv
  <1> QED
    BY <1>3, <1>4

LEMMA SendAckKeeps == ControlInv /\ SendAck => ControlInv'
  <1> SUFFICES ASSUME ControlInv, SendAck PROVE ControlInv'
    OBVIOUS
  <1>1. /\ pc = "ack" /\ step \in Requests
        /\ UNCHANGED <<sent, recv, got, want, rx, oddSetup>>
    BY DEF SendAck, ControlInv, FlowInv
  <1>2. /\ TypeOK /\ AddressInv
        /\ dev \in Device /\ rx \in Receivable /\ To \in Addresses /\ To # Deaf
        /\ sent \in [Addresses -> Toggles] /\ recv \in [Addresses -> Toggles]
        /\ got \in Seq(1..Packets) /\ gap \in BOOLEAN /\ oddSetup \in BOOLEAN
        /\ retry \in 0..(SetupTries + DataRetries)
    BY <1>1, InTransfer
  <1>3. faults' \in 0..MaxFaults
    <2>1. UNCHANGED faults \/ \E kind \in AllFaults : Fault(kind)
      BY DEF SendAck, AllFaults
    <2> QED
      BY <1>2, <2>1, Faults
  <1>4. dev.stage = "in" => dev.addr # To \/ (step \in Reads /\ dev.next = rx.packet /\ rx.packet <= Packets)
    <2>1. CASE Absent
      BY <1>2, <2>1 DEF Absent
    <2>2. CASE ~Absent /\ step \in Reads
      <3>1. dev.next = rx.packet
        BY <1>1, <2>2 DEF ControlInv, ArrivedInv, Arrived
      <3>2. rx.packet <= Packets
        BY <1>2, ControlAssumption, SMT DEF Receivable
      <3> QED
        BY <2>2, <3>1, <3>2
    <2>3. CASE ~Absent /\ step \notin Reads
      BY <1>1, <2>3 DEF ControlInv, StageInv, DataPcs
    <2> QED
      BY <2>1, <2>2, <2>3
  <1>5. dev' = dev \/ dev' = AfterAck
    BY DEF SendAck
  <1>6. /\ dev' \in Device /\ dev'.conf = dev.conf /\ dev'.led = dev.led
        /\ dev.addr = Deaf => dev' = dev
        /\ dev'.addr \in {dev.addr, 1}
        /\ dev.stage = "in" => dev'.addr = dev.addr /\ dev'.stage = "in"
        /\ dev.stage # "in" => dev'.stage # "in"
        /\ dev'.addr = Deaf => dev.addr = Deaf
    BY <1>2, <1>4, <1>5, AckTaken
  <1>7. gap' \in BOOLEAN /\ (gap => gap')
    BY <1>2 DEF SendAck
  <1>8. CASE Fail
    BY <1>1, <1>2, <1>3, <1>6, <1>7, <1>8, FailKeeps
  <1>9. CASE ~Fail
    <2>1. pc' = "judge" /\ UNCHANGED <<retry, address, step, result, polls>>
      BY <1>9 DEF SendAck, Go
    <2>2. To' = To
      BY <2>1 DEF To
    <2>3. TypeOK'
      BY <1>1, <1>2, <1>3, <1>6, <1>7, <2>1, KeepsTypes
    <2>4. FlowInv' /\ SetupInv'
      BY <1>1, <2>1 DEF ControlInv, FlowInv, SetupInv, OutPcs
    <2>5. StageInv'
      BY <1>1, <1>2, <1>6, <2>1, <2>2 DEF ControlInv, StageInv, Absent, DataPcs, OutPcs
    <2>6. StoredInv'
      BY <1>1, <1>7, <2>1, <2>2 DEF ControlInv, StoredInv, DataPcs, OutPcs
    <2>7. CASE step \notin Reads
      <3>1. ArrivedInv' /\ DeviceInv'
        BY <2>1, <2>7 DEF ArrivedInv, DeviceInv
      <3>2. AddressInv'
        BY <1>1, <1>2, <1>6, <2>1 DEF AddressInv, Configured, Absent, DataPcs
      <3>3. LedInv'
        BY <1>1, <1>6, <2>1 DEF ControlInv, LedInv, Absent, DataPcs, OutPcs
      <3> QED
        BY <2>3, <2>4, <2>5, <2>6, <3>1, <3>2, <3>3 DEF ControlInv
    <2>8. CASE step \in Reads
      <3>1. AddressInv' /\ LedInv'
        BY <1>2, <2>1, <2>8 DEF AddressInv, LedInv, Reads
      <3>2. /\ rx.packet > 0
            /\ ~gap => rx.pid = rx.packet % 2 /\ rx.packet \in {Len(got), Len(got) + 1}
            /\ Absent \/ dev.next = rx.packet
            /\ rx.kind \in {"data", "odd_pid"}
        BY <1>1, <2>8 DEF ControlInv, ArrivedInv, Arrived, FlowInv
      <3>3. Absent \/ (dev.addr = To /\ dev.stage = "in")
        BY <1>1, <2>8 DEF ControlInv, StageInv, DataPcs
      <3>4. Absent' <=> Absent
        BY <1>6 DEF Absent
      <3>5. ~gap' /\ ~Absent =>
              \/ dev' = dev
              \/ rx.kind = "data" /\ dev'.next = dev.next + 1 /\ dev'.toggle = 1 - dev.toggle
        <4>1. CASE dev' = AfterAck /\ dev' # dev /\ ~gap' /\ ~Absent
          <5>1. gap' = (gap \/ rx.kind = "odd_pid")
            BY <1>9, <4>1 DEF SendAck
          <5>2. rx.kind = "data"
            BY <3>2, <4>1, <5>1
          <5>3. dev'.next = dev.next + 1 /\ dev'.toggle = 1 - dev.toggle
            BY <1>2, <1>4, <3>3, <4>1, AckTaken
          <5> QED
            BY <5>2, <5>3
        <4> QED
          BY <1>5, <4>1
      <3>6. ArrivedInv'
        BY <1>1, <1>7, <2>1, <3>2, <3>4, <3>5 DEF ArrivedInv, Arrived
      <3>7. DeviceInv'
        <4> SUFFICES ASSUME ~gap', ~Absent PROVE dev'.toggle = dev'.next % 2
          BY <2>1, <3>4 DEF DeviceInv
        <4>1. dev.toggle = dev.next % 2
          BY <1>1, <1>7, <2>8 DEF ControlInv, DeviceInv, DataPcs
        <4>2. dev.next \in Nat /\ (dev.next + 1) % 2 = 1 - (dev.next % 2)
          BY <1>2, SMT DEF Device
        <4> QED
          BY <3>5, <4>1, <4>2
      <3> QED
        BY <2>3, <2>4, <2>5, <2>6, <3>1, <3>6, <3>7 DEF ControlInv
    <2> QED
      BY <2>7, <2>8
  <1> QED
    BY <1>8, <1>9

LEMMA JudgeKeeps == ControlInv /\ Judge => ControlInv'
  <1> SUFFICES ASSUME ControlInv, Judge PROVE ControlInv'
    OBVIOUS
  <1>1. /\ pc = "judge" /\ step \in Requests
        /\ UNCHANGED <<dev, sent, want, rx, gap, oddSetup, faults>>
    BY DEF Judge, ControlInv, FlowInv
  <1>2. /\ TypeOK /\ AddressInv
        /\ dev \in Device /\ rx \in Receivable /\ To \in Addresses /\ To # Deaf
        /\ sent \in [Addresses -> Toggles] /\ recv \in [Addresses -> Toggles]
        /\ got \in Seq(1..Packets) /\ gap \in BOOLEAN /\ oddSetup \in BOOLEAN
        /\ retry \in 0..(SetupTries + DataRetries) /\ faults \in 0..MaxFaults
    BY <1>1, InTransfer
  <1>3. step \in Reads =>
          /\ rx.packet > 0
          /\ ~gap => /\ rx.pid = rx.packet % 2 /\ rx.packet \in {Len(got), Len(got) + 1}
                     /\ \/ Absent \/ dev.next = rx.packet
                        \/ (rx.kind = "data" /\ dev.next = rx.packet + 1)
                     /\ Len(got) < Packets /\ got = Upto(Len(got)) /\ recv[To] = Len(got) % 2
    BY <1>1 DEF ControlInv, ArrivedInv, Arrived, StoredInv, DataPcs
  <1>4. rx.packet \in Nat /\ rx.packet <= Packets /\ rx.pid \in Toggles
    BY <1>2, ControlAssumption, SMT DEF Receivable
  <1>5. CASE (rx.kind = "odd_pid" \/ Dupe) /\ AgainOrFail("in") /\ UNCHANGED <<recv, got>>
    <2>1. CASE Fail
      BY <1>1, <1>2, <1>5, <2>1, FailKeeps
    <2>2. CASE ~Fail
      <3>1. /\ pc' = "in" /\ retry' \in 0..(SetupTries + DataRetries)
            /\ UNCHANGED <<address, step, result, polls>>
        BY <1>2, <1>5, <2>2, Tries
      <3>2. To' = To
        BY <3>1 DEF To
      <3>3. TypeOK'
        BY <1>1, <1>2, <1>5, <3>1, KeepsTypes
      <3>4. FlowInv' /\ SetupInv' /\ ArrivedInv'
        BY <1>1, <3>1 DEF FlowInv, SetupInv, ArrivedInv, Arrived, OutPcs
      <3>5. StageInv'
        BY <1>1, <3>1, <3>2 DEF ControlInv, StageInv, Absent, DataPcs, OutPcs
      <3>6. StoredInv'
        BY <1>1, <1>5, <3>1, <3>2 DEF ControlInv, StoredInv, DataPcs, OutPcs
      <3>7. DeviceInv'
        <4> SUFFICES ASSUME step \in Reads, ~gap, ~Absent
                     PROVE  dev.toggle = dev.next % 2 /\ dev.next \in {Len(got), Len(got) + 1}
          BY <1>1, <1>5, <3>1 DEF DeviceInv, Absent
        <4>1. dev.toggle = dev.next % 2
          BY <1>1 DEF ControlInv, DeviceInv, DataPcs
        <4>2. CASE dev.next = rx.packet
          BY <1>3, <4>1, <4>2
        <4>3. CASE rx.kind = "data" /\ dev.next = rx.packet + 1
          <5>1. rx.packet % 2 = Len(got) % 2
            BY <1>3, <1>5, <4>3 DEF Dupe
          <5>2. Len(got) \in Nat
            BY <1>2
          <5>3. rx.packet # Len(got) + 1
            BY <1>4, <5>1, <5>2, SMT
          <5> QED
            BY <1>3, <4>1, <4>3, <5>3
        <4> QED
          BY <1>3, <4>2, <4>3
      <3>8. AddressInv'
        BY <1>1, <1>2, <3>1 DEF AddressInv, Configured, Absent, DataPcs
      <3>9. LedInv'
        BY <1>1, <3>1 DEF ControlInv, LedInv, Absent, DataPcs, OutPcs
      <3> QED
        BY <3>3, <3>4, <3>5, <3>6, <3>7, <3>8, <3>9 DEF ControlInv
    <2> QED
      BY <2>1, <2>2
  <1>6. CASE /\ rx.kind = "data" /\ ~Dupe
             /\ recv' = [recv EXCEPT ![To] = rx.pid]
             /\ step \in Reads /\ got' = Append(got, rx.packet)
             /\ Go(IF Last THEN "out" ELSE "in", DataRetries)
    <2>1. /\ pc' = IF Last THEN "out" ELSE "in"
          /\ retry' = DataRetries /\ UNCHANGED <<address, step, result, polls>>
      BY <1>6 DEF Go
    <2>2. To' = To
      BY <2>1 DEF To
    <2>3. recv' \in [Addresses -> Toggles] /\ recv'[To] = rx.pid
      BY <1>2, <1>4, <1>6, Flips
    <2>4. got' \in Seq(1..Packets) /\ Len(got') = Len(got) + 1 /\ Len(got) \in Nat
      <3>1. rx.packet \in 1..Packets
        BY <1>3, <1>4, <1>6, ControlAssumption, SMT
      <3> QED
        BY <1>2, <1>6, <3>1
    <2>5. TypeOK'
      <3>1. retry' \in 0..(SetupTries + DataRetries)
        BY <2>1, ControlAssumption, SMT
      <3>2. pc' \in {"begin", "setup", "setup_look", "in", "in_look", "ack", "judge",
                     "out", "out_look"}
        BY <2>1
      <3> QED
        BY <1>1, <1>2, <2>1, <2>3, <2>4, <3>1, <3>2, KeepsTypes
    <2>6. FlowInv' /\ SetupInv' /\ ArrivedInv'
      BY <1>1, <1>6, <2>1 DEF FlowInv, SetupInv, ArrivedInv, Arrived, OutPcs, Reads, Sets
    <2>7. StageInv'
      BY <1>1, <1>6, <2>1, <2>2 DEF ControlInv, StageInv, Absent, DataPcs, OutPcs
    <2>8. ~gap => rx.packet = Len(got')
      <3>1. ~gap => rx.packet % 2 # Len(got) % 2
        BY <1>3, <1>6 DEF Dupe
      <3> QED
        BY <1>3, <1>6, <2>4, <3>1
    <2>9. ~gap => got' = Upto(Len(got'))
      <3> SUFFICES ASSUME ~gap PROVE got' = Upto(Len(got'))
        OBVIOUS
      <3>1. got = Upto(Len(got)) /\ rx.packet = Len(got) + 1
        BY <1>3, <1>6, <2>4, <2>8
      <3>2. got' = [i \in 1..(Len(got) + 1) |-> IF i = Len(got) + 1 THEN rx.packet ELSE got[i]]
        BY <1>2, <1>6, SMT
      <3>3. \A i \in 1..(Len(got) + 1) : (IF i = Len(got) + 1 THEN rx.packet ELSE got[i]) = i
        BY <2>4, <3>1, SMT DEF Upto
      <3> QED
        BY <2>4, <3>2, <3>3, Zenon DEF Upto
    <2>10. StoredInv'
      <3>1. CASE Last
        BY <1>1, <1>6, <2>1, <2>8, <2>9, <3>1 DEF StoredInv, Last, DataPcs, OutPcs, Reads
      <3>2. CASE ~Last
        <4>1. ~gap => Len(got') < Packets
          BY <1>3, <1>4, <2>4, <2>8, <3>2, ControlAssumption, SMT DEF Last
        <4>2. ~gap => recv'[To] = Len(got') % 2
          BY <1>3, <1>6, <2>3, <2>8
        <4> QED
          BY <1>1, <1>6, <2>1, <2>2, <2>9, <3>2, <4>1, <4>2 DEF StoredInv, DataPcs, OutPcs, Reads
      <3> QED
        BY <3>1, <3>2
    <2>11. DeviceInv'
      <3> SUFFICES ASSUME ~gap, ~Absent
                   PROVE  dev.toggle = dev.next % 2 /\ dev.next \in {Len(got'), Len(got') + 1}
        BY <1>1, <2>1 DEF DeviceInv, Absent
      <3>1. dev.toggle = dev.next % 2
        BY <1>1, <1>6 DEF ControlInv, DeviceInv, DataPcs
      <3> QED
        BY <1>3, <1>6, <2>8, <3>1
    <2>12. AddressInv'
      BY <1>1, <1>2, <1>6, <2>1 DEF AddressInv, Configured, Absent, DataPcs, Reads
    <2>13. LedInv'
      BY <1>6, <2>1 DEF LedInv, Reads
    <2> QED
      BY <2>5, <2>6, <2>7, <2>10, <2>11, <2>12, <2>13 DEF ControlInv
  <1>7. CASE /\ rx.kind = "data" /\ ~Dupe
             /\ recv' = [recv EXCEPT ![To] = rx.pid]
             /\ step \notin Reads /\ Done /\ UNCHANGED got
    <2>1. /\ pc' = "begin" /\ result' = "ok" /\ retry' = 0 /\ polls' = 0
          /\ step' \in Steps /\ step' \notin {"led", "hung"}
          /\ step' = "scan" => step = "config"
          /\ address' \in Addresses
          /\ address' # 0 => step' = "ready"
          /\ step' = "ready" => step \in {"set_config", "led"} /\ address' = 1
      BY <1>1, <1>2, <1>7, DoneEnds
    <2>2. recv' \in [Addresses -> Toggles]
      BY <1>2, <1>4, <1>7, Flips
    <2>3. TypeOK'
      <3>1. 0 \in 0..(SetupTries + DataRetries) /\ 0 \in 0..StatusPolls
        BY ControlAssumption, SMT
      <3>2. UNCHANGED <<dev, sent, want, got, rx, gap, oddSetup, faults>>
        BY <1>1, <1>7
      <3> QED
        BY <1>2, <2>1, <2>2, <3>1, <3>2, SMT DEF TypeOK
    <2>4. AddressInv'
      <3>1. step' = "ready" => Configured
        BY <1>1, <1>2, <2>1 DEF AddressInv, DataPcs
      <3> QED
        BY <1>1, <2>1, <3>1 DEF AddressInv, Configured, Absent, DataPcs
    <2>5. step' # "scan"
      BY <1>7, <2>1 DEF Reads
    <2> QED
      BY <2>1, <2>3, <2>4, <2>5, Begins
  <1> QED
    BY <1>5, <1>6, <1>7 DEF Judge

-----------------------------------------------------------------------------
(* OUT and its answer. *)

LEMMA SendOutKeeps == ControlInv /\ SendOut => ControlInv'
  <1> SUFFICES ASSUME ControlInv, SendOut PROVE ControlInv'
    OBVIOUS
  <1> DEFINE pid == 1 - sent[To]
  <1>1. pc = "out" /\ step \in Requests /\ UNCHANGED <<sent, recv, got, want, gap, oddSetup>>
    BY DEF SendOut, ControlInv, FlowInv
  <1>2. /\ TypeOK /\ AddressInv
        /\ dev \in Device /\ rx \in Receivable /\ To \in Addresses /\ To # Deaf
        /\ sent \in [Addresses -> Toggles] /\ recv \in [Addresses -> Toggles]
        /\ got \in Seq(1..Packets) /\ gap \in BOOLEAN /\ oddSetup \in BOOLEAN
        /\ retry \in 0..(SetupTries + DataRetries)
    BY <1>1, InTransfer
  <1>3. pid \in Toggles
    BY <1>2, Flips
  <1>4. faults' \in 0..MaxFaults
    <2>1. UNCHANGED faults \/ \E kind \in AllFaults : Fault(kind)
      BY DEF SendOut, AllFaults
    <2> QED
      BY <1>2, <2>1, Faults
  <1>5. dev' = dev \/ DeviceOut(pid)
    BY DEF SendOut
  <1>6. /\ dev' \in Device /\ dev'.addr = dev.addr /\ dev'.conf = dev.conf
        /\ dev.stage # "in" => dev'.stage # "in"
        /\ dev.stage = "status_in" => dev'.stage = "status_in" /\ dev'.led = dev.led
        /\ dev.addr = Deaf => dev' = dev
    BY <1>2, <1>3, <1>5, OutTaken
  <1>7. rx' = rx \/ rx' \in {Handshake("ack"), Handshake("damaged"), Handshake("nak"),
                             Handshake("stall"), Nothing}
    BY DEF SendOut
  <1>8. rx' \in Receivable
    BY <1>2, <1>7, Handshakes, NothingReceived
  <1>9. CASE Fail
    BY <1>1, <1>2, <1>4, <1>6, <1>8, <1>9, FailKeeps
  <1>10. CASE ~Fail
    <2>1. pc' = "out_look" /\ UNCHANGED <<retry, address, step, result, polls>>
      BY <1>10 DEF SendOut, Go
    <2>2. To' = To
      BY <2>1 DEF To
    <2>3. rx'.kind = "ack" => DeviceOut(pid)
      <3>1. /\ Handshake("damaged").kind = "damaged" /\ Handshake("nak").kind = "nak"
            /\ Handshake("stall").kind = "stall" /\ Nothing.kind = "none"
        BY Handshakes, NothingReceived
      <3>2. \/ DeviceOut(pid)
            \/ rx' \in {Handshake("damaged"), Handshake("nak"), Handshake("stall"), Nothing}
        BY <1>10 DEF SendOut
      <3> QED
        BY <3>1, <3>2
    <2>4. TypeOK'
      BY <1>1, <1>2, <1>4, <1>6, <1>8, <2>1, KeepsTypes
    <2>5. FlowInv' /\ SetupInv' /\ ArrivedInv' /\ DeviceInv'
      BY <1>1, <2>1 DEF ControlInv, FlowInv, SetupInv, ArrivedInv, Arrived, DeviceInv, DataPcs, OutPcs
    <2>6. StageInv'
      BY <1>1, <1>6, <2>1, <2>2 DEF ControlInv, StageInv, Absent, DataPcs, OutPcs
    <2>7. StoredInv'
      BY <1>1, <2>1 DEF ControlInv, StoredInv, DataPcs, OutPcs
    <2>8. AddressInv'
      BY <1>1, <1>2, <1>6, <2>1 DEF AddressInv, Configured, Absent, DataPcs
    <2>9. LedInv'
      <3> SUFFICES ASSUME step = "led", ~oddSetup, ~Absent'
                   PROVE  /\ dev'.addr = To /\ sent[To] = 0
                          /\ dev'.stage = "data_out" \/ (dev'.stage = "status_in" /\ dev'.led = want)
                          /\ rx'.kind = "ack" => dev'.led = want
        BY <1>1, <2>1, <2>2 DEF LedInv, OutPcs, DataPcs
      <3>1. /\ dev.addr = To /\ sent[To] = 0
            /\ dev.stage = "data_out" \/ (dev.stage = "status_in" /\ dev.led = want)
        BY <1>1, <1>6 DEF ControlInv, LedInv, OutPcs, Absent
      <3>2. pid = 1
        BY <3>1, SMT
      <3>3. CASE DeviceOut(pid)
        BY <1>2, <1>3, <1>6, <3>1, <3>2, <3>3, OutTaken
      <3>4. CASE ~DeviceOut(pid)
        BY <1>5, <2>3, <3>1, <3>4
      <3> QED
        BY <3>3, <3>4
    <2> QED
      BY <2>4, <2>5, <2>6, <2>7, <2>8, <2>9 DEF ControlInv
  <1> QED
    BY <1>9, <1>10

LEMMA LookOutKeeps == ControlInv /\ LookOut => ControlInv'
  <1> SUFFICES ASSUME ControlInv, LookOut PROVE ControlInv'
    OBVIOUS
  <1>1. /\ pc = "out_look" /\ step \in Requests /\ step \notin Sets
        /\ UNCHANGED <<dev, recv, got, want, rx, gap, oddSetup, faults>>
    BY DEF LookOut, ControlInv, FlowInv, OutPcs
  <1>2. /\ TypeOK /\ AddressInv
        /\ dev \in Device /\ rx \in Receivable /\ To \in Addresses /\ To # Deaf
        /\ sent \in [Addresses -> Toggles] /\ recv \in [Addresses -> Toggles]
        /\ got \in Seq(1..Packets) /\ gap \in BOOLEAN /\ oddSetup \in BOOLEAN
        /\ retry \in 0..(SetupTries + DataRetries) /\ faults \in 0..MaxFaults
    BY <1>1, InTransfer
  <1>3. sent' \in [Addresses -> Toggles]
    BY <1>2, SMT DEF LookOut, NoteSent, Toggles
  <1>4. CASE Fail
    BY <1>1, <1>2, <1>3, <1>4, FailKeeps
  <1>5. CASE ~Fail /\ AgainOrFail("out") /\ UNCHANGED sent
    <2>1. /\ pc' = "out" /\ retry' \in 0..(SetupTries + DataRetries)
          /\ UNCHANGED <<address, step, result, polls>>
      BY <1>2, <1>5, Tries
    <2>2. To' = To
      BY <2>1 DEF To
    <2>3. TypeOK'
      BY <1>1, <1>2, <1>3, <2>1, KeepsTypes
    <2>4. FlowInv' /\ SetupInv' /\ ArrivedInv' /\ DeviceInv'
      BY <1>1, <2>1 DEF FlowInv, SetupInv, ArrivedInv, Arrived, DeviceInv, DataPcs
    <2>5. StageInv'
      BY <1>1, <2>1, <2>2 DEF ControlInv, StageInv, Absent, DataPcs, OutPcs
    <2>6. StoredInv'
      BY <1>1, <2>1 DEF ControlInv, StoredInv, DataPcs, OutPcs
    <2>7. AddressInv'
      BY <1>1, <1>2, <2>1 DEF AddressInv, Configured, Absent, DataPcs
    <2>8. LedInv'
      BY <1>1, <1>5, <2>1, <2>2 DEF ControlInv, LedInv, Absent, DataPcs, OutPcs
    <2> QED
      BY <2>3, <2>4, <2>5, <2>6, <2>7, <2>8 DEF ControlInv
  <1>6. CASE rx.kind = "ack" /\ step = "led" /\ Go("in", DataRetries)
    <2>1. pc' = "in" /\ retry' = DataRetries /\ UNCHANGED <<address, step, result, polls>>
      BY <1>6 DEF Go
    <2>2. To' = To
      BY <2>1 DEF To
    <2>3. TypeOK'
      <3>1. retry' \in 0..(SetupTries + DataRetries)
        BY <2>1, ControlAssumption, SMT
      <3> QED
        BY <1>1, <1>2, <1>3, <2>1, <3>1, KeepsTypes
    <2>4. FlowInv' /\ SetupInv' /\ ArrivedInv' /\ DeviceInv'
      BY <1>1, <1>6, <2>1 DEF FlowInv, SetupInv, ArrivedInv, DeviceInv, OutPcs, Reads
    <2>5. StageInv'
      BY <1>1, <1>6, <2>1, <2>2 DEF ControlInv, StageInv, Absent, DataPcs, OutPcs, Reads
    <2>6. StoredInv'
      BY <1>6, <2>1 DEF StoredInv, Reads
    <2>7. AddressInv'
      BY <1>1, <1>2, <1>6, <2>1 DEF AddressInv, Configured, Absent, DataPcs
    <2>8. LedInv'
      BY <1>1, <1>6, <2>1 DEF ControlInv, LedInv, Absent, DataPcs, OutPcs
    <2> QED
      BY <2>3, <2>4, <2>5, <2>6, <2>7, <2>8 DEF ControlInv
  <1>7. CASE step # "led" /\ Done
    <2>1. /\ pc' = "begin" /\ result' = "ok" /\ retry' = 0 /\ polls' = 0
          /\ step' \in Steps /\ step' \notin {"led", "hung"}
          /\ step' = "scan" => step = "config"
          /\ address' \in Addresses
          /\ address' # 0 => step' = "ready"
          /\ step' = "ready" => step \in {"set_config", "led"} /\ address' = 1
      BY <1>1, <1>2, <1>7, DoneEnds
    <2>2. step \in Reads /\ step' # "ready"
      BY <1>1, <1>7, <2>1 DEF Requests, Sets
    <2>3. TypeOK'
      <3>1. 0 \in 0..(SetupTries + DataRetries) /\ 0 \in 0..StatusPolls
        BY ControlAssumption, SMT
      <3> QED
        BY <1>1, <1>2, <1>3, <2>1, <3>1, SMT DEF TypeOK
    <2>4. AddressInv'
      BY <2>1, <2>2 DEF AddressInv, DataPcs
    <2>5. gap' \/ got' = Upto(Packets)
      BY <1>1, <2>2 DEF ControlInv, StoredInv, OutPcs
    <2> QED
      BY <2>1, <2>3, <2>4, <2>5, Begins
  <1> QED
    BY <1>4, <1>5, <1>6, <1>7 DEF LookOut, OutUnanswered

-----------------------------------------------------------------------------

LEMMA StepKeeps == ControlInv /\ [Next]_vars => ControlInv'
  <1> SUFFICES ASSUME ControlInv, [Next]_vars PROVE ControlInv'
    OBVIOUS
  <1>1. CASE Host
    <2>1. CASE NoDevice
      <3>1. faults' \in 0..MaxFaults
        BY <2>1 DEF NoDevice, ControlInv, TypeOK
      <3> QED
        BY <2>1, <3>1, GiveUpKeeps DEF NoDevice
    <2>2. CASE ~NoDevice
      BY <1>1, <2>2, StartInitKeeps, BusResetKeeps, ScanKeeps, SetupBeginKeeps, SendSetupKeeps,
         LookSetupKeeps, SendInKeeps, LookInKeeps, SendAckKeeps, JudgeKeeps, SendOutKeeps,
         LookOutKeeps
         DEF Host, Transfer
    <2> QED
      BY <2>1, <2>2
  <1>2. CASE PollsFail
    <2>1. faults' \in 0..MaxFaults
      BY <1>2, Faults DEF PollsFail, ControlInv, AllFaults
    <2> QED
      BY <1>2, <2>1, GiveUpKeeps DEF PollsFail
  <1>3. CASE SetLed
    BY <1>3, SetLedKeeps
  <1>4. CASE Unplug
    BY <1>4, UnplugKeeps
  <1>5. CASE UNCHANGED vars
    BY <1>5, SMT DEF vars, host, ControlInv, TypeOK, FlowInv, SetupInv, StageInv, StoredInv,
       ArrivedInv, DeviceInv, AddressInv, LedInv, Absent, Taken, Configured, Arrived, To
  <1> QED
    BY <1>1, <1>2, <1>3, <1>4, <1>5 DEF Next

LEMMA Always == Spec => []ControlInv
  <1>1. Init => ControlInv
    BY Initially
  <1>2. ControlInv /\ [Next]_vars => ControlInv'
    BY StepKeeps
  <1> QED
    BY <1>1, <1>2, PTL DEF Spec

\* The variables keep their types, for any number of retries and packets: a
\* retry counter of usb10.c never goes below zero, and the device is never
\* moved past its last packet.
THEOREM TypeCorrect == Spec => []TypeOK
  <1>1. ControlInv => TypeOK
    BY DEF ControlInv
  <1> QED
    BY <1>1, Always, PTL

\* An address in usb10_device_address belongs to a configured device: the
\* device that acknowledged SET_CONFIGURATION has the address, however many
\* packets and ACKs the bus has lost.
THEOREM AddressIsConfigured == Spec => []ReadyIsConfigured
  <1>1. ControlInv => ReadyIsConfigured
    BY DEF ControlInv, TypeOK, AddressInv, ReadyIsConfigured, Configured, Absent, Addresses
  <1> QED
    BY <1>1, Always, PTL

\* usb10_init scans the whole descriptor or one with a packet dropped for its
\* PID, and only the latter can make the scan hang.
THEOREM DescriptorIsWhole == Spec => []DescriptorWhole
  <1>1. ControlInv => DescriptorWhole
    BY DEF ControlInv, StoredInv, DescriptorWhole, Upto
  <1> QED
    BY <1>1, Always, PTL

\* Where a call of usb10_hid_set_led returns success: in the status stage.
LEMMA LedsWhenDone ==
    ASSUME ControlInv, [Next]_vars, step = "led", step' # "led", result' = "ok"
    PROVE  dev'.led = want \/ oddSetup \/ dev.addr = Deaf
  <1>1. ~Fail /\ ~UNCHANGED step
    BY DEF Fail
  <1>2. Judge \/ LookOut
    <2>1. Next
      BY <1>1 DEF vars, host
    <2>2. ~StartInit /\ ~NoDevice /\ ~PollsFail /\ ~SetLed /\ ~BusReset /\ ~Scan /\ ~Unplug
          /\ ~SetupBegin
      BY <1>1 DEF StartInit, NoDevice, PollsFail, GiveUp, SetLed, BusReset, Scan, Unplug,
         SetupBegin, host
    <2>3. ~SendSetup /\ ~SendIn /\ ~SendAck /\ ~SendOut
      BY <1>1 DEF SendSetup, SendIn, SendAck, SendOut, Go
    <2>4. ~LookSetup /\ ~LookIn
      BY <1>1 DEF LookSetup, LookIn, AgainOrFail, Go, Refused
    <2> QED
      BY <2>1, <2>2, <2>3, <2>4 DEF Next, Host, Transfer
  <1>3. Judge /\ pc = "judge" /\ UNCHANGED dev
    <2>1. ~LookOut
      BY <1>1 DEF LookOut, OutUnanswered, AgainOrFail, Go
    <2> QED
      BY <1>2, <2>1 DEF Judge
  <1> QED
    BY <1>3 DEF ControlInv, LedInv, DataPcs, Absent

\* usb10_hid_set_led reports success only if the device shows the LEDs sent.
THEOREM LedsAreApplied == Spec => LedApplied
  <1>1. ControlInv /\ [Next]_vars =>
          [step = "led" /\ step' # "led" /\ result' = "ok"
           => dev'.led = want \/ oddSetup \/ dev.addr = Deaf]_vars
    BY LedsWhenDone
  <1> QED
    BY <1>1, Always, PTL DEF Spec, LedApplied

-----------------------------------------------------------------------------
(* A descriptor with a packet dropped for its PID is still one without a    *)
(* packet stored twice, and a request ends whatever the device answers:     *)
(* each packet is newer than the last, and each is tried for so often only. *)

\* The packet stored last.
Latest == IF got = <<>> THEN 0 ELSE got[Len(got)]

StoredInOrder == \A i, j \in 1..Len(got) : i < j => got[i] < got[j]

\* A packet that Dupe rejects or that is newer than the ones stored.
Newer(packet, pid) == packet > Latest \/ (packet = Latest /\ pid = recv[To])

NewerInv ==
    /\ StoredInOrder
    /\ step \in Reads /\ pc \in DataPcs =>
         /\ Latest < Packets
         /\ Arrived => Newer(rx.packet, rx.pid)
         /\ ~Absent /\ Arrived => \/ dev.next = rx.packet /\ dev.toggle = rx.pid
                                  \/ pc = "judge" /\ dev.next > rx.packet
         /\ ~Absent => Newer(dev.next, dev.toggle)

LEMMA LatestType ==
    ASSUME TypeOK
    PROVE  Latest \in 0..Packets /\ Packets \in Nat
  BY ControlAssumption DEF TypeOK, Latest

\* Outside the data stage of a read only what is stored counts.
LEMMA NewerElsewhere ==
    ASSUME NewerInv, UNCHANGED got, ~(step' \in Reads /\ pc' \in DataPcs)
    PROVE  NewerInv'
  BY DEF NewerInv, StoredInOrder

\* In it nothing is stored but in Judge, and the device is at the packet it was
\* at or at a newer one.
LEMMA NewerWhile ==
    ASSUME ControlInv, NewerInv, step \in Reads, pc \in DataPcs,
           UNCHANGED <<got, recv, step>>, pc' \in DataPcs,
           dev' = dev \/ Absent',
           Arrived' => UNCHANGED rx /\ Arrived /\ (pc = "judge" => pc' = "judge")
    PROVE  NewerInv'
  <1>0. To' = To
    BY DEF To, Reads
  <1>1. To' = To /\ StoredInOrder' /\ Latest' = Latest /\ Latest < Packets
    BY <1>0 DEF NewerInv, StoredInOrder, Latest
  <1>2. ~Absent' => dev' = dev /\ ~Absent
    BY DEF Absent
  <1>3. Arrived' => Newer(rx.packet, rx.pid)'
    BY <1>1 DEF NewerInv, Newer
  <1>4. ~Absent' => Newer(dev.next, dev.toggle)'
    BY <1>1, <1>2 DEF NewerInv, Newer
  <1>5. ~Absent' /\ Arrived' => \/ dev'.next = rx'.packet /\ dev'.toggle = rx'.pid
                                \/ pc' = "judge" /\ dev'.next > rx'.packet
    BY <1>2 DEF NewerInv
  <1> QED BY <1>1, <1>2, <1>3, <1>4, <1>5 DEF NewerInv

LEMMA LookSetupNewer ==
    ASSUME ControlInv, NewerInv, LookSetup
    PROVE  NewerInv'
  <1>1. pc = "setup_look" /\ step \in Requests /\ UNCHANGED <<dev, recv, got, rx>>
    BY DEF LookSetup, ControlInv, FlowInv
  <1>2. CASE pc' = "in" /\ step' \in Reads
    <2>1. rx.kind = "ack" /\ step' = step
      BY <1>1, <1>2 DEF LookSetup, AgainOrFail, Fail, Go
    <2>2. got = <<>> /\ recv[To] = 0 /\ (Absent \/ dev.next = 1)
      BY <1>1, <2>1 DEF ControlInv, SetupInv, Taken
    <2>3. Latest' = 0 /\ ~Arrived' /\ StoredInOrder' /\ 0 < Packets
      BY <1>1, <1>2, <2>2, ControlAssumption DEF Latest, Arrived, StoredInOrder
    <2> QED BY <1>1, <2>2, <2>3 DEF NewerInv, Newer, Absent
  <1>3. CASE ~(pc' = "in" /\ step' \in Reads)
    <2>1. ~(step' \in Reads /\ pc' \in DataPcs)
      BY <1>1, <1>3 DEF LookSetup, AgainOrFail, Fail, Go, NextStage, DataPcs
    <2> QED BY <1>1, <2>1, NewerElsewhere
  <1> QED BY <1>2, <1>3

LEMMA SendInNewer ==
    ASSUME ControlInv, NewerInv, SendIn
    PROVE  NewerInv'
  <1>1. /\ pc = "in" /\ step \in Requests /\ UNCHANGED <<sent, recv, got>>
        /\ TypeOK /\ To # Deaf
    BY InTransfer DEF SendIn, ControlInv, FlowInv
  <1>2. CASE step \notin Reads \/ Fail
    <2>1. ~(step' \in Reads /\ pc' \in DataPcs)
      BY <1>1, <1>2 DEF SendIn, Fail, Go, DataPcs
    <2> QED BY <1>1, <2>1, NewerElsewhere
  <1>3. CASE step \in Reads /\ ~Fail
    <2>1. pc' = "in_look" /\ step' = step /\ To' = To
      BY <1>3 DEF SendIn, Go, To
    <2>2. ~Absent => dev.stage = "in" /\ dev.addr = To
      BY <1>1, <1>3 DEF ControlInv, StageInv, DataPcs
    <2>3. Hears => ~Absent /\ dev.stage = "in"
      BY <1>1, <2>2 DEF Hears, Absent
    <2>4. /\ Handshake("damaged").kind = "damaged" /\ Handshake("nak").kind = "nak"
          /\ Handshake("stall").kind = "stall" /\ Nothing.kind = "none"
      BY Handshakes, NothingReceived
    <2>5. \A o \in Offers : dev.stage = "in" /\ o.kind = "data" =>
            o = [kind |-> "data", pid |-> dev.toggle, packet |-> dev.next]
      BY <2>4 DEF Offers
    <2>6. dev' = dev
      BY <1>1, <1>3, <2>3, InAnswered DEF SendIn, DeviceIn, Hears
    <2>7. rx'.kind \in {"data", "odd_pid"} =>
            ~Absent /\ rx'.packet = dev.next /\ rx'.pid = dev.toggle
      <3>1. CASE DeviceIn
        BY <1>1, <2>3, <3>1, InAnswered DEF DeviceIn
      <3>2. ASSUME Hears, NEW o \in Offers, o.kind = "data", rx' = [o EXCEPT !.kind = "odd_pid"]
            PROVE  ~Absent /\ rx'.packet = dev.next /\ rx'.pid = dev.toggle
        BY <2>3, <2>5, <3>2
      <3>3. CASE rx' \in {Nothing, Handshake("damaged"), Handshake("nak"), Handshake("stall")}
        BY <2>4, <3>3
      <3> QED BY <1>3, <3>1, <3>2, <3>3 DEF SendIn
    <2>8. Arrived' => rx'.kind \in {"data", "odd_pid"}
      BY <2>1 DEF Arrived
    <2>9. ~Absent => Newer(dev.next, dev.toggle)
      BY <1>1, <1>3 DEF NewerInv, DataPcs
    <2>10. Latest' = Latest /\ Latest < Packets /\ StoredInOrder'
      BY <1>1, <1>3 DEF NewerInv, DataPcs, Latest, StoredInOrder
    <2>11. Arrived' => Newer(rx.packet, rx.pid)'
      BY <1>1, <2>1, <2>7, <2>8, <2>9, <2>10 DEF Newer
    <2>12. ~Absent' => Newer(dev.next, dev.toggle)'
      BY <1>1, <2>1, <2>6, <2>9, <2>10 DEF Newer, Absent
    <2>13. ~Absent' /\ Arrived' => dev'.next = rx'.packet /\ dev'.toggle = rx'.pid
      BY <2>6, <2>7, <2>8
    <2> QED BY <2>10, <2>11, <2>12, <2>13 DEF NewerInv
  <1> QED BY <1>2, <1>3

LEMMA LookInNewer ==
    ASSUME ControlInv, NewerInv, LookIn
    PROVE  NewerInv'
  <1>1. pc = "in_look" /\ step \in Requests /\ UNCHANGED <<dev, recv, got, rx>>
    BY DEF LookIn, ControlInv, FlowInv
  <1>2. CASE step \notin Reads \/ Fail
    <2>1. ~(step' \in Reads /\ pc' \in DataPcs)
      BY <1>1, <1>2 DEF LookIn, AgainOrFail, Refused, Fail, Go, DataPcs, AfterLed, Reads
    <2> QED BY <1>1, <2>1, NewerElsewhere
  <1>3. CASE step \in Reads /\ ~Fail
    <2>1. /\ step' = step
          /\ pc' = "in" \/ (pc' = "ack" /\ rx.kind \in {"data", "odd_pid"})
      BY <1>3 DEF LookIn, AgainOrFail, Refused, Go
    <2>2. Arrived' => Arrived
      BY <1>1, <2>1 DEF Arrived
    <2> QED BY <1>1, <1>3, <2>1, <2>2, NewerWhile DEF DataPcs
  <1> QED BY <1>2, <1>3

LEMMA SendAckNewer ==
    ASSUME ControlInv, NewerInv, SendAck
    PROVE  NewerInv'
  <1>1. pc = "ack" /\ step \in Requests /\ UNCHANGED <<recv, got, rx>> /\ To # Deaf
    BY InTransfer DEF SendAck, ControlInv, FlowInv
  <1>2. CASE step \notin Reads \/ Fail
    <2>1. ~(step' \in Reads /\ pc' \in DataPcs)
      BY <1>1, <1>2 DEF SendAck, Fail, Go, DataPcs
    <2> QED BY <1>1, <2>1, NewerElsewhere
  <1>3. CASE step \in Reads /\ ~Fail
    <2>1. pc' = "judge" /\ step' = step /\ (dev' = dev \/ dev' = AfterAck)
      BY <1>3 DEF SendAck, Go
    <2>2. CASE dev' = dev \/ Absent'
      <3>1. Arrived /\ Arrived'
        BY <1>1, <2>1 DEF Arrived
      <3> QED BY <1>1, <1>3, <2>1, <2>2, <3>1, NewerWhile DEF DataPcs
    <2>3. CASE dev' # dev /\ ~Absent'
      <3>1. ~Absent
        BY <1>1, <2>1, <2>3 DEF AfterAck, Hears, Absent
      <3>2. dev.addr = To /\ dev.stage = "in" /\ dev \in Device
        BY <1>1, <1>3, <3>1, InTransfer DEF ControlInv, StageInv, DataPcs
      <3>3. dev' = [dev EXCEPT !.next = dev.next + 1, !.toggle = 1 - dev.toggle]
        BY <2>1, <2>3, <3>2 DEF AfterAck, Hears
      <3>4. dev'.next = dev.next + 1 /\ dev.next \in Nat
        BY <3>2, <3>3 DEF Device
      <3>5. /\ StoredInOrder /\ Latest < Packets /\ Newer(rx.packet, rx.pid)
            /\ dev.next = rx.packet
        BY <1>1, <1>3, <3>1 DEF NewerInv, DataPcs, Arrived
      <3>6. To' = To
        BY <1>3, <2>1 DEF To, Reads
      <3>7. Latest' = Latest /\ StoredInOrder' /\ Newer(rx.packet, rx.pid)'
        BY <1>1, <3>5, <3>6 DEF Latest, StoredInOrder, Newer
      <3>8. dev'.next > rx'.packet
        BY <1>1, <3>4, <3>5
      <3>9. dev'.next > Latest'
        BY <3>4, <3>5, <3>7, LatestType, <1>1 DEF Newer, ControlInv
      <3> QED BY <2>1, <3>5, <3>7, <3>8, <3>9 DEF NewerInv, Newer
    <2> QED BY <2>2, <2>3
  <1> QED BY <1>2, <1>3

\* A packet newer than the last goes to the end.
LEMMA AppendInOrder ==
    ASSUME TypeOK, StoredInOrder, NEW packet \in 1..Packets, packet > Latest
    PROVE  LET more == Append(got, packet)
           IN  /\ \A i, j \in 1..Len(more) : i < j => more[i] < more[j]
               /\ more # <<>> /\ more[Len(more)] = packet
  <1> DEFINE more == Append(got, packet)
  <1>1. got \in Seq(1..Packets) /\ Packets \in Nat
    BY ControlAssumption DEF TypeOK
  <1>2. /\ Len(more) = Len(got) + 1 /\ Len(got) \in Nat
        /\ \A i \in 1..Len(got) : more[i] = got[i] /\ got[i] \in 1..Packets
        /\ more[Len(got) + 1] = packet
    BY <1>1
  <1>3. \A i \in 1..Len(got) : got[i] <= Latest
    <2> SUFFICES ASSUME NEW i \in 1..Len(got) PROVE got[i] <= Latest
      OBVIOUS
    <2>1. got # <<>> /\ Len(got) \in 1..Len(got)
      BY <1>1
    <2>2. Latest = got[Len(got)]
      BY <2>1 DEF Latest
    <2> QED BY <1>2, <2>1, <2>2 DEF StoredInOrder
  <1>4. Latest \in Nat
    BY LatestType
  <1> HIDE DEF more
  <1>5. ASSUME NEW i \in 1..Len(more), NEW j \in 1..Len(more), i < j
        PROVE  more[i] < more[j]
    <2>1. i \in 1..Len(got)
      BY <1>2, <1>5
    <2>2. CASE j = Len(got) + 1
      BY <1>2, <1>3, <1>4, <2>1, <2>2
    <2>3. CASE j # Len(got) + 1
      BY <1>2, <1>5, <2>1, <2>3 DEF StoredInOrder
    <2> QED BY <2>2, <2>3
  <1>6. more # <<>>
    <2>1. Len(<<>>) = 0 /\ Len(more) # 0
      BY <1>2
    <2> QED BY <2>1
  <1> QED BY <1>2, <1>5, <1>6 DEF more

\* The packet that Judge stores.
Stores ==
    /\ pc = "judge" /\ rx.kind = "data" /\ ~Dupe /\ step \in Reads
    /\ recv' = [recv EXCEPT ![To] = rx.pid] /\ got' = Append(got, rx.packet)
    /\ Go(IF Last THEN "out" ELSE "in", DataRetries)

LEMMA StoresNewer ==
    ASSUME ControlInv, NewerInv, Stores
    PROVE  /\ rx.packet > Latest /\ Latest' = rx.packet /\ rx.packet \in 1..Packets
           /\ StoredInOrder' /\ recv'[To] = rx.pid /\ step' = step /\ To' = To
  <1>1. step \in Requests /\ Arrived
    BY DEF Stores, ControlInv, FlowInv, Arrived
  <1>2. Newer(rx.packet, rx.pid) /\ StoredInOrder
    BY <1>1 DEF Stores, NewerInv, DataPcs
  <1>3. rx.packet > Latest
    BY <1>2 DEF Newer, Dupe, Stores
  <1>4. TypeOK /\ rx \in Receivable /\ To \in Addresses /\ recv \in [Addresses -> Toggles]
    BY <1>1, InTransfer
  <1>5. rx.packet \in 1..Packets
    BY <1>3, <1>4, LatestType, ControlAssumption DEF Receivable
  <1>6. Latest' = rx.packet /\ StoredInOrder'
    BY <1>2, <1>3, <1>4, <1>5, AppendInOrder DEF Stores, Latest, StoredInOrder
  <1>7. step' = step /\ To' = To
    BY DEF Stores, Go, To
  <1> QED BY <1>3, <1>4, <1>5, <1>6, <1>7 DEF Stores

LEMMA JudgeNewer ==
    ASSUME ControlInv, NewerInv, Judge
    PROVE  NewerInv'
  <1>1. pc = "judge" /\ step \in Requests /\ UNCHANGED <<dev, rx>> /\ Arrived
    BY DEF Judge, ControlInv, FlowInv, Arrived
  <1>2. CASE UNCHANGED <<got, recv>> /\ AgainOrFail("in")
    <2>1. CASE Fail \/ step \notin Reads
      <3>1. ~(step' \in Reads /\ pc' \in DataPcs)
        BY <1>2, <2>1 DEF AgainOrFail, Fail, Go, DataPcs, AfterLed, Reads
      <3> QED BY <1>2, <3>1, NewerElsewhere
    <2>2. CASE ~Fail /\ step \in Reads
      <3>1. pc' = "in" /\ step' = step
        BY <1>2, <2>2 DEF AgainOrFail, Go
      <3>2. ~Arrived'
        BY <3>1 DEF Arrived
      <3> QED BY <1>1, <1>2, <2>2, <3>1, <3>2, NewerWhile DEF DataPcs
    <2> QED BY <2>1, <2>2
  <1>3. CASE UNCHANGED got /\ Done
    <2>1. pc' = "begin"
      BY <1>3 DEF Done
    <2> QED BY <1>3, <2>1, NewerElsewhere DEF DataPcs
  <1>4. CASE Stores
    <2>1. ~Absent => (dev.next = rx.packet /\ dev.toggle = rx.pid) \/ dev.next > rx.packet
      BY <1>1, <1>4 DEF NewerInv, DataPcs, Stores
    <2>2. /\ Latest' = rx.packet /\ rx.packet \in 1..Packets /\ StoredInOrder'
          /\ recv'[To'] = rx.pid
      BY <1>4, StoresNewer
    <2>3. pc' = IF Last THEN "out" ELSE "in"
      BY <1>4 DEF Stores, Go
    <2>4. CASE Last
      BY <2>2, <2>3, <2>4 DEF NewerInv, DataPcs
    <2>5. CASE ~Last
      <3>1. Latest' < Packets /\ ~Arrived'
        BY <2>2, <2>3, <2>5, ControlAssumption DEF Last, Arrived
      <3>2. ~Absent' => Newer(dev.next, dev.toggle)'
        BY <1>1, <2>1, <2>2 DEF Newer, Absent
      <3> QED BY <2>2, <3>1, <3>2 DEF NewerInv
    <2> QED BY <2>4, <2>5
  <1> QED BY <1>1, <1>2, <1>3, <1>4 DEF Judge, Stores

\* Everything else is outside the data stage of a read.
LEMMA NextNewer ==
    ASSUME ControlInv, NewerInv, [Next]_vars
    PROVE  NewerInv'
  <1>1. CASE LookSetup \/ SendIn \/ LookIn \/ SendAck \/ Judge
    BY <1>1, LookSetupNewer, SendInNewer, LookInNewer, SendAckNewer, JudgeNewer
  <1>2. CASE SetupBegin
    BY <1>2 DEF SetupBegin, NewerInv, StoredInOrder, DataPcs
  <1>3. CASE StartInit \/ NoDevice \/ PollsFail \/ SetLed \/ Scan
    <2>1. pc' = pc /\ got' = got /\ step' \notin Reads
      BY <1>3 DEF StartInit, First, NoDevice, PollsFail, GiveUp, SetLed, Scan, Reads
    <2> QED BY <2>1, NewerElsewhere
  <1>4. CASE BusReset \/ SendSetup \/ SendOut \/ LookOut
    <2>1. got' = got /\ (pc' \notin DataPcs \/ step' = "led")
      BY <1>4 DEF BusReset, SendSetup, SendOut, LookOut, OutUnanswered, AgainOrFail, Fail,
         Done, Go, DataPcs
    <2> QED BY <2>1, NewerElsewhere DEF Reads
  <1>5. CASE Unplug \/ UNCHANGED vars
    <2>1. UNCHANGED <<step, pc, got, recv, rx>> /\ (dev' = dev \/ Absent')
      BY <1>5, FreshDevice DEF Unplug, host, vars, Absent
    <2>2. Arrived' => Arrived
      BY <2>1 DEF Arrived
    <2>3. CASE step \in Reads /\ pc \in DataPcs
      BY <2>1, <2>2, <2>3, NewerWhile
    <2> QED BY <2>1, <2>3, NewerElsewhere
  <1> QED BY <1>1, <1>2, <1>3, <1>4, <1>5 DEF Next, Host, Transfer

(* No packet of a descriptor is stored twice or before an earlier one, also  *)
(* when one was dropped for its PID: the one bit that the host compares is   *)
(* enough, as the device repeats a packet with the same bit and never goes   *)
(* back to an earlier one (usb10_setup_request).                             *)
THEOREM NothingIsStoredTwice == Spec => []StoredInOrder
  <1>1. Init => NewerInv
    BY DEF Init, NewerInv, StoredInOrder, DataPcs
  <1>2. ControlInv /\ NewerInv /\ [Next]_vars => NewerInv'
    BY NextNewer
  <1>3. NewerInv => StoredInOrder
    BY DEF NewerInv
  <1> QED BY <1>1, <1>2, <1>3, Always, PTL DEF Spec

\* The tries that the stage under way has left; and the stages that follow.
Tries4 ==
    4 * retry + CASE pc \in {"setup", "in", "out"} -> 4
                  [] pc = "ack"   -> 2
                  [] pc = "judge" -> 1
                  [] OTHER        -> 3

StageSteps == 4 * DataRetries + 4
MostStages == Packets + StatusPolls + 1

StagesLeft ==
    IF pc \in {"begin", "setup", "setup_look"} THEN MostStages
    ELSE CASE step \in Reads -> IF pc \in DataPcs THEN Packets - Latest ELSE 0
           [] step \in Sets  -> polls
           [] OTHER          -> IF pc \in OutPcs THEN 1 ELSE 0

StepsLeft == StagesLeft * StageSteps + IF pc = "begin" THEN 4 * SetupTries + 1 ELSE Tries4

InRequest == step \in Requests

RetryInv == InRequest /\ pc # "begin" =>
              IF pc \in {"setup", "setup_look"} THEN retry < SetupTries ELSE retry <= DataRetries

TransfersAreBounded ==
    [][InRequest =>
         /\ StepsLeft \in 1..(MostStages * StageSteps + 4 * SetupTries + 1)
         /\ \/ step' # step
            \/ StepsLeft' < StepsLeft
            \/ Unplug /\ StepsLeft' = StepsLeft]_vars

LEMMA RetryNext ==
    ASSUME ControlInv, RetryInv, [Next]_vars
    PROVE  RetryInv'
  <1> USE ControlAssumption
  <1>1. TypeOK /\ retry \in Nat /\ (pc # "begin" => step \in Requests)
    BY DEF ControlInv, TypeOK, FlowInv
  <1>2. ASSUME pc' = "begin" PROVE RetryInv'
    BY <1>2 DEF RetryInv
  <1>3. CASE Fail \/ Done
    BY <1>2, <1>3 DEF Fail, Done
  <1>4. ASSUME NEW where, AgainOrFail(where), pc # "begin",
               where \in {"setup", "in", "out"}, where = "setup" <=> pc = "setup_look", pc # "setup"
        PROVE  RetryInv'
    BY <1>1, <1>3, <1>4 DEF AgainOrFail, Go, RetryInv, InRequest
  <1>5. ASSUME NEW where, Go(where, DataRetries), where \in DataPcs \cup OutPcs
        PROVE  RetryInv'
    BY <1>5 DEF Go, RetryInv, DataPcs, OutPcs
  <1>6. ASSUME NEW where, Go(where, retry), pc # "begin",
               where \in {"setup_look"} \cup DataPcs \cup OutPcs,
               where = "setup_look" <=> pc \in {"setup", "setup_look"}
        PROVE  RetryInv'
    BY <1>1, <1>6 DEF Go, RetryInv, InRequest, DataPcs, OutPcs
  <1>7. CASE SetupBegin
    BY <1>7 DEF SetupBegin, RetryInv
  <1>8. CASE StartInit \/ NoDevice \/ PollsFail \/ SetLed \/ Scan
    <2>1. step \notin Requests /\ pc' = pc
      BY <1>8 DEF StartInit, NoDevice, PollsFail, GiveUp, SetLed, Scan, Requests, Reads, Sets
    <2> QED BY <1>1, <1>2, <2>1
  <1>9. CASE BusReset
    BY <1>3, <1>9 DEF BusReset
  <1>10. CASE SendSetup
    BY <1>3, <1>6, <1>10 DEF SendSetup
  <1>11. CASE LookSetup
    <2>1. NextStage \in DataPcs \cup OutPcs
      BY DEF NextStage, DataPcs, OutPcs
    <2> QED BY <1>4, <1>5, <1>11, <2>1 DEF LookSetup
  <1>12. CASE SendIn \/ SendAck \/ SendOut
    BY <1>3, <1>6, <1>12 DEF SendIn, SendAck, SendOut, DataPcs, OutPcs
  <1>13. CASE LookIn
    <2>1. CASE Refused
      BY <1>3, <2>1 DEF Refused, RetryInv
    <2>2. CASE Go("ack", retry)
      BY <1>6, <1>13, <2>2 DEF LookIn, DataPcs
    <2>3. CASE Fail \/ AgainOrFail("in")
      BY <1>3, <1>4, <1>13, <2>3 DEF LookIn
    <2> QED BY <1>13, <2>1, <2>2, <2>3 DEF LookIn
  <1>14. CASE Judge
    <2>1. CASE AgainOrFail("in")
      BY <1>4, <1>14, <2>1 DEF Judge
    <2>2. CASE Go(IF Last THEN "out" ELSE "in", DataRetries)
      BY <1>5, <2>2 DEF DataPcs, OutPcs
    <2> QED BY <1>3, <1>14, <2>1, <2>2 DEF Judge
  <1>15. CASE LookOut
    <2>1. CASE AgainOrFail("out")
      BY <1>4, <1>15, <2>1 DEF LookOut
    <2>2. CASE Go("in", DataRetries)
      BY <1>5, <2>2 DEF DataPcs
    <2> QED BY <1>3, <1>15, <2>1, <2>2 DEF LookOut, OutUnanswered
  <1>16. CASE Unplug \/ UNCHANGED vars
    BY <1>16 DEF Unplug, host, vars, RetryInv, InRequest
  <1> QED BY <1>7, <1>8, <1>9, <1>10, <1>11, <1>12, <1>13, <1>14, <1>15, <1>16
          DEF Next, Host, Transfer

LEMMA RequestEnds ==
    ASSUME InRequest, Fail \/ Done
    PROVE  step' # step
  <1>1. CASE Fail
    BY <1>1 DEF Fail, AfterLed, InRequest, Requests, Reads, Sets
  <1>2. CASE Done /\ step = "led"
    BY <1>2 DEF Done, AfterLed
  <1>3. CASE Done /\ step # "led"
    <2>1. step \in Steps /\ step \in {"device", "config", "set_address", "set_config"}
      BY <1>3 DEF InRequest, Requests, Reads, Sets, Steps
    <2>2. After[step] # step
      BY <2>1 DEF After
    <2> QED BY <1>3, <2>2 DEF Done
  <1> QED BY <1>1, <1>2, <1>3

LEMMA StagesType ==
    ASSUME ControlInv, NewerInv, RetryInv, InRequest
    PROVE  /\ MostStages \in Nat /\ StageSteps \in Nat /\ SetupTries \in Nat \ {0}
           /\ StagesLeft \in 0..MostStages
           /\ pc \in {"setup", "setup_look"} => Tries4 \in 1..(4 * SetupTries)
           /\ pc \notin {"begin", "setup", "setup_look"} =>
                Tries4 \in 1..StageSteps /\ StagesLeft + 1 <= MostStages
  <1> USE ControlAssumption
  <1>1. TypeOK /\ retry \in Nat /\ polls \in 0..StatusPolls /\ Latest \in 0..Packets
        /\ Packets \in Nat \ {0} /\ StatusPolls \in Nat \ {0}
        /\ DataRetries \in Nat /\ SetupTries \in Nat \ {0}
    BY LatestType DEF ControlInv, TypeOK
  <1>2. MostStages \in Nat /\ StageSteps \in Nat
    BY <1>1 DEF MostStages, StageSteps
  <1>3. /\ StagesLeft \in 0..MostStages
        /\ pc \notin {"begin", "setup", "setup_look"} => StagesLeft + 1 <= MostStages
    BY <1>1 DEF StagesLeft, MostStages
  <1>4. pc \in {"setup", "setup_look"} => Tries4 \in 1..(4 * SetupTries)
    BY <1>1 DEF RetryInv, Tries4
  <1>5. pc \notin {"begin", "setup", "setup_look"} => Tries4 \in 1..StageSteps
    BY <1>1 DEF RetryInv, Tries4, StageSteps
  <1> QED BY <1>1, <1>2, <1>3, <1>4, <1>5

\* A step of a transfer is one of a stage, or it ends a stage or the request.
LEMMA TransferNearer ==
    ASSUME ControlInv, NewerInv, RetryInv, InRequest, Transfer, step' = step
    PROVE  /\ pc' # "begin"
           /\ \/ /\ StagesLeft' = StagesLeft
                 /\ IF pc = "begin" THEN Tries4' = 4 * SetupTries
                                    ELSE Tries4' \in Nat /\ Tries4' < Tries4
              \/ /\ StagesLeft' \in Nat /\ StagesLeft' < StagesLeft
                 /\ pc # "begin" /\ Tries4' = StageSteps
  <1> USE ControlAssumption
  <1>1. TypeOK /\ retry \in Nat /\ polls \in 0..StatusPolls /\ Latest \in 0..Packets
        /\ Packets \in Nat \ {0} /\ StatusPolls \in Nat \ {0} /\ DataRetries \in Nat
    BY LatestType DEF ControlInv, TypeOK
  <1>2. ~Fail /\ ~Done
    BY RequestEnds
  <1>3. CASE SetupBegin
    <2>1. pc = "begin" /\ pc' = "setup" /\ retry' = SetupTries - 1
      BY <1>3 DEF SetupBegin
    <2> QED BY <2>1 DEF StagesLeft, MostStages, Tries4
  \* A stage goes on; what it counts by does not change.
  <1>4. ASSUME pc' = pc \/ (pc \in {"setup", "setup_look"} /\ pc' \in {"setup", "setup_look"})
                 \/ (pc \in DataPcs /\ pc' \in DataPcs) \/ (pc \in OutPcs /\ pc' \in OutPcs),
               UNCHANGED <<got, polls>>
        PROVE  StagesLeft' = StagesLeft
    BY <1>4 DEF StagesLeft, Latest, MostStages, DataPcs, OutPcs
  <1>5. CASE SendSetup
    <2>1. /\ pc = "setup" /\ pc' = "setup_look" /\ retry' = retry /\ UNCHANGED <<got, polls>>
      BY <1>2, <1>5 DEF SendSetup, Go
    <2> QED BY <1>1, <1>4, <2>1 DEF Tries4
  <1>6. CASE LookSetup
    <2>1. pc = "setup_look" /\ UNCHANGED <<got, polls>>
      BY <1>2, <1>6 DEF LookSetup, AgainOrFail, Go
    <2>2. CASE retry > 0 /\ Go("setup", retry - 1)
      BY <1>1, <1>4, <2>1, <2>2 DEF Tries4, Go
    <2>3. CASE Go(NextStage, DataRetries)
      <3>1. pc' = NextStage /\ pc' = (IF step = "led" THEN "out" ELSE "in") /\ retry' = DataRetries
        BY <2>3 DEF Go, NextStage
      <3>2. Tries4' = StageSteps
        BY <3>1 DEF Tries4, StageSteps
      <3>3. Latest' = Latest
        BY <2>1 DEF Latest
      <3>4. StagesLeft' \in Nat /\ StagesLeft' < StagesLeft
        <4>1. StagesLeft = MostStages
          BY <2>1 DEF StagesLeft
        <4>2. StagesLeft' \in {Packets - Latest, polls, 1, 0}
          BY <2>1, <3>1, <3>3 DEF StagesLeft
        <4> QED BY <1>1, <4>1, <4>2 DEF MostStages
      <3> QED BY <2>1, <3>1, <3>2, <3>4
    <2> QED BY <1>2, <1>6, <2>2, <2>3 DEF LookSetup, AgainOrFail
  <1>7. CASE SendIn \/ SendAck \/ SendOut
    <2>1. /\ \/ pc = "in" /\ pc' = "in_look"
             \/ pc = "ack" /\ pc' = "judge"
             \/ pc = "out" /\ pc' = "out_look"
          /\ retry' = retry /\ UNCHANGED <<got, polls>>
      BY <1>2, <1>7 DEF SendIn, SendAck, SendOut, Go
    <2> QED BY <1>1, <1>4, <2>1 DEF Tries4, DataPcs, OutPcs
  <1>8. CASE LookIn
    <2>1. pc = "in_look" /\ UNCHANGED got
      BY <1>8 DEF LookIn
    <2>2. CASE Go("ack", retry) \/ (retry > 0 /\ Go("in", retry - 1))
      BY <1>1, <1>4, <2>1, <2>2 DEF Tries4, Go, DataPcs
    <2>3. CASE Refused
      <3>1. step \in Sets /\ polls > 1 /\ pc' = "in" /\ retry' = DataRetries /\ polls' = polls - 1
        BY <1>2, <2>3 DEF Refused
      <3>2. Tries4' = StageSteps
        BY <3>1 DEF Tries4, StageSteps
      <3>3. StagesLeft' \in Nat /\ StagesLeft' < StagesLeft
        BY <1>1, <2>1, <3>1 DEF StagesLeft, Reads, Sets
      <3> QED BY <2>1, <3>1, <3>2, <3>3
    <2> QED BY <1>2, <1>8, <2>2, <2>3 DEF LookIn, AgainOrFail
  <1>9. CASE Judge
    <2>1. pc = "judge"
      BY <1>9 DEF Judge
    <2>2. CASE UNCHANGED got /\ retry > 0 /\ Go("in", retry - 1)
      BY <1>1, <1>4, <2>1, <2>2 DEF Tries4, Go, DataPcs
    <2>3. CASE Stores
      <3>1. rx.packet > Latest /\ Latest' = rx.packet /\ rx.packet \in 1..Packets
        BY <2>3, StoresNewer
      <3>2. pc' \in {"in", "out"} /\ (pc' = "out" <=> Last) /\ retry' = DataRetries
        BY <2>3 DEF Stores, Go
      <3>3. Tries4' = StageSteps
        BY <3>2 DEF Tries4, StageSteps
      <3>4. StagesLeft' \in Nat /\ StagesLeft' < StagesLeft
        <4>1. step \in Reads
          BY <2>3 DEF Stores
        <4>2. StagesLeft = Packets - Latest
          BY <2>1, <4>1 DEF StagesLeft, DataPcs, Reads, Sets
        <4>3. StagesLeft' = IF Last THEN 0 ELSE Packets - rx.packet
          BY <3>1, <3>2, <4>1 DEF StagesLeft, DataPcs, Reads, Sets
        <4> QED BY <1>1, <3>1, <4>2, <4>3
      <3> QED BY <2>1, <3>2, <3>3, <3>4
    <2> QED BY <1>2, <1>9, <2>2, <2>3 DEF Judge, Stores, AgainOrFail
  <1>10. CASE LookOut
    <2>1. pc = "out_look" /\ UNCHANGED got
      BY <1>10 DEF LookOut
    <2>2. CASE retry > 0 /\ Go("out", retry - 1)
      BY <1>1, <1>4, <2>1, <2>2 DEF Tries4, Go, OutPcs
    <2>3. CASE step = "led" /\ Go("in", DataRetries)
      <3>1. pc' = "in" /\ retry' = DataRetries
        BY <2>3 DEF Go
      <3>2. Tries4' = StageSteps
        BY <3>1 DEF Tries4, StageSteps
      <3>3. StagesLeft' = 0 /\ StagesLeft = 1
        BY <2>1, <2>3, <3>1 DEF StagesLeft, OutPcs, Reads, Sets
      <3> QED BY <2>1, <3>1, <3>2, <3>3
    <2> QED BY <1>2, <1>10, <2>2, <2>3 DEF LookOut, OutUnanswered, AgainOrFail
  <1> QED BY <1>3, <1>5, <1>6, <1>7, <1>8, <1>9, <1>10 DEF Transfer

\* A stage less is worth more than a step less.
LEMMA FewerStages ==
    ASSUME NEW stages \in Nat, NEW size \in Nat, NEW fewer \in Nat, fewer < stages
    PROVE  fewer * size \in Nat /\ stages * size \in Nat /\ fewer * size + size <= stages * size
<1>1. \A a, b, k \in Nat : a <= b => a * k \in Nat /\ b * k \in Nat /\ a * k <= b * k
  BY SMT
<1>2. (fewer + 1) * size = fewer * size + size
  BY SMT
<1>3. fewer + 1 \in Nat /\ fewer + 1 <= stages
  OBVIOUS
<1>4. (fewer + 1) * size <= stages * size /\ stages * size \in Nat /\ fewer * size \in Nat
  BY <1>1, <1>3
<1> QED BY <1>2, <1>4

LEMMA StepsBound ==
    ASSUME ControlInv, NewerInv, RetryInv, InRequest
    PROVE  StepsLeft \in 1..(MostStages * StageSteps + 4 * SetupTries + 1)
  <1>1. /\ MostStages \in Nat /\ StageSteps \in Nat /\ SetupTries \in Nat \ {0}
        /\ StagesLeft \in 0..MostStages
        /\ pc \in {"setup", "setup_look"} => Tries4 \in 1..(4 * SetupTries)
        /\ pc \notin {"begin", "setup", "setup_look"} =>
             Tries4 \in 1..StageSteps /\ StagesLeft + 1 <= MostStages
    BY StagesType
  <1>2. PICK all \in Nat : all = MostStages * StageSteps
    BY <1>1, FewerStages
  <1>3. CASE pc \in {"begin", "setup", "setup_look"}
    <2>1. StagesLeft * StageSteps = all
      BY <1>2, <1>3 DEF StagesLeft
    <2>2. StepsLeft = all + IF pc = "begin" THEN 4 * SetupTries + 1 ELSE Tries4
      BY <2>1 DEF StepsLeft
    <2>3. /\ all \in Nat /\ SetupTries \in Nat \ {0}
          /\ pc # "begin" => Tries4 \in 1..(4 * SetupTries)
      BY <1>1, <1>2, <1>3
    <2>4. StepsLeft \in 1..(all + 4 * SetupTries + 1)
      <3>1. CASE pc = "begin"
        BY <2>2, <2>3, <3>1
      <3>2. CASE pc # "begin"
        BY <2>2, <2>3, <3>2
      <3> QED BY <3>1, <3>2
    <2> QED BY <1>2, <2>4
  <1>4. CASE pc \notin {"begin", "setup", "setup_look"}
    <2>1. PICK some \in Nat : some = StagesLeft * StageSteps /\ some + StageSteps <= all
      BY <1>1, <1>2, <1>4, FewerStages
    <2>2. StepsLeft = some + Tries4
      BY <1>4, <2>1 DEF StepsLeft
    <2>3. StepsLeft \in 1..(all + 4 * SetupTries + 1)
      BY <1>1, <1>2, <1>4, <2>1, <2>2
    <2> QED BY <1>2, <2>3
  <1> QED BY <1>3, <1>4

LEMMA RequestNearer ==
    ASSUME ControlInv, NewerInv, RetryInv, [Next]_vars, InRequest
    PROVE  \/ step' # step
           \/ StepsLeft' < StepsLeft
           \/ Unplug /\ StepsLeft' = StepsLeft
           \/ UNCHANGED vars
  <1>1. CASE Transfer /\ step' = step
    <2>1. pc' # "begin" /\ \/ /\ StagesLeft' = StagesLeft
                              /\ IF pc = "begin" THEN Tries4' = 4 * SetupTries
                                                 ELSE Tries4' \in Nat /\ Tries4' < Tries4
                           \/ /\ StagesLeft' \in Nat /\ StagesLeft' < StagesLeft
                              /\ pc # "begin" /\ Tries4' = StageSteps
      BY <1>1, TransferNearer
    <2>2. /\ MostStages \in Nat /\ StageSteps \in Nat /\ SetupTries \in Nat \ {0}
          /\ StagesLeft \in Nat
          /\ pc # "begin" => Tries4 \in Nat \ {0}
      BY StagesType
    <2>3. StepsLeft' = StagesLeft' * StageSteps + Tries4'
      BY <2>1 DEF StepsLeft, StageSteps
    <2>4. PICK some \in Nat : some = StagesLeft * StageSteps
      BY <2>2, FewerStages
    <2>5. StepsLeft = some + IF pc = "begin" THEN 4 * SetupTries + 1 ELSE Tries4
      BY <2>4 DEF StepsLeft
    <2>6. CASE StagesLeft' = StagesLeft
      <3>1. StepsLeft' = some + Tries4'
        BY <2>3, <2>4, <2>6
      <3>2. CASE pc = "begin"
        BY <2>1, <2>2, <2>4, <2>5, <2>6, <3>1, <3>2
      <3>3. CASE pc # "begin"
        BY <2>1, <2>2, <2>4, <2>5, <2>6, <3>1, <3>3
      <3> QED BY <3>2, <3>3
    <2>7. CASE StagesLeft' \in Nat /\ StagesLeft' < StagesLeft
      <3>1. PICK fewer \in Nat : fewer = StagesLeft' * StageSteps /\ fewer + StageSteps <= some
        BY <2>2, <2>4, <2>7, FewerStages
      <3>2. StepsLeft' = fewer + StageSteps /\ pc # "begin"
        BY <2>1, <2>2, <2>3, <2>7, <3>1
      <3> QED BY <2>2, <2>4, <2>5, <3>1, <3>2
    <2> QED BY <2>1, <2>6, <2>7
  <1>2. CASE Unplug
    <2>1. UNCHANGED host
      BY <1>2 DEF Unplug
    <2>2. StepsLeft' = StepsLeft
      BY <2>1 DEF host, StepsLeft, StagesLeft, Tries4, Latest, MostStages, StageSteps
    <2> QED BY <1>2, <2>2
  <1>3. ~StartInit /\ ~NoDevice /\ ~PollsFail /\ ~SetLed /\ ~BusReset /\ ~Scan
    BY DEF InRequest, Requests, Reads, Sets, StartInit, NoDevice, PollsFail, GiveUp, SetLed,
       BusReset, Scan
  <1> QED BY <1>1, <1>2, <1>3 DEF Next, Host

(* Every request ends, in success or failure, after a number of steps that   *)
(* the retries of its stages, the polls of its status and the packets of the *)
(* descriptor alone determine, whatever the bus loses and the device answers *)
(* (usb10_setup_request, usb10_in_request, usb10_out_request).               *)
THEOREM RequestsEndInTime == Spec => TransfersAreBounded
  <1> DEFINE IInv == ControlInv /\ NewerInv /\ RetryInv
             Nearer == InRequest =>
               /\ StepsLeft \in 1..(MostStages * StageSteps + 4 * SetupTries + 1)
               /\ \/ step' # step
                  \/ StepsLeft' < StepsLeft
                  \/ Unplug /\ StepsLeft' = StepsLeft
  <1>1. Init => IInv
    BY Initially DEF Init, NewerInv, StoredInOrder, DataPcs, RetryInv
  <1>2. IInv /\ [Next]_vars => IInv'
    BY StepKeeps, NextNewer, RetryNext
  <1>3. IInv /\ [Next]_vars => [Nearer]_vars
    BY StepsBound, RequestNearer
  <1> QED BY <1>1, <1>2, <1>3, PTL DEF Spec, TransfersAreBounded
=============================================================================
