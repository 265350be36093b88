----------------------------- MODULE Usb10Poll -----------------------------
(***************************************************************************)
(* usb10_in_request() polling the interrupt endpoint of a low-speed HID    *)
(* device, with the client loop that counts its errors and enumerates the  *)
(* device again, over a bus that loses and damages packets.                *)
(*                                                                         *)
(* The device numbers its reports and offers the oldest one it has no ACK  *)
(* for, with its DATA toggle: packet number 0 is DATA0 (usb10.h:120).      *)
(* usb10_last_data_pid[address][1].recv is the toggle the host saw last.   *)
(* Endpoint 0 has toggles of its own and does not disturb these.  A        *)
(* command swallowed by the controller's keep-alive is a lost packet here. *)
(***************************************************************************)
EXTENDS Naturals

CONSTANTS Retries,       \* `retry` in usb10_in_request
          ErrorLimit,    \* errors that the client tolerates in a row
          FaultKinds,    \* what the bus may do
          MaxFaults,     \* bound on the faults
          MaxReports     \* bound on the reports the device makes

AllFaults == {"lost", "damaged", "odd_pid", "stall", "ack_lost", "ack_hung"}

ASSUME PollAssumption ==
    /\ Retries \in Nat
    /\ ErrorLimit \in Nat
    /\ FaultKinds \subseteq AllFaults
    /\ MaxFaults \in Nat
    /\ MaxReports \in Nat

\* Return codes of usb10_in_request that matter to the client.
ENAK == 8
ETIMEOUT == 9        \* USB10_IN_ETIMEOUT (negated, as all of them here)

VARIABLES made,      \* device: reports made so far
          acked,     \* device: reports it is done with
          toggle,    \* device: DATA toggle of report acked + 1
          recv,      \* usb10_last_data_pid[address][endpoint].recv
          address,   \* usb10_device_address: 0 none, 1 the device
          errors,    \* reg_usb_error_count
          pc,        \* where the poll is
          retry,     \* attempts left
          rx,        \* what the receiver holds: [kind, pid, report]
          ret,       \* what the poll returned, negated; 0 for data
          last,      \* history: the newest report handed to the client
          handed,    \* history: how many reports were handed over
          excused,   \* history: reports that may go missing, and why is known
          faults     \* faults so far

device == <<made, acked, toggle>>
vars == <<made, acked, toggle, recv, address, errors, pc, retry, rx, ret, last, handed, excused, faults>>

Kinds == {"none", "data", "nak", "stall", "damaged", "odd_pid"}
Nothing == [kind |-> "none", pid |-> 0, report |-> 0]

TypeOK ==
    /\ made \in 0..MaxReports /\ acked \in 0..made
    /\ toggle \in {0, 1} /\ recv \in {0, 1}
    /\ address \in {0, 1}
    /\ errors \in 0..(ErrorLimit + 1)
    /\ pc \in {"idle", "in", "look", "ack", "judge", "done"}
    /\ retry \in 0..Retries
    /\ rx \in [kind: Kinds, pid: {0, 1}, report: Nat]
    /\ ret \in {0, 6, 7, 8, 9, 10, 12}
    /\ last \in 0..made /\ handed \in 0..last
    /\ excused \in SUBSET (1..(MaxReports + 1))
    /\ faults \in 0..MaxFaults

Init ==
    /\ made = 0 /\ acked = 0 /\ toggle = 0
    /\ recv = 0 /\ address = 0 /\ errors = 0
    /\ pc = "idle" /\ retry = 0 /\ rx = Nothing /\ ret = 0
    /\ last = 0 /\ handed = 0 /\ excused = {} /\ faults = 0

Fault(kind) ==
    /\ kind \in FaultKinds
    /\ faults < MaxFaults
    /\ faults' = faults + 1

-----------------------------------------------------------------------------
(* The device. *)

MakeReport ==
    /\ address # 0
    /\ made < MaxReports
    /\ made' = made + 1
    /\ UNCHANGED <<acked, toggle, recv, address, errors, pc, retry, rx, ret, last, handed, excused, faults>>

\* An ACK reaches the device: the report is done, the next has the other toggle.
Acknowledged ==
    /\ acked' = acked + 1
    /\ toggle' = 1 - toggle

\* The device is rid of reports the host has not seen, and what is then the
\* first has the toggle the host takes for a duplicate.
AtRisk == excused' = excused \cup ((acked + 1)..(acked' + 1))

-----------------------------------------------------------------------------
(* The client.  An enumeration resets the device and, in usb10_bus_reset,  *)
(* the host's toggles.  The device may forget the reports it still has.    *)

\* Faulty variant: usb10_bus_reset forgets the toggles.
HostTogglesKept == UNCHANGED recv

HostToggles == recv' = 0

ErrorsCleared == errors' = 0

Enumerate ==
    /\ pc = "idle" /\ address = 0
    /\ acked' \in {acked, made}
    /\ toggle' = 0
    /\ HostToggles
    /\ address' = 1
    /\ ErrorsCleared
    /\ AtRisk
    /\ UNCHANGED <<made, pc, retry, rx, ret, last, handed, faults>>

\* usb10_init fails on its way; the next attempt resets everything again.
EnumerateFails ==
    /\ pc = "idle" /\ address = 0
    /\ Fault("lost")
    /\ UNCHANGED <<device, recv, address, errors, pc, retry, rx, ret, last, handed, excused>>

StartPoll ==
    /\ pc = "idle" /\ address # 0
    /\ pc' = "in"
    /\ retry' = Retries
    /\ rx' = Nothing
    /\ UNCHANGED <<device, recv, address, errors, ret, last, handed, excused, faults>>

CountError ==
    IF ret = 0 THEN errors' = 0 /\ UNCHANGED address
    ELSE IF ret \in {ENAK, ETIMEOUT} THEN UNCHANGED <<errors, address>>
    ELSE errors' = errors + 1 /\ address' = IF errors < ErrorLimit THEN address ELSE 0

PollReturns ==
    /\ pc = "done"
    /\ CountError
    /\ pc' = "idle"
    /\ UNCHANGED <<device, recv, retry, rx, ret, last, handed, excused, faults>>

-----------------------------------------------------------------------------
(* usb10_in_request(). *)

\* `if(retry--) goto again_data; ret = -code; goto fail;`
AgainOr(code) ==
    IF retry > 0
      THEN pc' = "in" /\ retry' = retry - 1 /\ UNCHANGED ret
      ELSE pc' = "done" /\ ret' = code /\ UNCHANGED retry

Return(code) == pc' = "done" /\ ret' = code /\ UNCHANGED retry

\* The IN token goes out; what the receiver holds when the wait is over.
Offered == [kind |-> "data", pid |-> toggle, report |-> acked + 1]

SendIn ==
    /\ pc = "in"
    /\ pc' = "look"
    /\ \/ /\ rx' = IF acked < made THEN Offered ELSE [Nothing EXCEPT !.kind = "nak"]
          /\ UNCHANGED faults
       \/ rx' = Nothing /\ Fault("lost")
       \/ rx' = [Nothing EXCEPT !.kind = "damaged"] /\ Fault("damaged")
       \/ rx' = [Nothing EXCEPT !.kind = "stall"] /\ Fault("stall")
       \/ rx' = [Offered EXCEPT !.kind = "odd_pid"] /\ acked < made /\ Fault("odd_pid")
    /\ UNCHANGED <<device, recv, address, errors, retry, ret, last, handed, excused>>

\* Faulty variant: a packet with a bad CRC is acknowledged and asked for again.
AfterDamageAck == pc' = "ack" /\ UNCHANGED <<retry, ret>>

AfterDamage == AgainOr(10)

Look ==
    /\ pc = "look"
    /\ \/ rx.kind = "none" /\ AgainOr(6)
       \/ rx.kind = "nak" /\ Return(ENAK)
       \/ rx.kind = "stall" /\ Return(12)
       \/ rx.kind = "damaged" /\ AfterDamage
       \/ rx.kind \in {"data", "odd_pid"} /\ pc' = "ack" /\ UNCHANGED <<retry, ret>>
    /\ UNCHANGED <<device, recv, address, errors, rx, last, handed, excused, faults>>

\* The same toggle as in the packet before.
Dupe == rx.kind = "data" /\ rx.pid = recv

\* Faulty variant: a duplicate is dropped without an ACK.
SendAckFreshOnly ==
    /\ pc = "ack"
    /\ pc' = "judge"
    /\ \/ ~Dupe /\ Acknowledged /\ UNCHANGED faults
       \/ Dupe /\ UNCHANGED <<acked, toggle, faults>>
       \/ Fault("ack_lost") /\ UNCHANGED <<acked, toggle>>
    /\ UNCHANGED <<made, recv, address, errors, retry, rx, ret, last, handed, excused>>

\* ACK is sent for whatever had a good CRC, before its PID is looked at.  If
\* that is damaged, or the ACK command hangs, the report is not kept.
AckArrives ==
    /\ Acknowledged
    /\ IF rx.kind # "odd_pid" /\ pc' = "judge" THEN UNCHANGED excused ELSE AtRisk

SendAck ==
    /\ pc = "ack"
    /\ \/ pc' = "judge" /\ AckArrives /\ UNCHANGED <<retry, ret, faults>>
       \/ /\ pc' = "judge" /\ Fault("ack_lost")
          /\ UNCHANGED <<acked, toggle, excused, retry, ret>>
       \/ /\ Return(7) /\ Fault("ack_hung")
          /\ AckArrives \/ UNCHANGED <<acked, toggle, excused>>
    /\ UNCHANGED <<made, recv, address, errors, rx, last, handed>>

Accept ==
    /\ rx.kind = "data" /\ rx.pid # recv
    /\ recv' = rx.pid
    /\ last' = rx.report
    /\ handed' = handed + 1
    /\ Return(0)

Judge ==
    /\ pc = "judge"
    /\ \/ rx.kind # "data" /\ AgainOr(9) /\ UNCHANGED <<recv, last, handed>>
       \/ Dupe /\ AgainOr(10) /\ UNCHANGED <<recv, last, handed>>
       \/ Accept
    /\ UNCHANGED <<device, address, errors, rx, excused, faults>>

Host == Enumerate \/ EnumerateFails \/ StartPoll \/ PollReturns
        \/ SendIn \/ Look \/ SendAck \/ Judge

Next == MakeReport \/ Host

\* The client polls for ever, and the bus works after its faults are used up.
Spec == Init /\ [][Next]_vars /\ WF_vars(Host)

-----------------------------------------------------------------------------
Channel == INSTANCE ReportChannel

\* However packets and ACKs are lost, damaged or answered late, the client gets
\* no report twice and none after a newer one: polling is a ReportChannel.
ImplementsChannel == Channel!Spec

\* Every report that the device is rid of was handed over once its packet has
\* been judged.  The exceptions are known: an enumeration, and an ACK that was
\* sent for a packet with a damaged PID or by a command that hung, cost the
\* report at hand and the next one, which is then taken for a duplicate.
NoneMissing == pc # "judge" => (last + 1)..acked \subseteq excused

\* Each report is got rid of in the end, whatever was lost on the way: the
\* endpoint's toggles never settle in a disagreement that stops it for good.
NeverStuck == \A n \in 1..MaxReports : made >= n ~> acked >= n
=============================================================================
