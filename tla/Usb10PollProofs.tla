-------------------------- MODULE Usb10PollProofs --------------------------
(***************************************************************************)
(* Proofs about Usb10Poll for every number of retries, tolerated errors,   *)
(* faults and reports.  The argument is about the two toggles: a packet    *)
(* the host holds either is the one the device still offers, and then has  *)
(* the device's toggle, or is the one before, and then has the other.      *)
(* Last, that the steps of a poll are bounded by its retries.              *)
(***************************************************************************)
EXTENDS Usb10Poll, Integers, TLAPS

InHand == rx.kind \in {"data", "odd_pid"}

\* The types, without the bounds that need the argument about toggles.
PlainType ==
    /\ made \in 0..MaxReports /\ acked \in 0..made
    /\ toggle \in {0, 1} /\ recv \in {0, 1}
    /\ address \in {0, 1}
    /\ errors \in 0..(ErrorLimit + 1)
    /\ pc \in {"idle", "in", "look", "ack", "judge", "done"}
    /\ retry \in 0..Retries
    /\ rx \in [kind: Kinds, pid: {0, 1}, report: Nat]
    /\ ret \in {0, 6, 7, 8, 9, 10, 12}
    /\ last \in Nat /\ handed \in Nat
    /\ excused \in SUBSET (1..(MaxReports + 1))
    /\ faults \in 0..MaxFaults

\* While the device is in use the count has not gone over the limit.
CountInv == address # 0 \/ pc # "idle" => errors <= ErrorLimit

\* What was handed over is at most the report on offer, and if it is that one
\* the toggles show it.
HistoryInv ==
    /\ last <= acked + 1
    /\ last <= made
    /\ handed <= last
    /\ last = acked + 1 => toggle = recv

\* The packet in hand before its ACK is sent.
OfferInv ==
    /\ pc = "ack" => InHand
    /\ pc \in {"look", "ack"} /\ InHand =>
         rx.report = acked + 1 /\ rx.pid = toggle /\ acked < made

\* The packet in hand after its ACK: the device got it, or it did not.
JudgeInv ==
    pc = "judge" =>
      /\ InHand
      /\ rx.report <= made
      /\ \/ rx.report = acked + 1 /\ rx.pid = toggle
         \/ rx.report = acked /\ rx.pid = 1 - toggle
      /\ last <= rx.report
      /\ last = rx.report => recv = rx.pid

PollInv == PlainType /\ CountInv /\ HistoryInv /\ OfferInv /\ JudgeInv

-----------------------------------------------------------------------------
LEMMA RetryType ==
    ASSUME retry \in 0..Retries, ret \in {0, 6, 7, 8, 9, 10, 12},
           NEW code \in {6, 7, 9, 10, 12}, AgainOr(code)
    PROVE  /\ retry' \in 0..Retries
           /\ ret' \in {0, 6, 7, 8, 9, 10, 12}
           /\ pc' \in {"in", "done"}
  BY PollAssumption DEF AgainOr

LEMMA PollInit == Init => PollInv
  BY PollAssumption DEF Init, PollInv, PlainType, CountInv, HistoryInv, OfferInv,
     JudgeInv, Nothing, Kinds, InHand

LEMMA FaultType ==
    ASSUME faults \in 0..MaxFaults, NEW kind, Fault(kind)
    PROVE  faults' \in 0..MaxFaults
  BY PollAssumption DEF Fault

LEMMA MakeKeeps == PollInv /\ MakeReport => PollInv'
  BY PollAssumption DEF PollInv, PlainType, CountInv, HistoryInv, OfferInv, JudgeInv,
     MakeReport, InHand

\* The reports from one count to another, as a set.
LEMMA Stretch ==
    ASSUME NEW top \in Nat, NEW from \in 0..top, NEW upto \in from..top
    PROVE  /\ (from + 1)..(upto + 1) \subseteq 1..(top + 1)
           /\ upto + 1 \in (from + 1)..(upto + 1)
  OBVIOUS

LEMMA EnumerateKeeps == PollInv /\ Enumerate => PollInv'
  <1> SUFFICES ASSUME PollInv, Enumerate PROVE PollInv'
    OBVIOUS
  <1> USE PollAssumption DEF PollInv
  <1>1. /\ acked' \in Nat /\ acked <= acked' /\ acked' <= made
        /\ made' = made
    BY DEF PlainType, Enumerate
  <1>2. acked \in 0..MaxReports /\ acked' \in acked..MaxReports
    BY <1>1 DEF PlainType
  <1>3. (acked + 1)..(acked' + 1) \subseteq 1..(MaxReports + 1)
    BY <1>2, Stretch
  <1>4. excused' \in SUBSET (1..(MaxReports + 1))
    BY <1>3 DEF PlainType, Enumerate, AtRisk
  <1>5. /\ toggle' = 0 /\ recv' = 0 /\ errors' = 0 /\ address' = 1
        /\ pc = "idle"
        /\ UNCHANGED <<made, pc, retry, rx, ret, last, handed, faults>>
    BY DEF Enumerate, HostToggles, ErrorsCleared
  <1>6. PlainType'
    BY <1>1, <1>4, <1>5 DEF PlainType
  <1>7. HistoryInv'
    <2>1. last <= acked' + 1
      <3>1. CASE acked' = acked
        BY <3>1 DEF PlainType, HistoryInv
      <3>2. CASE acked' = made
        BY <3>2 DEF PlainType, HistoryInv
      <3> QED BY <3>1, <3>2 DEF Enumerate
    <2> QED BY <1>5, <2>1 DEF PlainType, HistoryInv
  <1> QED BY <1>5, <1>6, <1>7 DEF CountInv, OfferInv, JudgeInv

LEMMA ClientKeeps == PollInv /\ (EnumerateFails \/ StartPoll \/ PollReturns) => PollInv'
  <1> SUFFICES ASSUME PollInv, EnumerateFails \/ StartPoll \/ PollReturns PROVE PollInv'
    OBVIOUS
  <1> USE PollAssumption DEF PollInv, HistoryInv, OfferInv, JudgeInv
  <1>1. CASE EnumerateFails
    BY <1>1 DEF EnumerateFails, Fault, PlainType, CountInv, device, InHand
  <1>2. CASE StartPoll
    BY <1>2 DEF StartPoll, PlainType, CountInv, device, Nothing, Kinds, InHand
  <1>3. CASE PollReturns
    <2>1. /\ errors' \in 0..(ErrorLimit + 1)
          /\ address' \in {0, 1}
          /\ address' # 0 => errors' <= ErrorLimit
      BY <1>3 DEF PollReturns, CountError, PlainType, CountInv, ENAK, ETIMEOUT
    <2> QED BY <1>3, <2>1 DEF PollReturns, PlainType, CountInv, device, InHand
  <1> QED BY <1>1, <1>2, <1>3

LEMMA SendInKeeps == PollInv /\ SendIn => PollInv'
  <1> SUFFICES ASSUME PollInv, SendIn PROVE PollInv'
    OBVIOUS
  <1> USE PollAssumption DEF PollInv
  <1>1. faults' \in 0..MaxFaults
    BY FaultType DEF SendIn, PlainType
  <1>2. /\ rx' \in [kind: Kinds, pid: {0, 1}, report: Nat]
        /\ InHand' => rx'.report = acked + 1 /\ rx'.pid = toggle /\ acked < made
    BY DEF SendIn, Nothing, Offered, Kinds, PlainType, InHand
  <1> QED BY <1>1, <1>2 DEF SendIn, PlainType, CountInv, HistoryInv, OfferInv,
            JudgeInv, device

LEMMA LookKeeps == PollInv /\ Look => PollInv'
  <1> SUFFICES ASSUME PollInv, Look PROVE PollInv'
    OBVIOUS
  <1> USE PollAssumption DEF PollInv
  <1>1. /\ retry' \in 0..Retries
        /\ ret' \in {0, 6, 7, 8, 9, 10, 12}
        /\ pc' \in {"in", "done", "ack"}
        /\ pc' = "ack" => InHand
    BY RetryType DEF Look, PlainType, AfterDamage, Return, ENAK, InHand
  <1> QED BY <1>1 DEF Look, PlainType, CountInv, HistoryInv, OfferInv, JudgeInv,
            device, InHand

\* What an ACK puts at risk are reports that can be made.
LEMMA AckRisk ==
    ASSUME PollInv, acked < made, acked' = acked + 1,
           AtRisk \/ UNCHANGED excused
    PROVE  /\ excused' \in SUBSET (1..(MaxReports + 1))
           /\ AtRisk => acked + 1 \in excused' /\ acked + 2 \in excused'
           /\ excused \subseteq excused'
  <1> DEFINE upto == acked + 1
  <1>1. acked \in 0..MaxReports /\ upto \in acked..MaxReports /\ upto + 1 = acked + 2
    BY PollAssumption DEF PollInv, PlainType
  <1> HIDE DEF upto
  <1>2. (acked + 1)..(upto + 1) \subseteq 1..(MaxReports + 1)
    BY <1>1, PollAssumption, Stretch
  <1>3. acked + 1 \in (acked + 1)..(upto + 1) /\ upto + 1 \in (acked + 1)..(upto + 1)
    BY <1>1, PollAssumption DEF upto
  <1>4. AtRisk <=> excused' = excused \cup ((acked + 1)..(upto + 1))
    BY DEF AtRisk, upto
  <1> QED BY <1>1, <1>2, <1>3, <1>4 DEF PollInv, PlainType

LEMMA SendAckKeeps == PollInv /\ SendAck => PollInv'
  <1> SUFFICES ASSUME PollInv, SendAck PROVE PollInv'
    OBVIOUS
  <1> USE PollAssumption
  <1>1. /\ InHand
        /\ rx.report = acked + 1 /\ rx.pid = toggle /\ acked < made
    BY DEF PollInv, SendAck, OfferInv
  <1>2. faults' \in 0..MaxFaults
    BY FaultType DEF PollInv, PlainType, SendAck
  <1>3. \/ acked' = acked + 1 /\ toggle' = 1 - toggle
        \/ acked' = acked /\ toggle' = toggle
    BY DEF SendAck, AckArrives, Acknowledged
  <1>4. excused' \in SUBSET (1..(MaxReports + 1))
    <2>1. CASE AckArrives
      BY <1>1, <2>1, AckRisk DEF AckArrives, Acknowledged
    <2> QED BY <2>1 DEF PollInv, PlainType, SendAck
  <1>5. PlainType'
    BY <1>1, <1>2, <1>3, <1>4 DEF PollInv, PlainType, SendAck, Return
  <1>6. HistoryInv'
    BY <1>1, <1>3 DEF PollInv, PlainType, SendAck, HistoryInv
  <1>7. JudgeInv'
    BY <1>1, <1>3 DEF PollInv, PlainType, SendAck, JudgeInv, HistoryInv, InHand
  <1>8. CountInv' /\ OfferInv'
    BY DEF PollInv, SendAck, CountInv, OfferInv, Return
  <1> QED BY <1>5, <1>6, <1>7, <1>8 DEF PollInv

LEMMA JudgeKeeps == PollInv /\ Judge => PollInv'
  <1> SUFFICES ASSUME PollInv, Judge PROVE PollInv'
    OBVIOUS
  <1> USE PollAssumption DEF PollInv, Judge, PlainType
  <1>1. CASE UNCHANGED <<recv, last, handed>> /\ (AgainOr(9) \/ AgainOr(10))
    BY <1>1, RetryType DEF CountInv, HistoryInv, OfferInv, JudgeInv, device
  <1>2. CASE Accept
    <2>1. last < rx.report /\ last' = rx.report
      BY <1>2 DEF Accept, JudgeInv
    <2> QED BY <1>2, <2>1 DEF Accept, Return, CountInv, HistoryInv, OfferInv,
              JudgeInv, device
  <1> QED BY <1>1, <1>2

LEMMA PollStep == PollInv /\ [Next]_vars => PollInv'
  <1>1. PollInv /\ UNCHANGED vars => PollInv'
    BY DEF PollInv, PlainType, CountInv, HistoryInv, OfferInv, JudgeInv, vars, InHand
  <1> QED BY <1>1, MakeKeeps, EnumerateKeeps, ClientKeeps, SendInKeeps, LookKeeps,
            SendAckKeeps, JudgeKeeps DEF Next, Host

LEMMA PollAlways == Spec => []PollInv
  BY PollInit, PollStep, PTL DEF Spec

\* The types of the poll, whatever the bus does: the error count stops at the
\* limit, nothing is handed over that was not made, and no more than once.
THEOREM TypeCorrect == Spec => []TypeOK
  <1>1. PollInv => TypeOK
    BY DEF PollInv, PlainType, HistoryInv, TypeOK
  <1> QED BY <1>1, PollAlways, PTL

-----------------------------------------------------------------------------
\* One step of the poll hands over a newer report, or is none of the channel's
\* business.
LEMMA StepIsChannelStep ==
    PollInv /\ [Next]_vars => [Channel!Next]_<<made, last, handed>>
  <1> SUFFICES ASSUME PollInv, [Next]_vars
               PROVE  [Channel!Next]_<<made, last, handed>>
    OBVIOUS
  <1> USE DEF PollInv, PlainType
  <1>1. CASE MakeReport
    <2>1. Channel!Make
      BY <1>1 DEF MakeReport, Channel!Make
    <2> QED BY <2>1 DEF Channel!Next
  <1>2. CASE Judge
    <2>1. CASE Accept
      <3>1. Channel!Hand
        BY <1>2, <2>1 DEF Judge, Accept, Channel!Hand, JudgeInv, device
      <3> QED BY <3>1 DEF Channel!Next
    <2>2. CASE UNCHANGED <<recv, last, handed>>
      BY <1>2, <2>2 DEF Judge, device
    <2> QED BY <1>2, <2>1, <2>2 DEF Judge
  <1>3. CASE Enumerate \/ EnumerateFails \/ StartPoll \/ PollReturns
    BY <1>3 DEF Enumerate, EnumerateFails, StartPoll, PollReturns, device
  <1>4. CASE SendIn \/ Look \/ SendAck
    BY <1>4 DEF SendIn, Look, SendAck, device
  <1>5. CASE UNCHANGED vars
    BY <1>5 DEF vars
  <1> QED BY <1>1, <1>2, <1>3, <1>4, <1>5 DEF Next, Host

\* usb10_in_request hands the client the device's reports in order and none
\* twice, however packets and ACKs are lost, damaged or answered late and
\* however often the device is enumerated again.
THEOREM PollingIsAChannel == Spec => ImplementsChannel
  <1>1. Init => Channel!Init
    BY DEF Init, Channel!Init
  <1> QED BY <1>1, StepIsChannelStep, PollAlways, PTL DEF Spec, ImplementsChannel, Channel!Spec

-----------------------------------------------------------------------------
\* Nothing is missing before the packet in hand; a packet that would be taken
\* for a duplicate that it is not is excused, and so is one that was
\* acknowledged with a damaged PID.
LossInv ==
    /\ pc # "judge" =>
         /\ (last + 1)..acked \subseteq excused
         /\ (address # 0 \/ pc # "idle") /\ last <= acked /\ toggle = recv
              => acked + 1 \in excused
    /\ pc = "judge" =>
         /\ (last + 1)..(rx.report - 1) \subseteq excused
         /\ last < rx.report /\ rx.pid = recv => rx.report \in excused
         /\ rx.kind = "odd_pid" /\ rx.report = acked
              => acked \in excused /\ acked + 1 \in excused

LEMMA LossInit == Init => LossInv
  BY DEF Init, LossInv, Nothing

LEMMA Between ==
    ASSUME NEW from \in Nat, NEW upto \in Nat, NEW k \in Int, ~(k <= from), k <= upto
    PROVE  k \in (from + 1)..(upto + 1)
  OBVIOUS

LEMMA Covered ==
    ASSUME NEW from \in Nat, NEW upto \in Nat, NEW S,
           \A k \in Int : from < k /\ k <= upto => k \in S
    PROVE  (from + 1)..upto \subseteq S
  OBVIOUS

LEMMA EnumerateLoses == PollInv /\ LossInv /\ Enumerate => LossInv'
  <1> SUFFICES ASSUME PollInv, LossInv, Enumerate PROVE LossInv'
    OBVIOUS
  <1> USE PollAssumption DEF PollInv, PlainType
  <1>1. /\ acked \in 0..MaxReports /\ acked' \in acked..MaxReports
        /\ acked \in Nat /\ acked' \in Nat
    BY DEF Enumerate
  <1>2. acked' + 1 \in excused'
    BY <1>1, Stretch DEF Enumerate, AtRisk
  <1>3. ASSUME NEW k \in Int, last < k, k <= acked' PROVE k \in excused'
    <2>1. excused' = excused \cup ((acked + 1)..(acked' + 1)) /\ pc = "idle"
      BY DEF Enumerate, AtRisk
    <2>2. CASE k <= acked
      <3>1. k \in (last + 1)..acked
        BY <1>1, <1>3, <2>2
      <3> QED BY <2>1, <3>1 DEF LossInv
    <2>3. CASE ~(k <= acked)
      <3>1. k \in (acked + 1)..(acked' + 1)
        BY <1>1, <1>3, <2>3, Between
      <3> QED BY <2>1, <3>1
    <2> QED BY <2>2, <2>3
  <1>4. (last + 1)..acked' \subseteq excused'
    BY <1>1, <1>3, Covered
  <1> QED BY <1>2, <1>4 DEF LossInv, Enumerate

LEMMA AckLoses == PollInv /\ LossInv /\ SendAck => LossInv'
  <1> SUFFICES ASSUME PollInv, LossInv, SendAck PROVE LossInv'
    OBVIOUS
  <1> USE PollAssumption
  <1>1. /\ rx.report = acked + 1 /\ rx.pid = toggle /\ acked < made
        /\ acked \in Nat /\ last \in Nat /\ toggle \in {0, 1}
    BY DEF PollInv, PlainType, SendAck, OfferInv
  <1>2. /\ (last + 1)..acked \subseteq excused
        /\ last <= acked /\ toggle = recv => acked + 1 \in excused
    BY DEF LossInv, SendAck
  <1>3. pc' \in {"judge", "done"} /\ UNCHANGED <<rx, last, recv>>
    BY DEF SendAck, Return
  <1>4. CASE AckArrives
    <2>1. acked' = acked + 1 /\ excused \subseteq excused'
      BY <1>1, <1>4, AckRisk DEF AckArrives, Acknowledged
    <2>2. CASE rx.kind # "odd_pid" /\ pc' = "judge"
      BY <1>1, <1>2, <1>3, <2>1, <2>2 DEF LossInv
    <2>3. CASE ~(rx.kind # "odd_pid" /\ pc' = "judge")
      <3>1. acked + 1 \in excused' /\ acked + 2 \in excused'
        BY <1>1, <1>4, <2>1, <2>3, AckRisk DEF AckArrives
      <3>2. \A k \in (last + 1)..(acked + 1) : k \in excused'
        BY <1>1, <1>2, <2>1, <3>1
      <3> QED BY <1>1, <1>2, <1>3, <2>1, <3>1, <3>2 DEF LossInv
    <2> QED BY <2>2, <2>3
  <1>5. CASE UNCHANGED <<acked, toggle, excused>>
    BY <1>1, <1>2, <1>3, <1>5 DEF LossInv
  <1> QED BY <1>4, <1>5 DEF SendAck

LEMMA JudgeLoses == PollInv /\ LossInv /\ Judge => LossInv'
  <1> SUFFICES ASSUME PollInv, LossInv, Judge PROVE LossInv'
    OBVIOUS
  <1> USE DEF PollInv, PlainType, Judge, device
  <1>1. pc' # "judge"
    BY DEF AgainOr, Accept, Return
  <1>2. CASE Accept
    <2>1. (last' + 1)..acked = {}
      BY <1>2 DEF Accept, JudgeInv
    <2>2. last' <= acked => toggle # recv'
      BY <1>2 DEF Accept, JudgeInv
    <2> QED BY <1>1, <2>1, <2>2 DEF LossInv
  <1>3. CASE (rx.kind = "odd_pid" \/ Dupe) /\ UNCHANGED <<recv, last, handed>>
    <2>1. \A k \in (last + 1)..acked : k \in excused
      BY <1>3 DEF LossInv, JudgeInv, Dupe
    <2>2. last <= acked /\ toggle = recv => acked + 1 \in excused
      BY <1>3 DEF LossInv, JudgeInv, Dupe
    <2> QED BY <1>1, <1>3, <2>1, <2>2 DEF LossInv
  <1>4. rx.kind # "data" => rx.kind = "odd_pid"
    BY DEF JudgeInv, InHand
  <1> QED BY <1>2, <1>3, <1>4

LEMMA LossStep == PollInv /\ LossInv /\ [Next]_vars => LossInv'
  <1> SUFFICES ASSUME PollInv, LossInv, [Next]_vars PROVE LossInv'
    OBVIOUS
  <1>1. CASE MakeReport \/ EnumerateFails \/ PollReturns
    BY <1>1 DEF MakeReport, EnumerateFails, PollReturns, CountError, device, LossInv
  <1>2. CASE StartPoll
    BY <1>2 DEF StartPoll, device, LossInv
  <1>3. CASE SendIn
    BY <1>3 DEF SendIn, device, LossInv
  <1>4. CASE Look
    BY <1>4 DEF Look, AgainOr, Return, AfterDamage, device, LossInv
  <1>5. CASE UNCHANGED vars
    BY <1>5 DEF vars, LossInv
  <1> QED BY <1>1, <1>2, <1>3, <1>4, <1>5, EnumerateLoses, AckLoses, JudgeLoses DEF Next, Host

\* Every report the device is rid of was handed over, save those that an
\* enumeration, an acknowledged packet with a damaged PID or a hung ACK command
\* puts at risk: losses, CRC errors, lost ACKs, stalls and retries cost nothing.
THEOREM NothingIsMissing == Spec => []NoneMissing
  <1>1. LossInv => NoneMissing
    BY DEF LossInv, NoneMissing
  <1> QED BY <1>1, LossStep, LossInit, PollAlways, PTL DEF Spec

-----------------------------------------------------------------------------
(* A poll ends whatever the bus does: each of its steps takes one of a      *)
(* number of steps that the retries alone determine.                        *)

StepsLeft ==
    4 * retry + CASE pc = "in"    -> 5
                  [] pc = "look"  -> 4
                  [] pc = "ack"   -> 3
                  [] pc = "judge" -> 2
                  [] OTHER        -> 1

Polling == pc # "idle"

PollsAreBounded ==
    [][Polling =>
         /\ StepsLeft \in 1..(4 * Retries + 5)
         /\ \/ ~Polling'
            \/ StepsLeft' < StepsLeft
            \/ MakeReport /\ StepsLeft' = StepsLeft]_vars

LEMMA PollNearer ==
    ASSUME PollInv, Next, Polling
    PROVE  /\ StepsLeft \in 1..(4 * Retries + 5)
           /\ \/ ~Polling'
              \/ StepsLeft' < StepsLeft
              \/ MakeReport /\ StepsLeft' = StepsLeft
  <1>1. retry \in Nat /\ retry <= Retries /\ Retries \in Nat
    BY PollAssumption DEF PollInv, PlainType
  <1>2. StepsLeft \in 1..(4 * Retries + 5)
    BY <1>1 DEF StepsLeft
  <1>3. CASE MakeReport
    BY <1>2, <1>3 DEF MakeReport, StepsLeft
  <1>4. ASSUME pc \in {"look", "judge"}, NEW code, AgainOr(code) \/ Return(code)
        PROVE  StepsLeft' < StepsLeft
    BY <1>1, <1>4 DEF AgainOr, Return, StepsLeft
  <1>5. CASE SendIn
    BY <1>1, <1>2, <1>5 DEF SendIn, StepsLeft
  <1>6. CASE Look
    <2>1. CASE pc' = "ack" /\ UNCHANGED retry
      BY <1>1, <1>2, <1>6, <2>1 DEF Look, StepsLeft
    <2> QED BY <1>2, <1>4, <1>6, <2>1 DEF Look, AfterDamage
  <1>7. CASE SendAck
    <2>1. pc = "ack" /\ pc' \in {"judge", "done"} /\ retry' = retry
      BY <1>7 DEF SendAck, Return
    <2> QED BY <1>1, <1>2, <2>1 DEF StepsLeft
  <1>8. CASE Judge
    BY <1>2, <1>4, <1>8 DEF Judge, Accept
  <1>9. CASE PollReturns
    BY <1>2, <1>9 DEF PollReturns, Polling
  <1>10. ~Enumerate /\ ~EnumerateFails /\ ~StartPoll
    BY DEF Polling, Enumerate, EnumerateFails, StartPoll
  <1> QED BY <1>3, <1>5, <1>6, <1>7, <1>8, <1>9, <1>10 DEF Next, Host

(* usb10_in_request() returns after four steps at most for each of its       *)
(* attempts, whatever the bus loses, damages or answers.                     *)
THEOREM PollsEndInTime == Spec => PollsAreBounded
  <1>1. PollInv /\ [Next]_vars =>
          [Polling =>
             /\ StepsLeft \in 1..(4 * Retries + 5)
             /\ \/ ~Polling'
                \/ StepsLeft' < StepsLeft
                \/ MakeReport /\ StepsLeft' = StepsLeft]_vars
    BY PollNearer
  <1> QED BY <1>1, PollAlways, PTL DEF Spec, PollsAreBounded
=============================================================================
