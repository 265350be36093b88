------------------------------ MODULE AudioDac ------------------------------
(***************************************************************************)
(* The audio driver of audiodac.c: a ring buffer filled by the main        *)
(* program and emptied by the DAC interrupt handler into the command FIFO  *)
(* of the SPI controller (SpiMasterCtrl.scala), with the level-sensitive   *)
(* interrupt line of that FIFO latched by the PLIC (MicroPLIC.scala).      *)
(*                                                                         *)
(* Three actors interleave: the main program (mpc), the handler            *)
(* audiodac0_isr (ipc), which runs on an interrupt ("irq") or is called by *)
(* the main program ("call"), and the FIFO, which drains by itself.        *)
(*                                                                         *)
(* Samples carry numbers instead of amplitudes: the k-th accepted sample   *)
(* is k.  accepted and lastOut are history variables.                      *)
(***************************************************************************)
EXTENDS Integers

CONSTANTS
    Size,          \* audiodac0_tx_ring_buffer_size, in samples
    FifoDepth,     \* samples the command FIFO holds (three commands each)
    Requests,      \* the values of audio_buffer_fill a client passes
    MaxSamples,    \* bound: samples accepted in a behaviour
    Budgeted,      \* the client never submits more than samples_available()
    MayStop        \* the client may call stop_playback, and start again

MinRingSize == 10  \* start_playback ignores a smaller ring

ASSUME AudioAssumption ==
    /\ Size \in Nat /\ Size >= MinRingSize
    /\ FifoDepth \in Nat /\ FifoDepth >= 1
    /\ Requests \subseteq Nat
    /\ MaxSamples \in Nat
    /\ Budgeted \in BOOLEAN
    /\ MayStop \in BOOLEAN

VARIABLES
    ring,          \* slot -> number of the sample stored there, 0 if never written
    size,          \* 0 until start_playback installs a ring
    fill,          \* audiodac0_tx_ring_buffer_fill_ptr
    playback,      \* audiodac0_tx_ring_buffer_playback_ptr
    ints,          \* CMD_INT_ENABLE and CMD_INT_HALF_ENABLE
    used,          \* samples in the command FIFO
    pend,          \* the PENDING bit of the DAC in the PLIC
    mie,           \* mstatus.MIE
    mpc,           \* where the main program is
    req,           \* audio_buffer_fill of the submit in progress
    ipc,           \* where each instance of audiodac0_isr is
    space,         \* its local space_available
    accepted,      \* history: samples accepted so far
    lastOut        \* history: number of the last sample given to the FIFO

ringVars == <<ring, size, fill, playback>>
isrVars  == <<ipc, space>>
vars == <<ring, size, fill, playback, ints, used, pend, mie, mpc, req,
          ipc, space, accepted, lastOut>>

Slots    == 0 .. Size - 1
Contexts == {"irq", "call"}

MinOf(a, b) == IF a < b THEN a ELSE b

\* i % Size, for the pointer values that occur (below twice the size)
Wrap(i) == IF i >= Size THEN i - Size ELSE i

-----------------------------------------------------------------------------
(* The two counters clients plan with.                                     *)

samples_filled ==
    IF fill >= playback THEN fill - playback ELSE size - playback + fill

samples_available == size - samples_filled - 1

(* The interrupt line: a command FIFO that is empty, or more than half     *)
(* free, asserts it for as long as the enables are set.  The pending flags *)
(* of the status register are this line, so writing them clears nothing.   *)

CmdInt == ints /\ used = 0

Line == ints /\ (used = 0 \/ 2 * (FifoDepth - used) > FifoDepth)

\* Faulty variant: the line is edge-sensitive, as in the disabled line of main.c.
PlicLatchEdge(keep) == pend' = (keep \/ (Line' /\ ~Line))

\* The PLIC latches a level-sensitive line in every clock cycle.
PlicLatch(keep) == pend' = (keep \/ Line')

-----------------------------------------------------------------------------
Init ==
    /\ ring = [i \in Slots |-> 0]
    /\ size = 0
    /\ fill = 0
    /\ playback = 0
    /\ ints = FALSE
    /\ used \in {0, MinOf(3, FifoDepth)}   \* set-up commands of audiodac_init
    /\ pend = FALSE
    /\ mie = TRUE
    /\ mpc = "idle"
    /\ req = 0
    /\ ipc = [c \in Contexts |-> "off"]
    /\ space = [c \in Contexts |-> 0]
    /\ accepted = 0
    /\ lastOut = 0

\* The main program moves only while no handler runs on top of it.
MainRuns == ipc = [c \in Contexts |-> "off"]

(* audiodac0_submit_buffer.  Its early returns, tested with interrupts on,  *)
(* change nothing; afterwards it returns what was added to accepted.        *)
SubmitRejected ==
    \/ size = 0
    \/ fill = playback - 1

Submit(n) ==
    /\ mpc = "idle" /\ MainRuns
    /\ n <= MaxSamples - accepted
    /\ Budgeted => n <= samples_available
    /\ ~SubmitRejected
    /\ mpc' = "copy"
    /\ req' = n
    /\ UNCHANGED <<ringVars, ints, used, mie, isrVars, accepted, lastOut>>
    /\ PlicLatch(pend)

\* Samples stored from the fill pointer up to the end of the ring, and then
\* from its start; with the fill pointer behind, up to one slot before playback.
LowPart ==
    IF fill >= playback
      THEN MinOf(req, size - fill)
      ELSE MinOf(req, playback - fill - 1)

\* Faulty variant: the second copy is not limited by the playback pointer.
HighPartUnlimited ==
    IF fill >= playback THEN MinOf(req - LowPart, size - 1) ELSE 0

HighPart ==
    IF fill >= playback THEN MinOf(req - LowPart, playback) ELSE 0

\* Faulty variant: the second copy starts at the beginning of the client's buffer.
StoredFromStart ==
    [i \in Slots |->
        CASE i \in fill .. fill + LowPart - 1 -> accepted + 1 + (i - fill)
          [] i < HighPart -> accepted + 1 + i
          [] OTHER -> ring[i]]

Stored ==
    [i \in Slots |->
        CASE i \in fill .. fill + LowPart - 1 -> accepted + 1 + (i - fill)
          [] i < HighPart -> accepted + 1 + LowPart + i
          [] OTHER -> ring[i]]

SubmitCopy ==
    /\ mpc = "copy" /\ MainRuns
    /\ mie' = FALSE
    /\ ring' = Stored
    /\ fill' = IF HighPart > 0 THEN HighPart ELSE Wrap(fill + LowPart)
    /\ accepted' = accepted + LowPart + HighPart
    /\ req' = 0
    /\ mpc' = "kick"
    /\ UNCHANGED <<size, playback, ints, used, isrVars, lastOut>>
    /\ PlicLatch(pend)

\* The handler's entry: space_available is read once and used afterwards.
EnterIsr(c) ==
    /\ ipc' = [ipc EXCEPT ![c] = "fill"]
    /\ space' = [space EXCEPT ![c] = FifoDepth - used]

\* An empty FIFO is restarted by calling the handler directly.
SubmitKick ==
    /\ mpc = "kick" /\ MainRuns
    /\ IF CmdInt THEN EnterIsr("call") ELSE UNCHANGED isrVars
    /\ mpc' = "unlock"
    /\ UNCHANGED <<ringVars, ints, used, mie, req, accepted, lastOut>>
    /\ PlicLatch(pend)

SubmitUnlock ==
    /\ mpc = "unlock" /\ MainRuns
    /\ mie' = TRUE
    /\ mpc' = "idle"
    /\ UNCHANGED <<ringVars, ints, used, req, isrVars, accepted, lastOut>>
    /\ PlicLatch(pend)

-----------------------------------------------------------------------------
(* audiodac0_start_playback.  The interrupts of the DAC are disabled, those *)
(* of the processor are not: its csr_clear is commented out.                *)

StartPlayback ==
    /\ mpc = "idle" /\ MainRuns
    /\ size # 0 => MayStop
    /\ ints' = FALSE
    /\ mpc' = "start_fill"
    /\ UNCHANGED <<ringVars, used, mie, req, isrVars, accepted, lastOut>>
    /\ PlicLatch(pend)

StartFill ==
    /\ mpc = "start_fill" /\ MainRuns
    /\ fill' = 0
    /\ mpc' = "start_playback"
    /\ UNCHANGED <<ring, size, playback, ints, used, mie, req, isrVars,
                   accepted, lastOut>>
    /\ PlicLatch(pend)

StartPointers ==
    /\ mpc = "start_playback" /\ MainRuns
    /\ playback' = 0
    /\ size' = Size
    /\ mpc' = "start_isr"
    /\ UNCHANGED <<ring, fill, ints, used, mie, req, isrVars, accepted, lastOut>>
    /\ PlicLatch(pend)

StartIsr ==
    /\ mpc = "start_isr" /\ MainRuns
    /\ EnterIsr("call")
    /\ mpc' = "start_ints"
    /\ UNCHANGED <<ringVars, ints, used, mie, req, accepted, lastOut>>
    /\ PlicLatch(pend)

StartInts ==
    /\ mpc = "start_ints" /\ MainRuns
    /\ ints' = TRUE
    /\ mpc' = "idle"
    /\ UNCHANGED <<ringVars, used, mie, req, isrVars, accepted, lastOut>>
    /\ PlicLatch(pend)

\* audiodac0_stop_playback
StopPlayback ==
    /\ mpc = "idle" /\ MainRuns
    /\ MayStop
    /\ ints' = FALSE
    /\ UNCHANGED <<ringVars, used, mie, mpc, req, isrVars, accepted, lastOut>>
    /\ PlicLatch(pend)

-----------------------------------------------------------------------------
(* audiodac0_isr                                                           *)

\* The processor takes the interrupt of a pending PLIC bit.
IrqTaken ==
    /\ pend /\ mie
    /\ ipc["irq"] = "off"
    /\ EnterIsr("irq")
    /\ mie' = FALSE
    /\ UNCHANGED <<ringVars, ints, used, mpc, req, accepted, lastOut>>
    /\ PlicLatch(pend)

LeaveIsr(c) ==
    /\ ipc' = [ipc EXCEPT ![c] = "end"]
    /\ space' = [space EXCEPT ![c] = 0]

\* An instance runs when nothing interrupts it.
IsrRuns(c) == c = "call" => ipc["irq"] = "off"

\* Faulty variant: the availability its caller read earlier is trusted.
XmitUnchecked(n, room) == n

\* audiodac_xmit looks at the room in the FIFO again, whatever its caller knew.
Xmit(n, room) == MinOf(n, room)

Room == FifoDepth - used

\* Samples taken from the playback pointer up to the fill pointer or the end
\* of the ring, and then, if all of those went out, from the start of the ring.
FirstPart(s) ==
    IF fill > playback
      THEN MinOf(s, fill - playback)
      ELSE MinOf(s, size - playback)

SecondPart(s) ==
    IF fill > playback \/ Xmit(FirstPart(s), Room) # FirstPart(s)
      THEN 0
      ELSE MinOf(s - FirstPart(s), fill)

Sent(s) ==
    LET first == Xmit(FirstPart(s), Room)
    IN  first + Xmit(SecondPart(s), Room - first)

IsrFull(c) ==
    /\ ipc[c] = "fill" /\ IsrRuns(c)
    /\ space[c] < 1
    /\ LeaveIsr(c)
    /\ UNCHANGED <<ringVars, ints, used, mie, mpc, req, accepted, lastOut>>
    /\ PlicLatch(pend)

ZeroBurst == 128

\* With no sample to play the DAC gets a burst of the mean value.
IsrUnderrun(c) ==
    /\ ipc[c] = "fill" /\ IsrRuns(c)
    /\ space[c] >= 1
    /\ fill = playback
    /\ used' = used + Xmit(MinOf(space[c], ZeroBurst), Room)
    /\ LeaveIsr(c)
    /\ UNCHANGED <<ringVars, ints, mie, mpc, req, accepted, lastOut>>
    /\ PlicLatch(pend)

IsrPlay(c) ==
    /\ ipc[c] = "fill" /\ IsrRuns(c)
    /\ space[c] >= 1
    /\ fill # playback
    /\ LET sent == Sent(space[c])
       IN  /\ used' = used + sent
           /\ playback' = Wrap(playback + sent)
           /\ lastOut' = IF sent = 0 THEN lastOut ELSE ring[Wrap(playback + sent - 1)]
    /\ LeaveIsr(c)
    /\ UNCHANGED <<ring, size, fill, ints, mie, mpc, req, accepted>>
    /\ PlicLatch(pend)

\* Back in externalInterrupt: the PENDING bit is cleared and mret restores MIE.
IrqReturn ==
    /\ ipc["irq"] = "end"
    /\ ipc' = [ipc EXCEPT !["irq"] = "off"]
    /\ mie' = TRUE
    /\ UNCHANGED <<ringVars, ints, used, mpc, req, space, accepted, lastOut>>
    /\ PlicLatch(FALSE)

CallReturn ==
    /\ ipc["call"] = "end" /\ IsrRuns("call")
    /\ ipc' = [ipc EXCEPT !["call"] = "off"]
    /\ UNCHANGED <<ringVars, ints, used, mie, mpc, req, space, accepted, lastOut>>
    /\ PlicLatch(pend)

Isr ==
    \/ \E c \in Contexts : IsrFull(c) \/ IsrUnderrun(c) \/ IsrPlay(c)
    \/ IrqReturn
    \/ CallReturn

-----------------------------------------------------------------------------
\* The SPI controller has sent the three commands of a sample.
Drain ==
    /\ used > 0
    /\ used' = used - 1
    /\ UNCHANGED <<ringVars, ints, mie, mpc, req, isrVars, accepted, lastOut>>
    /\ PlicLatch(pend)

DriverStep ==
    \/ SubmitCopy \/ SubmitKick \/ SubmitUnlock
    \/ StartFill \/ StartPointers \/ StartIsr \/ StartInts

Next ==
    \/ \E n \in Requests : Submit(n)
    \/ StartPlayback
    \/ StopPlayback
    \/ DriverStep
    \/ IrqTaken
    \/ Isr
    \/ Drain

Spec == Init /\ [][Next]_vars

(* Code that has started runs on, a pending interrupt is taken once         *)
(* interrupts are enabled for good, and the FIFO drains at the sample rate. *)
Fairness ==
    /\ WF_vars(DriverStep)
    /\ WF_vars(Isr)
    /\ SF_vars(IrqTaken)
    /\ WF_vars(Drain)

FairSpec == Spec /\ Fairness

-----------------------------------------------------------------------------
TypeOK ==
    /\ ring \in [Slots -> Nat]
    /\ size \in {0, Size}
    /\ fill \in Slots
    /\ playback \in Slots
    /\ ints \in BOOLEAN
    /\ used \in 0 .. FifoDepth
    /\ pend \in BOOLEAN
    /\ mie \in BOOLEAN
    /\ mpc \in {"idle", "copy", "kick", "unlock", "start_fill",
                "start_playback", "start_isr", "start_ints"}
    /\ req \in Nat
    /\ ipc \in [Contexts -> {"off", "fill", "end"}]
    /\ space \in [Contexts -> 0 .. FifoDepth]
    /\ accepted \in Nat
    /\ lastOut \in Nat

(* The ring is an ordered window of the stream: the slots from playback up  *)
(* to fill hold the latest accepted samples, in order and without a gap,    *)
(* so that no interleaving of submit, restart and the handler makes the DAC *)
(* play a slot that was overwritten, skipped or never written.  Only while  *)
(* start_playback has reset one pointer and not the other is there no such  *)
(* window, and an interrupt that comes then may play old samples.           *)
PendingInOrder ==
    mpc # "start_playback" =>
      /\ \A k \in 0 .. samples_filled - 1 :
            ring[Wrap(playback + k)] = accepted - samples_filled + k + 1
      /\ lastOut <= accepted - samples_filled

(* A client that respects samples_available() loses nothing: every accepted *)
(* sample is either still in the ring or was given to the FIFO.             *)
NoSampleLost == size # 0 => lastOut + samples_filled = accepted

Stream == INSTANCE SampleStream WITH
    Capacity <- Size - 1, accepted <- accepted, played <- lastOut

\* Seen from outside, the driver is a bounded first-in first-out stream.
ImplementsStream == Stream!Spec

(* Every sample a budgeted client had accepted reaches the DAC, even if the *)
(* client never calls again: the interrupt line keeps playback going.       *)
EverySamplePlayed ==
    \A k \in 1 .. MaxSamples : (accepted >= k) ~> (lastOut >= k)

(* Whatever clients ask for, and however often they stop and start again,   *)
(* playback that is enabled and has samples waiting moves on.               *)
DacNeverStalls ==
    \A p \in Slots :
        (ints /\ playback = p /\ fill # p) ~> (playback # p \/ fill = p \/ ~ints)
=============================================================================
