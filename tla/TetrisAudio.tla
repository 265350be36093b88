---------------------------- MODULE TetrisAudio ----------------------------
(***************************************************************************)
(* The audio part of TetRISC-V's main loop (karnix_tetriscv/src/main.c), a  *)
(* client of the driver in AudioDac: in each round it asks how many samples *)
(* the ring can take and submits that many, in chunks.  Interrupts are      *)
(* enabled while samples_filled() reads the two pointers, so the handler    *)
(* may move the playback pointer between the reads.                         *)
(***************************************************************************)
EXTENDS AudioDac

CONSTANTS
    Chunk          \* the largest submit, 128 in the program

ASSUME TetrisAssumption == Chunk \in Nat \ {0}

VARIABLES
    cpc,           \* where the main loop is
    wrapped,       \* the branch samples_filled() took
    left,          \* samples_left_to_send
    toSend,        \* samples_to_send
    before         \* accepted, when the submit in progress was called

clientVars == <<cpc, wrapped, left, toSend, before>>
allVars == <<vars, clientVars>>

TetrisInit ==
    /\ Init
    /\ cpc = "init"
    /\ wrapped = FALSE
    /\ left = 0
    /\ toSend = 0
    /\ before = 0

\* The client's code runs between driver calls, and never under a handler.
ClientRuns == mpc = "idle" /\ MainRuns

\* Hardware initialisation installs the ring, once.
ClientStart ==
    /\ cpc = "init" /\ ClientRuns
    /\ StartPlayback
    /\ cpc' = "other"
    /\ UNCHANGED <<wrapped, left, toSend, before>>

\* samples_available(): the comparison of the two pointers ...
CompareRead ==
    /\ cpc = "other" /\ ClientRuns
    /\ wrapped' = (fill < playback)
    /\ cpc' = "compared"
    /\ UNCHANGED <<vars, left, toSend, before>>

\* ... and the subtraction, which reads both again in the branch taken.
FilledRead == IF wrapped THEN size - playback + fill ELSE fill - playback

\* Faulty variant: the slot that tells full from empty is forgotten.
SubtractReadOffByOne ==
    /\ cpc = "compared" /\ ClientRuns
    /\ left' = size - FilledRead
    /\ cpc' = "loop"
    /\ UNCHANGED <<vars, wrapped, toSend, before>>

SubtractRead ==
    /\ cpc = "compared" /\ ClientRuns
    /\ left' = size - FilledRead - 1
    /\ cpc' = "loop"
    /\ UNCHANGED <<vars, wrapped, toSend, before>>

\* while(samples_left_to_send): a chunk is synthesized and submitted.  A
\* negative count is not zero either, and memcpy would get it as a size: what
\* follows is undefined, and the model stops there.
LoopSubmit ==
    /\ cpc = "loop" /\ ClientRuns
    /\ left > 0
    /\ Submit(MinOf(Chunk, left))
    /\ toSend' = MinOf(Chunk, left)
    /\ before' = accepted
    /\ cpc' = "submitted"
    /\ UNCHANGED <<wrapped, left>>

\* A partial submit ends the round.
LoopNext ==
    /\ cpc = "submitted" /\ ClientRuns
    /\ IF accepted - before = toSend
         THEN left' = left - toSend /\ cpc' = "loop"
         ELSE left' = 0 /\ cpc' = "other"
    /\ toSend' = 0
    /\ before' = 0
    /\ UNCHANGED <<vars, wrapped>>

LoopEnd ==
    /\ cpc = "loop" /\ ClientRuns
    /\ left = 0
    /\ wrapped' = FALSE
    /\ cpc' = "other"
    /\ UNCHANGED <<vars, left, toSend, before>>

ClientStep ==
    \/ ClientStart \/ CompareRead \/ SubtractRead
    \/ LoopSubmit \/ LoopNext \/ LoopEnd

\* Everything else of the driver and the hardware.
DriverOrHardware ==
    /\ \/ DriverStep
       \/ IrqTaken
       \/ Isr
       \/ Drain
    /\ UNCHANGED clientVars

TetrisNext == ClientStep \/ DriverOrHardware

TetrisSpec == TetrisInit /\ [][TetrisNext]_allVars

\* The game itself may stop calling.
TetrisFairSpec == TetrisSpec /\ Fairness

-----------------------------------------------------------------------------
(* The budget of the main loop is what the driver will take: none of its    *)
(* submits is cut short, so the "partial" branch that rolls the synthesizer *)
(* back never runs, whatever the handler does between the chunks.           *)
NeverPartial ==
    cpc = "submitted" /\ ClientRuns => accepted - before = toSend
=============================================================================
