--------------------------- MODULE AudioDacProofs ---------------------------
(***************************************************************************)
(* Proofs about AudioDac, for every ring size, FIFO depth and set of        *)
(* requests.  AudioInv is the inductive invariant: it adds to the types     *)
(* what the code relies on at each point of submit and start_playback.      *)
(* LossInv adds what has become of every sample.  The last part is about    *)
(* TetrisAudio: the game's loop as the client, with the budget it computes. *)
(***************************************************************************)
EXTENDS TetrisAudio, TLAPS

\* A step with a client that may submit any number of samples.
AnyStep ==
    \/ \E n \in Nat : Submit(n)
    \/ StartPlayback \/ StopPlayback
    \/ DriverStep \/ IrqTaken \/ Isr \/ Drain

LEMMA NextIsAnyStep == [Next]_vars => [AnyStep]_vars
  BY AudioAssumption DEF Next, AnyStep

Submitting == {"copy", "kick", "unlock"}

AudioInv ==
    /\ TypeOK
    /\ size = 0 => fill = 0 /\ playback = 0
    /\ mpc \in Submitting => size = Size

-----------------------------------------------------------------------------
(* Wrapping a pointer that was advanced by at most a ring gives a slot.     *)
LEMMA WrapInSlots ==
    ASSUME NEW i \in 0 .. 2 * Size - 1
    PROVE  Wrap(i) \in Slots
  BY AudioAssumption DEF Wrap, Slots, MinRingSize

(* What one call of the handler takes from the ring is at most what is      *)
(* pending there, at most the room in the FIFO, and reaches past the end of *)
(* the ring only when the fill pointer has wrapped.                         *)
LEMMA SentBounds ==
    ASSUME TypeOK, size = Size, fill # playback,
           NEW s \in 1 .. FifoDepth
    PROVE  /\ Sent(s) \in Nat
           /\ Sent(s) <= samples_filled
           /\ used + Sent(s) <= FifoDepth
           /\ samples_filled \in 0 .. Size - 1
           /\ playback + Sent(s) <= 2 * Size - 1
  BY AudioAssumption
  DEF TypeOK, Slots, Sent, FirstPart, SecondPart, Xmit, MinOf, Room,
      samples_filled, MinRingSize

(* A submit writes inside the ring and leaves the fill pointer inside it.   *)
LEMMA CopyBounds ==
    ASSUME TypeOK, size = Size
    PROVE  /\ LowPart \in Nat
           /\ HighPart \in Nat
           /\ fill + LowPart <= Size
           /\ LowPart + HighPart <= req
           /\ HighPart > 0 => HighPart <= playback /\ fill + LowPart = Size
           /\ (IF HighPart > 0 THEN HighPart ELSE Wrap(fill + LowPart)) \in Slots
  BY AudioAssumption
  DEF TypeOK, Slots, LowPart, HighPart, MinOf, Wrap, MinRingSize

LEMMA StoredType ==
    ASSUME TypeOK, size = Size
    PROVE  Stored \in [Slots -> Nat]
  <1>1. LowPart \in Nat /\ HighPart \in Nat
    BY CopyBounds
  <1>2. /\ ring \in [Slots -> Nat]
        /\ fill \in Nat /\ accepted \in Nat
    BY DEF TypeOK, Slots
  <1>3. ASSUME NEW i \in Slots
        PROVE  Stored[i] \in Nat
    <2>1. i \in Nat
      BY DEF Slots
    <2>2. CASE i \in fill .. fill + LowPart - 1
      <3>1. HighPart <= fill
        BY <1>1, <1>2, CopyBounds DEF HighPart, TypeOK, Slots
      <3>2. i >= fill /\ ~(i < HighPart)
        BY <3>1, <2>1, <2>2, <1>1, <1>2
      <3>3. Stored[i] = accepted + 1 + (i - fill)
        BY <3>2, <2>2 DEF Stored
      <3> QED
        BY <3>2, <3>3, <2>1, <1>2
    <2>3. CASE i \notin fill .. fill + LowPart - 1 /\ i < HighPart
      <3>1. Stored[i] = accepted + 1 + LowPart + i
        BY <2>3 DEF Stored
      <3> QED
        BY <3>1, <2>1, <1>1, <1>2
    <2>4. CASE i \notin fill .. fill + LowPart - 1 /\ ~(i < HighPart)
      <3>1. Stored[i] = ring[i]
        BY <2>4 DEF Stored
      <3> QED
        BY <3>1, <1>2
    <2> QED
      BY <2>2, <2>3, <2>4
  <1>4. Stored = [i \in Slots |-> Stored[i]]
    BY DEF Stored
  <1> QED
    BY <1>3, <1>4
-----------------------------------------------------------------------------
(* Type correctness: the pointers stay inside the ring and the FIFO is      *)
(* never overrun, whatever clients ask for and however the handler and the  *)
(* FIFO interleave with submit, start and stop.                             *)
LEMMA AudioInvInit == Init => AudioInv
  <1> SUFFICES ASSUME Init PROVE AudioInv
    OBVIOUS
  <1>s. /\ Slots = 0 .. Size - 1 /\ Size \in Nat /\ Size >= 10
        /\ FifoDepth \in Nat /\ FifoDepth >= 1
    BY AudioAssumption DEF Slots, MinRingSize
  <1>1. 0 \in Slots /\ used \in 0 .. FifoDepth
    BY <1>s DEF Init, MinOf
  <1>2. ring \in [Slots -> Nat]
    BY DEF Init
  <1>3. /\ ipc \in [Contexts -> {"off", "fill", "end"}]
        /\ space \in [Contexts -> 0 .. FifoDepth]
    BY <1>s DEF Init
  <1> QED
    BY <1>1, <1>2, <1>3 DEF Init, AudioInv, TypeOK, Submitting

LEMMA PlicLatchType ==
    ASSUME TypeOK, NEW k \in BOOLEAN, PlicLatch(k),
           ints' \in BOOLEAN, used' \in 0 .. FifoDepth
    PROVE  pend' \in BOOLEAN
  BY DEF PlicLatch, Line

LEMMA AudioInvStep == AudioInv /\ [AnyStep]_vars => AudioInv'
  <1> SUFFICES ASSUME AudioInv, [AnyStep]_vars PROVE AudioInv'
    OBVIOUS
  <1> USE AudioAssumption
  <1>s. /\ Slots = 0 .. Size - 1 /\ Size \in Nat /\ Size >= 10
        /\ FifoDepth \in Nat /\ FifoDepth >= 1
    BY DEF Slots, MinRingSize
  <1>t. FifoDepth - used \in 0 .. FifoDepth
    BY <1>s DEF AudioInv, TypeOK
  <1>1. ASSUME NEW n \in Nat, Submit(n) PROVE AudioInv'
    BY <1>1, <1>s DEF AudioInv, TypeOK, Submit, SubmitRejected, ringVars, isrVars,
       Submitting, PlicLatch, Line
  <1>2. CASE SubmitCopy
    <2>1. size = Size
      BY <1>2 DEF SubmitCopy, AudioInv, Submitting
    <2>2. fill' \in Slots /\ accepted' \in Nat
      BY <1>2, <2>1, CopyBounds DEF SubmitCopy, AudioInv, TypeOK
    <2>3. ring' \in [Slots -> Nat]
      BY <1>2, <2>1, StoredType DEF SubmitCopy, AudioInv
    <2>4. /\ UNCHANGED <<size, playback, ints, used, isrVars, lastOut>>
          /\ mie' = FALSE /\ mpc' = "kick" /\ req' = 0
          /\ pend' = (pend \/ Line')
      BY <1>2 DEF SubmitCopy, PlicLatch
    <2>5. pend' \in BOOLEAN
      BY <2>4
    <2>6. TypeOK'
      BY <2>2, <2>3, <2>4, <2>5 DEF AudioInv, TypeOK, isrVars
    <2> QED
      BY <2>1, <2>4, <2>6, <1>s DEF AudioInv, Submitting
  <1>3. CASE SubmitKick
    BY <1>3, <1>s, <1>t
    DEF AudioInv, TypeOK, SubmitKick, EnterIsr, ringVars, isrVars, Submitting,
        PlicLatch, Line, Contexts
  <1>4. CASE SubmitUnlock
    BY <1>4, <1>s
    DEF AudioInv, TypeOK, SubmitUnlock, ringVars, isrVars, Submitting, PlicLatch, Line
  <1>5. CASE StartPlayback
    BY <1>5, <1>s
    DEF AudioInv, TypeOK, StartPlayback, ringVars, isrVars, Submitting, PlicLatch, Line
  <1>6. CASE StopPlayback
    BY <1>6, <1>s
    DEF AudioInv, TypeOK, StopPlayback, ringVars, isrVars, Submitting, PlicLatch, Line
  <1>7. CASE StartFill
    BY <1>7, <1>s
    DEF AudioInv, TypeOK, StartFill, ringVars, isrVars, Submitting, PlicLatch, Line
  <1>8. CASE StartPointers
    BY <1>8, <1>s
    DEF AudioInv, TypeOK, StartPointers, ringVars, isrVars, Submitting, PlicLatch, Line
  <1>9. CASE StartIsr
    BY <1>9, <1>s, <1>t
    DEF AudioInv, TypeOK, StartIsr, EnterIsr, ringVars, isrVars, Submitting,
        PlicLatch, Line, Contexts
  <1>10. CASE StartInts
    BY <1>10, <1>s
    DEF AudioInv, TypeOK, StartInts, ringVars, isrVars, Submitting, PlicLatch, Line
  <1>11. CASE IrqTaken
    BY <1>11, <1>s, <1>t
    DEF AudioInv, TypeOK, IrqTaken, EnterIsr, ringVars, isrVars, Submitting,
        PlicLatch, Line, Contexts
  <1>12. ASSUME NEW c \in Contexts, IsrFull(c) PROVE AudioInv'
    BY <1>12, <1>s
    DEF AudioInv, TypeOK, IsrFull, LeaveIsr, ringVars, isrVars, Submitting,
        PlicLatch, Line
  <1>13. ASSUME NEW c \in Contexts, IsrUnderrun(c) PROVE AudioInv'
    <2>1. used' \in 0 .. FifoDepth
      BY <1>13, <1>s
      DEF AudioInv, TypeOK, IsrUnderrun, Xmit, MinOf, Room, ZeroBurst
    <2>2. mpc' = mpc /\ size' = size /\ fill' = fill /\ playback' = playback
      BY <1>13 DEF IsrUnderrun, LeaveIsr, ringVars
    <2>3. space' \in [Contexts -> 0 .. FifoDepth]
      BY <1>13, <1>s DEF AudioInv, TypeOK, IsrUnderrun, LeaveIsr
    <2>4. ipc' \in [Contexts -> {"off", "fill", "end"}]
      BY <1>13 DEF AudioInv, TypeOK, IsrUnderrun, LeaveIsr
    <2>5. pend' \in BOOLEAN
      BY <1>13 DEF IsrUnderrun, AudioInv, TypeOK, PlicLatch
    <2>6. TypeOK'
      BY <1>13, <2>1, <2>3, <2>4, <2>5 DEF AudioInv, TypeOK, IsrUnderrun, ringVars
    <2> QED
      BY <2>2, <2>6 DEF AudioInv, Submitting
  <1>14. ASSUME NEW c \in Contexts, IsrPlay(c) PROVE AudioInv'
    <2> DEFINE s == space[c]
    <2>1. s \in 1 .. FifoDepth /\ size = Size /\ fill # playback
      BY <1>14, <1>s DEF AudioInv, TypeOK, IsrPlay
    <2>2. /\ Sent(s) \in Nat
          /\ used + Sent(s) <= FifoDepth
          /\ playback + Sent(s) <= 2 * Size - 1
      BY <2>1, SentBounds DEF AudioInv
    <2>3. used' \in 0 .. FifoDepth
      BY <1>14, <2>2, <1>s DEF AudioInv, TypeOK, IsrPlay
    <2>4. playback' \in Slots
      <3>1. playback + Sent(s) \in 0 .. 2 * Size - 1
        BY <2>2, <1>s DEF AudioInv, TypeOK
      <3>2. playback' = Wrap(playback + Sent(s))
        BY <1>14 DEF IsrPlay
      <3> QED
        BY <3>1, <3>2, WrapInSlots
    <2>5. lastOut' \in Nat
      <3>1. CASE Sent(s) = 0
        BY <1>14, <3>1 DEF AudioInv, TypeOK, IsrPlay
      <3>2. CASE Sent(s) # 0
        <4>1. playback + Sent(s) - 1 \in 0 .. 2 * Size - 1
          BY <2>2, <3>2, <1>s DEF AudioInv, TypeOK
        <4>2. Wrap(playback + Sent(s) - 1) \in Slots
          BY <4>1, WrapInSlots
        <4> QED
          BY <1>14, <3>2, <4>2 DEF AudioInv, TypeOK, IsrPlay
      <3> QED
        BY <3>1, <3>2
    <2>6. mpc' = mpc /\ size' = size /\ fill' = fill
      BY <1>14 DEF IsrPlay, LeaveIsr
    <2>7. space' \in [Contexts -> 0 .. FifoDepth]
      BY <1>14, <1>s DEF AudioInv, TypeOK, IsrPlay, LeaveIsr
    <2>8. ipc' \in [Contexts -> {"off", "fill", "end"}]
      BY <1>14 DEF AudioInv, TypeOK, IsrPlay, LeaveIsr
    <2>9. pend' \in BOOLEAN
      BY <1>14 DEF IsrPlay, AudioInv, TypeOK, PlicLatch
    <2>10. TypeOK'
      BY <1>14, <2>3, <2>4, <2>5, <2>7, <2>8, <2>9 DEF AudioInv, TypeOK, IsrPlay
    <2> QED
      BY <2>1, <2>6, <2>10 DEF AudioInv, Submitting
  <1>15. CASE IrqReturn
    BY <1>15, <1>s
    DEF AudioInv, TypeOK, IrqReturn, ringVars, Submitting, PlicLatch, Line, Contexts
  <1>16. CASE CallReturn
    BY <1>16, <1>s
    DEF AudioInv, TypeOK, CallReturn, ringVars, Submitting, PlicLatch, Line, Contexts
  <1>17. CASE Drain
    BY <1>17, <1>s
    DEF AudioInv, TypeOK, Drain, ringVars, isrVars, Submitting, PlicLatch, Line
  <1>18. CASE UNCHANGED vars
    BY <1>18 DEF AudioInv, TypeOK, vars, Submitting
  <1> QED
    BY <1>1, <1>2, <1>3, <1>4, <1>5, <1>6, <1>7, <1>8, <1>9, <1>10, <1>11, <1>12,
       <1>13, <1>14, <1>15, <1>16, <1>17, <1>18
    DEF AnyStep, DriverStep, Isr

(* The pointers stay inside the ring and the command FIFO is never written  *)
(* beyond its depth (audiodac0_submit_buffer, audiodac0_isr, audiodac_xmit, *)
(* with start and stop at any time).                                        *)
THEOREM TypeCorrect == Spec => []TypeOK
  <1>1. AudioInv => TypeOK
    BY DEF AudioInv
  <1> QED
    BY NextIsAnyStep, AudioInvInit, AudioInvStep, <1>1, PTL DEF Spec

-----------------------------------------------------------------------------
(* The ring as an ordered window.                                           *)

\* samples_filled(), for given pointers of an installed ring
FilledAt(f, p) == IF f >= p THEN f - p ELSE Size - p + f

NewFill == IF HighPart > 0 THEN HighPart ELSE Wrap(fill + LowPart)

LEMMA FilledIsFilledAt ==
    ASSUME size = Size
    PROVE  samples_filled = FilledAt(fill, playback)
  BY DEF samples_filled, FilledAt

LEMMA FilledRange ==
    ASSUME TypeOK, size = Size
    PROVE  samples_filled \in 0 .. Size - 1
  BY AudioAssumption DEF TypeOK, Slots, samples_filled, MinRingSize

(* Playing n pending samples drops exactly the first n of the window.       *)
LEMMA AdvancePlayback ==
    ASSUME TypeOK, size = Size, NEW n \in 0 .. samples_filled
    PROVE  /\ FilledAt(fill, Wrap(playback + n)) = samples_filled - n
           /\ \A k \in 0 .. samples_filled - n - 1 :
                 Wrap(Wrap(playback + n) + k) = Wrap(playback + (n + k))
  BY AudioAssumption
  DEF TypeOK, Slots, samples_filled, FilledAt, Wrap, MinRingSize

(* A submit extends the window by what it stored, unless that makes the     *)
(* ring completely full: then the two pointers meet and it looks empty.     *)
LEMMA CopyExtends ==
    ASSUME TypeOK, size = Size
    PROVE  \/ FilledAt(NewFill, playback) = samples_filled + LowPart + HighPart
           \/ /\ FilledAt(NewFill, playback) = 0
              /\ samples_filled + LowPart + HighPart = Size
  BY AudioAssumption
  DEF TypeOK, Slots, samples_filled, FilledAt, NewFill, LowPart, HighPart,
      MinOf, Wrap, MinRingSize

(* What was pending is not overwritten ...                                  *)
LEMMA CopyKeeps ==
    ASSUME TypeOK, size = Size, NEW k \in 0 .. samples_filled - 1
    PROVE  Stored[Wrap(playback + k)] = ring[Wrap(playback + k)]
  <1> DEFINE i == Wrap(playback + k)
  <1>1. i \in Slots
    BY AudioAssumption
    DEF TypeOK, Slots, samples_filled, Wrap, MinRingSize
  <1>2. i \notin fill .. fill + LowPart - 1 /\ ~(i < HighPart)
    BY AudioAssumption
    DEF TypeOK, Slots, samples_filled, Wrap, LowPart, HighPart, MinOf, MinRingSize
  <1> QED
    BY <1>1, <1>2 DEF Stored

(* ... and the new samples follow it in order.                              *)
LEMMA CopyAppends ==
    ASSUME TypeOK, size = Size, NEW k \in 0 .. LowPart + HighPart - 1
    PROVE  Stored[Wrap(playback + (samples_filled + k))] = accepted + 1 + k
  <1> DEFINE i == Wrap(playback + (samples_filled + k))
  <1>0. LowPart \in Nat /\ HighPart \in Nat /\ samples_filled \in 0 .. Size - 1
    BY CopyBounds, FilledRange
  <1>1. i \in Slots
    BY <1>0, AudioAssumption
    DEF TypeOK, Slots, samples_filled, Wrap, LowPart, HighPart, MinOf, MinRingSize
  <1>2. CASE k < LowPart
    <2>1. i = fill + k
      BY <1>0, <1>2, AudioAssumption
      DEF TypeOK, Slots, samples_filled, Wrap, LowPart, MinOf, MinRingSize
    <2>2. i \in fill .. fill + LowPart - 1 /\ i - fill = k
      BY <1>0, <1>2, <2>1 DEF TypeOK, Slots
    <2>3. ~(i < HighPart)
      BY <1>0, <2>1, CopyBounds DEF TypeOK, Slots, HighPart, MinOf
    <2>4. Stored[i] = accepted + 1 + (i - fill)
      BY <1>1, <2>2, <2>3 DEF Stored
    <2> QED
      BY <2>2, <2>4
  <1>3. CASE ~(k < LowPart)
    <2>1. i = k - LowPart /\ i < HighPart
      BY <1>0, <1>3, AudioAssumption
      DEF TypeOK, Slots, samples_filled, Wrap, LowPart, HighPart, MinOf, MinRingSize
    <2>2. i \notin fill .. fill + LowPart - 1
      BY <1>0, <1>3, <2>1, AudioAssumption
      DEF TypeOK, Slots, LowPart, HighPart, MinOf, MinRingSize
    <2>3. Stored[i] = accepted + 1 + LowPart + i
      BY <1>1, <2>1, <2>2 DEF Stored
    <2>4. accepted + 1 + LowPart + (k - LowPart) = accepted + 1 + k
      BY <1>0 DEF TypeOK
    <2> QED
      BY <2>1, <2>3, <2>4
  <1> QED
    BY <1>2, <1>3

-----------------------------------------------------------------------------
(* The window holds the latest samples in order, for any requests, as long  *)
(* as playback is started once.                                             *)

WindowInOrder ==
    /\ \A k \in 0 .. samples_filled - 1 :
          ring[Wrap(playback + k)] = accepted - samples_filled + k + 1
    /\ lastOut <= accepted - samples_filled

OrderInv ==
    /\ AudioInv
    /\ size = 0 => accepted = 0 /\ lastOut = 0
    /\ mpc \in {"start_fill", "start_playback"} => size = 0
    /\ WindowInOrder

\* What the window and the history depend on.
windowVars == <<ring, size, fill, playback, accepted, lastOut>>

LEMMA OrderInvInit == Init => OrderInv
  <1> SUFFICES ASSUME Init PROVE OrderInv
    OBVIOUS
  <1>1. samples_filled = 0
    BY DEF Init, samples_filled
  <1> QED
    BY <1>1, AudioInvInit DEF Init, OrderInv, WindowInOrder

LEMMA WindowUnchanged ==
    ASSUME UNCHANGED windowVars
    PROVE  samples_filled' = samples_filled /\ (WindowInOrder => WindowInOrder')
  BY DEF windowVars, samples_filled, WindowInOrder, Wrap

\* The steps that touch neither the window nor the history.
LEMMA FrameSteps ==
    ASSUME AudioInv, ~MayStop, mpc \in {"start_fill", "start_playback"} => size = 0,
           [AnyStep]_vars
    PROVE  \/ UNCHANGED windowVars /\ mpc' \in {mpc, "kick", "unlock", "idle", "start_ints"}
           \/ /\ UNCHANGED windowVars /\ mpc = "idle" /\ mpc' = "copy"
              /\ \E n \in Nat : Submit(n)
           \/ UNCHANGED windowVars /\ mpc' = "start_fill" /\ size = 0
           \/ UNCHANGED windowVars /\ mpc = "start_fill" /\ mpc' = "start_playback"
           \/ SubmitCopy
           \/ StartPointers
           \/ \E c \in Contexts : IsrPlay(c)
  <1>1. CASE StartFill
    BY <1>1 DEF StartFill, AudioInv, windowVars
  <1>2. CASE UNCHANGED vars
    BY <1>2 DEF vars, windowVars
  <1>3. CASE DriverStep /\ ~StartFill
    BY <1>3 DEF DriverStep, SubmitKick, SubmitUnlock, StartIsr, StartInts,
       windowVars, ringVars
  <1>4. CASE (\E n \in Nat : Submit(n)) \/ StartPlayback \/ StopPlayback
    BY <1>4 DEF Submit, StartPlayback, StopPlayback, windowVars, ringVars
  <1>5. CASE IrqTaken \/ Isr \/ Drain
    BY <1>5 DEF IrqTaken, Isr, IsrFull, IsrUnderrun, IrqReturn, CallReturn, Drain,
       windowVars, ringVars
  <1> QED
    BY <1>1, <1>2, <1>3, <1>4, <1>5 DEF AnyStep

LEMMA CopyOrder ==
    ASSUME AudioInv, WindowInOrder, SubmitCopy
    PROVE  WindowInOrder'
  <1> DEFINE n == LowPart + HighPart
  <1>0. TypeOK /\ size = Size /\ size' = size /\ playback' = playback
    BY DEF SubmitCopy, AudioInv, Submitting
  <1>a. LowPart \in Nat /\ HighPart \in Nat /\ accepted \in Nat
    BY <1>0, CopyBounds DEF TypeOK
  <1>1. /\ ring' = Stored /\ fill' = NewFill /\ accepted' = accepted + n
        /\ lastOut' = lastOut
    BY <1>a DEF SubmitCopy, NewFill
  <1>2. samples_filled' = FilledAt(NewFill, playback)
    BY <1>0, <1>1 DEF samples_filled, FilledAt
  <1>3. n \in Nat /\ samples_filled \in 0 .. Size - 1 /\ accepted \in Nat /\ lastOut \in Nat
    BY <1>0, CopyBounds, FilledRange DEF TypeOK
  <1>4. CASE samples_filled' = samples_filled + n
    <2>1. ASSUME NEW k \in 0 .. samples_filled' - 1
          PROVE  ring'[Wrap(playback + k)] = accepted' - samples_filled' + k + 1
      <3>1. CASE k < samples_filled
        <4>1. ring'[Wrap(playback + k)] = ring[Wrap(playback + k)]
          BY <1>0, <1>1, <1>3, <1>4, <2>1, <3>1, CopyKeeps
        <4> QED
          BY <1>1, <1>3, <1>4, <2>1, <3>1, <4>1 DEF WindowInOrder
      <3>2. CASE ~(k < samples_filled)
        <4> DEFINE j == k - samples_filled
        <4>0. k \in Int /\ 0 <= k /\ k <= samples_filled + n - 1
          BY <1>3, <1>4, <2>1
        <4>1. j \in 0 .. LowPart + HighPart - 1 /\ k = samples_filled + j
          BY <1>3, <1>a, <3>2, <4>0
        <4>2. Stored[Wrap(playback + (samples_filled + j))] = accepted + 1 + j
          BY <1>0, <4>1, CopyAppends
        <4> QED
          <5>1. ring'[Wrap(playback + k)] = accepted + 1 + j
            BY <1>1, <4>1, <4>2
          <5>2. accepted' - samples_filled' + k + 1 = accepted + 1 + j
            BY <1>1, <1>3, <1>4, <4>1
          <5> QED
            BY <5>1, <5>2
      <3> QED
        BY <3>1, <3>2
    <2> QED
      BY <1>0, <1>1, <1>3, <1>4, <2>1 DEF WindowInOrder, Wrap
  <1>5. CASE samples_filled' = 0
    BY <1>1, <1>3, <1>5 DEF WindowInOrder
  <1>6. samples_filled' = samples_filled + n \/ samples_filled' = 0
    BY <1>0, <1>2, <1>3, <1>a, CopyExtends
  <1> QED
    BY <1>4, <1>5, <1>6

LEMMA PlayOrder ==
    ASSUME AudioInv, WindowInOrder, NEW c \in Contexts, IsrPlay(c)
    PROVE  /\ WindowInOrder'
           /\ \E n \in 0 .. samples_filled :
                 /\ samples_filled' = samples_filled - n
                 /\ n > 0 => lastOut' = accepted - samples_filled + n
                 /\ n = 0 => lastOut' = lastOut
  <1> DEFINE n == Sent(space[c])
  <1>0. /\ TypeOK /\ size = Size /\ fill # playback
        /\ space[c] \in 1 .. FifoDepth
        /\ UNCHANGED <<ring, size, fill, accepted>>
    BY AudioAssumption DEF IsrPlay, AudioInv, TypeOK
  <1>1. /\ playback' = Wrap(playback + n)
        /\ lastOut' = IF n = 0 THEN lastOut ELSE ring[Wrap(playback + n - 1)]
    BY DEF IsrPlay
  <1>2. n \in 0 .. samples_filled /\ samples_filled \in 0 .. Size - 1
    BY <1>0, SentBounds
  <1> HIDE DEF n
  <1>3. samples_filled' = samples_filled - n
    BY <1>0, <1>1, <1>2, AdvancePlayback DEF samples_filled, FilledAt
  <1>4. accepted \in Nat /\ lastOut \in Nat /\ playback \in Nat
    BY <1>0 DEF TypeOK, Slots
  <1>5. n > 0 => lastOut' = accepted - samples_filled + n
    <2> SUFFICES ASSUME n > 0 PROVE lastOut' = accepted - samples_filled + n
      OBVIOUS
    <2>1. n - 1 \in 0 .. samples_filled - 1 /\ playback + (n - 1) = playback + n - 1
      BY <1>2, <1>4
    <2>2. ring[Wrap(playback + (n - 1))] = accepted - samples_filled + (n - 1) + 1
      BY <2>1 DEF WindowInOrder
    <2>3. accepted - samples_filled + (n - 1) + 1 = accepted - samples_filled + n
      BY <1>2, <1>4
    <2> QED
      BY <1>1, <1>2, <2>1, <2>2, <2>3
  <1>6. n = 0 => lastOut' = lastOut
    BY <1>1
  <1>7. lastOut' <= accepted' - samples_filled'
    BY <1>0, <1>2, <1>3, <1>4, <1>5, <1>6 DEF WindowInOrder
  <1>8. ASSUME NEW k \in 0 .. samples_filled' - 1
        PROVE  ring'[Wrap(playback' + k)] = accepted' - samples_filled' + k + 1
    <2>1. Wrap(playback' + k) = Wrap(playback + (n + k))
      BY <1>0, <1>1, <1>2, <1>3, <1>8, AdvancePlayback
    <2>2. n + k \in 0 .. samples_filled - 1
      BY <1>2, <1>3, <1>8
    <2>3. ring[Wrap(playback + (n + k))] = accepted - samples_filled + (n + k) + 1
      BY <2>2 DEF WindowInOrder
    <2>4. accepted - samples_filled + (n + k) + 1 = accepted - (samples_filled - n) + k + 1
      BY <1>2, <1>3, <1>4, <1>8
    <2> QED
      BY <1>0, <1>3, <2>1, <2>3, <2>4
  <1>9. WindowInOrder'
    BY <1>7, <1>8 DEF WindowInOrder, Wrap
  <1> QED
    BY <1>2, <1>3, <1>5, <1>6, <1>9

LEMMA OrderInvStep == ~MayStop /\ OrderInv /\ [AnyStep]_vars => OrderInv'
  <1> SUFFICES ASSUME ~MayStop, OrderInv, [AnyStep]_vars PROVE OrderInv'
    OBVIOUS
  <1>1. AudioInv'
    BY AudioInvStep DEF OrderInv
  <1>2. CASE UNCHANGED windowVars /\ mpc' \in {mpc, "kick", "unlock", "idle", "start_ints"}
    BY <1>1, <1>2, WindowUnchanged DEF OrderInv, windowVars
  <1>3. CASE UNCHANGED windowVars /\ mpc' = "copy"
    BY <1>1, <1>3, WindowUnchanged DEF OrderInv, windowVars
  <1>4. CASE UNCHANGED windowVars /\ mpc' = "start_fill" /\ size = 0
    BY <1>1, <1>4, WindowUnchanged DEF OrderInv, windowVars
  <1>5. CASE UNCHANGED windowVars /\ mpc = "start_fill" /\ mpc' = "start_playback"
    BY <1>1, <1>5, WindowUnchanged DEF OrderInv, windowVars
  <1>6. CASE SubmitCopy
    <2>1. size = Size /\ size' = size /\ Size # 0 /\ mpc' = "kick"
      BY <1>6, AudioAssumption DEF SubmitCopy, OrderInv, AudioInv, Submitting, MinRingSize
    <2> QED
      BY <1>1, <1>6, <2>1, CopyOrder DEF OrderInv
  <1>7. CASE StartPointers
    <2>1. /\ size = 0 /\ fill = 0 /\ fill' = 0 /\ playback' = 0
          /\ accepted' = accepted /\ lastOut' = lastOut
          /\ accepted = 0 /\ lastOut = 0 /\ size' = Size /\ mpc' = "start_isr"
      BY <1>7 DEF StartPointers, OrderInv, AudioInv
    <2>2. samples_filled' = 0
      BY <2>1 DEF samples_filled
    <2>3. WindowInOrder'
      BY <2>1, <2>2 DEF WindowInOrder
    <2> QED
      BY <1>1, <2>1, <2>3 DEF OrderInv
  <1>8. ASSUME NEW c \in Contexts, IsrPlay(c) PROVE OrderInv'
    <2>1. size' # 0 /\ mpc' = mpc /\ size' = size
      BY <1>8 DEF IsrPlay, OrderInv, AudioInv
    <2> QED
      BY <1>1, <1>8, <2>1, PlayOrder DEF OrderInv
  <1> QED
    BY <1>2, <1>3, <1>4, <1>5, <1>6, <1>7, <1>8, FrameSteps DEF OrderInv

(* With playback stopped and started again the window is rebuilt: the fill  *)
(* pointer is back at the start before the playback pointer is, and an      *)
(* interrupt latched before may play from the slots in between.             *)

RestartInv ==
    /\ AudioInv
    /\ PendingInOrder
    /\ \A i \in Slots : ring[i] <= accepted
    /\ lastOut <= accepted
    /\ mpc = "start_playback" => fill = 0

LEMMA RestartInvInit == Init => RestartInv
  <1> SUFFICES ASSUME Init PROVE RestartInv
    OBVIOUS
  <1>1. samples_filled = 0
    BY DEF Init, samples_filled
  <1> QED
    BY <1>1, AudioInvInit DEF Init, RestartInv, PendingInOrder

\* The steps that neither submit, play nor reset a pointer.
LEMMA RestartFrame ==
    ASSUME AudioInv, [AnyStep]_vars
    PROVE  \/ /\ UNCHANGED windowVars
              /\ mpc = "start_playback" <=> mpc' = "start_playback"
           \/ StartFill \/ SubmitCopy \/ StartPointers
           \/ \E c \in Contexts : IsrPlay(c)
  <1>1. CASE UNCHANGED vars
    BY <1>1 DEF vars, windowVars, ringVars
  <1>2. CASE DriverStep
    BY <1>2 DEF DriverStep, SubmitKick, SubmitUnlock, StartIsr, StartInts,
       windowVars, ringVars
  <1>3. CASE (\E n \in Nat : Submit(n)) \/ StartPlayback \/ StopPlayback
    BY <1>3 DEF Submit, StartPlayback, StopPlayback, windowVars, ringVars
  <1>4. CASE IrqTaken \/ Isr \/ Drain
    BY <1>4 DEF IrqTaken, Isr, IsrFull, IsrUnderrun, IrqReturn, CallReturn, Drain,
       windowVars, ringVars
  <1> QED
    BY <1>1, <1>2, <1>3, <1>4 DEF AnyStep

\* A submit stores numbers up to the new count of accepted samples.
LEMMA CopyCounts ==
    ASSUME TypeOK, size = Size, \A i \in Slots : ring[i] <= accepted,
           NEW i \in Slots
    PROVE  Stored[i] <= accepted + LowPart + HighPart
  <1>1. LowPart \in Nat /\ HighPart \in Nat /\ accepted \in Nat /\ fill \in Nat
    BY CopyBounds DEF TypeOK, Slots
  <1>2. i \in Nat /\ ring[i] \in Nat /\ ring[i] <= accepted
    BY DEF TypeOK, Slots
  <1>3. CASE i \in fill .. fill + LowPart - 1
    <2>1. ~(i < HighPart)
      BY <1>1, <1>2, <1>3 DEF TypeOK, Slots, HighPart, MinOf
    <2>2. Stored[i] = accepted + 1 + (i - fill)
      BY <1>3, <2>1 DEF Stored
    <2> QED
      BY <1>1, <1>2, <1>3, <2>2
  <1>4. CASE i \notin fill .. fill + LowPart - 1 /\ i < HighPart
    <2>1. Stored[i] = accepted + 1 + LowPart + i
      BY <1>4 DEF Stored
    <2> QED
      BY <1>1, <1>2, <1>4, <2>1
  <1>5. CASE i \notin fill .. fill + LowPart - 1 /\ ~(i < HighPart)
    <2>1. Stored[i] = ring[i]
      BY <1>5 DEF Stored
    <2> QED
      BY <1>1, <1>2, <2>1
  <1> QED
    BY <1>3, <1>4, <1>5

LEMMA RestartInvStep == RestartInv /\ [AnyStep]_vars => RestartInv'
  <1> SUFFICES ASSUME RestartInv, [AnyStep]_vars PROVE RestartInv'
    OBVIOUS
  <1>0. AudioInv /\ AudioInv' /\ TypeOK
    BY AudioInvStep DEF RestartInv, AudioInv
  <1>w. PendingInOrder <=> (mpc # "start_playback" => WindowInOrder)
    BY DEF PendingInOrder, WindowInOrder
  <1>v. PendingInOrder' <=> (mpc' # "start_playback" => WindowInOrder')
    BY DEF PendingInOrder, WindowInOrder
  <1>1. CASE UNCHANGED windowVars /\ (mpc = "start_playback" <=> mpc' = "start_playback")
    BY <1>0, <1>1, <1>w, <1>v, WindowUnchanged DEF RestartInv, windowVars
  <1>2. CASE StartFill
    BY <1>0, <1>2, <1>v DEF StartFill, RestartInv
  <1>3. CASE SubmitCopy
    <2>1. mpc = "copy" /\ mpc' = "kick" /\ size = Size
      BY <1>0, <1>3 DEF SubmitCopy, AudioInv, Submitting
    <2>2. WindowInOrder'
      BY <1>0, <1>3, <1>w, <2>1, CopyOrder DEF RestartInv
    <2>3. /\ ring' = Stored /\ accepted' = accepted + LowPart + HighPart
          /\ lastOut' = lastOut
      BY <1>3 DEF SubmitCopy
    <2>4. LowPart \in Nat /\ HighPart \in Nat /\ accepted \in Nat /\ lastOut \in Nat
      BY <1>0, <2>1, CopyBounds DEF TypeOK
    <2>5. \A i \in Slots : ring'[i] <= accepted'
      BY <1>0, <2>1, <2>3, CopyCounts DEF RestartInv
    <2>6. lastOut' <= accepted'
      BY <2>3, <2>4 DEF RestartInv
    <2> QED
      BY <1>0, <1>v, <2>1, <2>2, <2>5, <2>6 DEF RestartInv
  <1>4. CASE StartPointers
    <2>1. /\ fill = 0 /\ fill' = 0 /\ playback' = 0 /\ mpc' = "start_isr"
          /\ UNCHANGED <<ring, accepted, lastOut>>
          /\ accepted \in Nat /\ lastOut \in Nat
      BY <1>0, <1>4 DEF StartPointers, RestartInv, TypeOK
    <2>2. samples_filled' = 0
      BY <2>1 DEF samples_filled
    <2>3. WindowInOrder'
      BY <2>1, <2>2 DEF WindowInOrder, RestartInv
    <2> QED
      BY <1>0, <1>v, <2>1, <2>3 DEF RestartInv
  <1>5. ASSUME NEW c \in Contexts, IsrPlay(c) PROVE RestartInv'
    <2>0. UNCHANGED <<ring, fill, accepted, mpc>>
      BY <1>5 DEF IsrPlay
    <2>1. \/ lastOut' = lastOut
          \/ /\ Sent(space[c]) # 0
             /\ lastOut' = ring[Wrap(playback + Sent(space[c]) - 1)]
      BY <1>5 DEF IsrPlay
    <2>2. lastOut' <= accepted'
      <3>1. CASE lastOut' = lastOut
        BY <2>0, <3>1 DEF RestartInv
      <3>2. CASE Sent(space[c]) # 0 /\ lastOut' = ring[Wrap(playback + Sent(space[c]) - 1)]
        <4>1. size = Size /\ fill # playback /\ space[c] \in 1 .. FifoDepth
          BY <1>0, <1>5, AudioAssumption DEF IsrPlay, AudioInv, TypeOK
        <4>2. Sent(space[c]) \in 0 .. samples_filled /\ samples_filled \in 0 .. Size - 1
          BY <1>0, <4>1, SentBounds
        <4>3. Wrap(playback + Sent(space[c]) - 1) \in Slots
          <5> DEFINE n == Sent(space[c])
          <5>1. n \in 1 .. Size - 1 /\ playback \in 0 .. Size - 1 /\ Size \in Nat
            BY <1>0, <3>2, <4>2, AudioAssumption DEF TypeOK, Slots
          <5> HIDE DEF n
          <5>2. Wrap(playback + n - 1) \in Slots
            BY <5>1 DEF Wrap, Slots
          <5> QED
            BY <5>2 DEF n
        <4> QED
          BY <2>0, <3>2, <4>3 DEF RestartInv
      <3> QED
        BY <2>1, <3>1, <3>2
    <2>3. mpc # "start_playback" => WindowInOrder'
      BY <1>0, <1>5, <1>w, PlayOrder DEF RestartInv
    <2> QED
      BY <1>0, <1>v, <2>0, <2>2, <2>3 DEF RestartInv
  <1> QED
    BY <1>0, <1>1, <1>2, <1>3, <1>4, <1>5, RestartFrame

(* However submits, interrupts, stops and restarts interleave, the slots    *)
(* between the pointers hold the latest accepted samples in order: the      *)
(* handler never plays a slot that was overwritten, skipped or never        *)
(* written.  Nothing is assumed about the sizes clients ask for.            *)
THEOREM RingKeepsOrder == Spec => []PendingInOrder
  <1>1. RestartInv => PendingInOrder
    BY DEF RestartInv
  <1> QED
    BY <1>1, NextIsAnyStep, RestartInvInit, RestartInvStep, PTL DEF Spec

-----------------------------------------------------------------------------
(* With a budgeted client nothing is lost, and the driver is a stream.      *)

LossInv ==
    /\ OrderInv
    /\ mpc = "copy" => req <= samples_available
    /\ NoSampleLost

LEMMA LossInvInit == Init => LossInv
  BY OrderInvInit DEF Init, LossInv, NoSampleLost

LEMMA CopyLosesNothing ==
    ASSUME LossInv, SubmitCopy
    PROVE  NoSampleLost' /\ accepted' - lastOut <= Size - 1
  <1>0. TypeOK /\ size = Size /\ size' = size /\ playback' = playback /\ Size \in Nat
    BY AudioAssumption DEF SubmitCopy, LossInv, OrderInv, AudioInv, Submitting
  <1>a. /\ LowPart \in Nat /\ HighPart \in Nat /\ accepted \in Nat /\ lastOut \in Nat
        /\ req \in Nat /\ LowPart + HighPart <= req
        /\ samples_filled \in 0 .. Size - 1
    BY <1>0, CopyBounds, FilledRange DEF TypeOK
  <1>1. req <= Size - samples_filled - 1
    BY <1>0 DEF SubmitCopy, LossInv, samples_available
  <1>2. /\ fill' = NewFill /\ accepted' = accepted + LowPart + HighPart
        /\ lastOut' = lastOut
    BY DEF SubmitCopy, NewFill
  <1>3. samples_filled' = FilledAt(NewFill, playback)
    BY <1>0, <1>2 DEF samples_filled, FilledAt
  <1>4. samples_filled' = samples_filled + LowPart + HighPart
    BY <1>0, <1>a, <1>1, <1>3, CopyExtends
  <1>5. lastOut + samples_filled = accepted
    BY <1>0, AudioAssumption DEF LossInv, NoSampleLost, MinRingSize
  <1> QED
    BY <1>0, <1>a, <1>1, <1>2, <1>4, <1>5 DEF NoSampleLost

LEMMA PlayLosesNothing ==
    ASSUME LossInv, NEW c \in Contexts, IsrPlay(c)
    PROVE  /\ NoSampleLost'
           /\ samples_filled' <= samples_filled
           /\ lastOut' >= lastOut /\ lastOut' <= accepted
  <1>0. size = Size /\ Size # 0 /\ TypeOK /\ UNCHANGED <<accepted, size>>
    BY AudioAssumption DEF LossInv, OrderInv, AudioInv, TypeOK, IsrPlay, MinRingSize
  <1>1. /\ accepted \in Nat /\ lastOut \in Nat /\ samples_filled \in 0 .. Size - 1
        /\ Size \in Nat
    BY <1>0, FilledRange, AudioAssumption DEF TypeOK
  <1>2. lastOut + samples_filled = accepted
    BY <1>0 DEF LossInv, NoSampleLost
  <1>3. PICK n \in Int :
            /\ n \in 0 .. samples_filled
            /\ samples_filled' = samples_filled - n
            /\ n > 0 => lastOut' = accepted - samples_filled + n
            /\ n = 0 => lastOut' = lastOut
    BY <1>1, PlayOrder DEF LossInv, OrderInv
  <1>4. lastOut' = lastOut + n
    BY <1>1, <1>2, <1>3
  <1> QED
    BY <1>0, <1>1, <1>2, <1>3, <1>4 DEF NoSampleLost

LEMMA LossInvStep ==
    ASSUME ~MayStop, LossInv, [AnyStep]_vars,
           mpc = "idle" /\ mpc' = "copy" => req' <= samples_available
    PROVE  /\ LossInv'
           /\ [Stream!Next]_(Stream!vars)
  <1>0. OrderInv'
    BY OrderInvStep DEF LossInv
  <1>1. ASSUME UNCHANGED windowVars PROVE NoSampleLost' /\ UNCHANGED Stream!vars
    BY <1>1, WindowUnchanged DEF LossInv, NoSampleLost, windowVars, Stream!vars
  <1>2. ASSUME UNCHANGED windowVars, mpc' = "copy" => mpc = "copy" /\ req' = req
        PROVE  LossInv' /\ UNCHANGED Stream!vars
    <2>1. samples_available' = samples_available
      BY <1>2, WindowUnchanged DEF samples_available, windowVars
    <2> QED
      BY <1>0, <1>1, <1>2, <2>1 DEF LossInv
  <1>3. ASSUME NEW n \in Nat, Submit(n) PROVE LossInv' /\ UNCHANGED Stream!vars
    <2>1. UNCHANGED windowVars
      BY <1>3 DEF Submit, windowVars, ringVars
    <2>2. samples_available' = samples_available
      BY <2>1, WindowUnchanged DEF samples_available, windowVars
    <2> QED
      BY <1>0, <1>1, <1>3, <2>1, <2>2 DEF LossInv, Submit
  <1>4. CASE SubmitCopy
    <2>1. NoSampleLost' /\ accepted' - lastOut <= Size - 1
      BY <1>4, CopyLosesNothing
    <2>2. /\ accepted \in Nat /\ LowPart \in Nat /\ HighPart \in Nat
          /\ accepted' = accepted + LowPart + HighPart
      BY <1>4, CopyBounds DEF SubmitCopy, LossInv, OrderInv, AudioInv, TypeOK, Submitting
    <2>3. Stream!Accept
      BY <1>4, <2>1, <2>2 DEF SubmitCopy, Stream!Accept
    <2> QED
      BY <1>0, <1>4, <2>1, <2>3 DEF LossInv, SubmitCopy, Stream!Next
  <1>5. CASE StartPointers
    <2>1. /\ size = 0 /\ fill = 0 /\ fill' = 0 /\ playback' = 0
          /\ accepted' = accepted /\ lastOut' = lastOut
          /\ accepted = 0 /\ lastOut = 0 /\ mpc' = "start_isr"
      BY <1>5 DEF StartPointers, LossInv, OrderInv, AudioInv
    <2>2. samples_filled' = 0
      BY <2>1 DEF samples_filled
    <2> QED
      BY <1>0, <2>1, <2>2 DEF LossInv, NoSampleLost, Stream!vars
  <1>6. ASSUME NEW c \in Contexts, IsrPlay(c) PROVE LossInv' /\ Stream!Play
    <2>1. /\ NoSampleLost'
          /\ samples_filled' <= samples_filled
          /\ lastOut' >= lastOut /\ lastOut' <= accepted
      BY <1>6, PlayLosesNothing
    <2>2. TypeOK /\ TypeOK' /\ size = Size /\ size' = size
      BY <1>0, <1>6 DEF LossInv, OrderInv, AudioInv, TypeOK, IsrPlay
    <2>3. /\ samples_filled \in 0 .. Size - 1 /\ Size \in Nat
          /\ samples_filled' \in Int /\ req \in Nat
      <3>1. samples_filled \in 0 .. Size - 1 /\ Size \in Nat
        BY <2>2, FilledRange, AudioAssumption
      <3>2. samples_filled' \in Int
        BY <2>2, <3>1 DEF samples_filled, TypeOK, Slots
      <3> QED
        BY <2>2, <3>1, <3>2 DEF TypeOK
    <2>4. mpc' = "copy" => req' <= samples_available'
      BY <1>6, <2>1, <2>2, <2>3 DEF LossInv, IsrPlay, samples_available
    <2>5. Stream!Play
      BY <1>6, <2>1, <2>2 DEF IsrPlay, Stream!Play, TypeOK
    <2> QED
      BY <1>0, <2>1, <2>4, <2>5 DEF LossInv
  <1>7. CASE DriverStep \/ IrqTaken \/ (Isr /\ ~\E c \in Contexts : IsrPlay(c)) \/ Drain
             \/ StartPlayback \/ StopPlayback \/ UNCHANGED vars
    <2>1. CASE SubmitCopy \/ StartPointers
      BY <1>4, <1>5, <2>1 DEF Stream!Next
    <2>2. CASE ~(SubmitCopy \/ StartPointers)
      <3>1. /\ UNCHANGED windowVars
            /\ mpc' = "copy" => mpc = "copy" /\ req' = req
        <4>1. CASE SubmitKick \/ SubmitUnlock \/ StartIsr \/ StartInts
          BY <4>1 DEF SubmitKick, SubmitUnlock, StartIsr, StartInts, windowVars, ringVars
        <4>2. CASE StartFill
          BY <4>2 DEF StartFill, windowVars, LossInv, OrderInv, AudioInv
        <4>3. CASE StartPlayback \/ StopPlayback
          BY <4>3 DEF StartPlayback, StopPlayback, windowVars, ringVars
        <4>4. CASE IrqTaken \/ Drain
          BY <4>4 DEF IrqTaken, Drain, windowVars, ringVars
        <4>5. CASE Isr /\ ~\E c \in Contexts : IsrPlay(c)
          BY <4>5 DEF Isr, IsrFull, IsrUnderrun, IrqReturn, CallReturn, windowVars, ringVars
        <4>6. CASE UNCHANGED vars
          BY <4>6 DEF vars, windowVars
        <4> QED
          BY <1>7, <2>2, <4>1, <4>2, <4>3, <4>4, <4>5, <4>6 DEF DriverStep
      <3> QED
        BY <1>2, <3>1
    <2> QED
      BY <2>1, <2>2
  <1> QED
    BY <1>3, <1>6, <1>7 DEF AnyStep, Stream!Next

\* What a budgeted client asks for is available, so that each step keeps to it.
LEMMA BudgetedStep ==
    ASSUME Budgeted, ~MayStop, LossInv, [Next]_vars
    PROVE  LossInv' /\ [Stream!Next]_(Stream!vars)
  <1>1. mpc = "idle" /\ mpc' = "copy" => \E n \in Requests : Submit(n)
    <2>1. CASE DriverStep
      BY <2>1 DEF DriverStep, SubmitCopy, SubmitKick, SubmitUnlock, StartFill, StartPointers, StartIsr, StartInts
    <2>2. CASE StartPlayback \/ StopPlayback \/ IrqTaken \/ Drain
      BY <2>2 DEF StartPlayback, StopPlayback, IrqTaken, Drain
    <2>3. CASE Isr
      BY <2>3 DEF Isr, IsrFull, IsrUnderrun, IsrPlay, IrqReturn, CallReturn
    <2>4. CASE UNCHANGED vars
      BY <2>4 DEF vars
    <2> QED BY <2>1, <2>2, <2>3, <2>4 DEF Next
  <1>2. mpc = "idle" /\ mpc' = "copy" => req' <= samples_available
    BY <1>1 DEF Submit
  <1> QED BY <1>2, NextIsAnyStep, LossInvStep

(* For a client that stays within samples_available() every accepted sample *)
(* is in the ring or was given to the FIFO.                                 *)
THEOREM BudgetedLosesNothing ==
    ASSUME Budgeted, ~MayStop
    PROVE  Spec => []NoSampleLost
  <1>1. LossInv /\ [Next]_vars => LossInv'
    BY BudgetedStep
  <1>2. LossInv => NoSampleLost
    BY DEF LossInv
  <1> QED
    BY <1>1, <1>2, LossInvInit, PTL DEF Spec

(* The driver of such a client implements the bounded sample stream: ring,  *)
(* pointers, handler and FIFO together are a first-in first-out queue of    *)
(* at most one sample less than the ring has slots.                         *)
THEOREM DriverImplementsStream ==
    ASSUME Budgeted, ~MayStop
    PROVE  Spec => ImplementsStream
  <1>1. Init => Stream!Init
    BY DEF Init, Stream!Init
  <1>2. LossInv /\ [Next]_vars => LossInv'
    BY BudgetedStep
  <1>3. LossInv /\ [Next]_vars => [Stream!Next]_(Stream!vars)
    BY BudgetedStep
  <1> QED
    BY <1>1, <1>2, <1>3, LossInvInit, PTL DEF Spec, ImplementsStream, Stream!Spec

-----------------------------------------------------------------------------
(* The game's loop as the client.                                           *)

\* Where the loop may be, for each point of the driver.
PlaceInv ==
    /\ cpc \in {"init", "other", "compared", "loop", "submitted"}
    /\ wrapped \in BOOLEAN /\ left \in Int /\ toSend \in Nat /\ before \in Nat
    /\ cpc = "init" => size = 0 /\ mpc = "idle"
    /\ cpc \in {"compared", "loop"} => mpc = "idle"
    /\ mpc \in Submitting => cpc = "submitted"
    /\ cpc = "submitted" => mpc \in Submitting \union {"idle"}
    /\ size = 0 => cpc = "init" \/ mpc \in {"start_fill", "start_playback"}

\* What the loop has computed is within what the ring can take: the handler
\* only makes room.
BudgetInv ==
    /\ cpc = "compared" /\ ~wrapped => playback <= fill
    /\ cpc = "loop" => left <= samples_available
    /\ cpc = "submitted" /\ mpc = "copy" =>
         accepted = before /\ req = toSend /\ toSend <= left /\ left <= samples_available
    /\ cpc = "submitted" /\ mpc # "copy" =>
         accepted - before = toSend /\ left - toSend <= samples_available

TetrisInv == LossInv /\ PlaceInv /\ BudgetInv

(* The invariant of the game and its parts, for the initial state.          *)
LEMMA TetrisInvInit == TetrisInit => TetrisInv
  <1> SUFFICES ASSUME TetrisInit PROVE TetrisInv
    OBVIOUS
  <1>1. LossInv
    BY LossInvInit DEF TetrisInit
  <1>2. /\ cpc = "init" /\ wrapped = FALSE /\ left = 0 /\ toSend = 0 /\ before = 0
        /\ size = 0 /\ mpc = "idle"
    BY DEF TetrisInit, Init
  <1>3. PlaceInv
    <2>1. wrapped \in BOOLEAN
      BY <1>2
    <2> QED BY <1>2, <2>1 DEF PlaceInv, Submitting
  <1>4. BudgetInv
    BY <1>2 DEF BudgetInv
  <1> QED BY <1>1, <1>3, <1>4 DEF TetrisInv

\* A submit within what is available takes all of it.
LEMMA CopyTakesAll ==
    ASSUME TypeOK, size = Size, req <= samples_available
    PROVE  LowPart + HighPart = req
  BY AudioAssumption
  DEF TypeOK, Slots, LowPart, HighPart, MinOf, samples_available, samples_filled, MinRingSize

\* The handler makes room, and does not overtake the fill pointer.
LEMMA PlayMakesRoom ==
    ASSUME LossInv, NEW c \in Contexts, IsrPlay(c)
    PROVE  /\ samples_available \in Int /\ samples_available' \in Int
           /\ samples_available <= samples_available'
           /\ playback <= fill => playback' <= fill'
  <1>1. TypeOK /\ TypeOK' /\ size = Size /\ size' = Size /\ space[c] \in 1 .. FifoDepth /\ fill # playback
    <2>1. TypeOK /\ size = Size /\ fill # playback
      BY DEF LossInv, OrderInv, AudioInv, TypeOK, IsrPlay
    <2>2. [AnyStep]_vars
      BY DEF AnyStep, Isr
    <2>3. AudioInv'
      BY <2>2, AudioInvStep DEF LossInv, OrderInv
    <2>4. space[c] \in 0 .. FifoDepth /\ space[c] >= 1
      BY <2>1 DEF TypeOK, IsrPlay
    <2> QED
      BY <2>1, <2>3, <2>4, AudioAssumption DEF AudioInv, IsrPlay
  <1>2. samples_filled' <= samples_filled
    BY PlayLosesNothing
  <1>p. /\ fill \in 0 .. Size - 1 /\ playback \in 0 .. Size - 1 /\ Size \in Nat
        /\ fill' \in 0 .. Size - 1 /\ playback' \in 0 .. Size - 1
    BY <1>1, AudioAssumption DEF TypeOK, Slots
  <1>3. samples_filled \in Int /\ samples_filled' \in Int
    BY <1>1, <1>p DEF samples_filled
  <1>4. playback <= fill => playback' <= fill'
    <2>1. fill' = fill /\ playback' = Wrap(playback + Sent(space[c]))
      BY DEF IsrPlay
    <2>2. Sent(space[c]) \in Nat /\ Sent(space[c]) <= samples_filled
      BY <1>1, SentBounds
    <2> QED
      BY <1>p, <2>1, <2>2 DEF samples_filled, Wrap
  <1>5. samples_available = Size - samples_filled - 1 /\ samples_available' = Size - samples_filled' - 1
    BY <1>1 DEF samples_available
  <1>6. samples_available \in Int /\ samples_available' \in Int
    BY <1>p, <1>3, <1>5
  <1>7. samples_available <= samples_available'
    <2>1. \A x, y \in Int : y <= x => Size - x - 1 <= Size - y - 1
      BY <1>p
    <2>2. Size - samples_filled - 1 <= Size - samples_filled' - 1
      BY <1>2, <1>3, <2>1
    <2> QED BY <1>5, <2>2
  <1> QED
    BY <1>4, <1>6, <1>7

\* Each step of the game and the driver is one of the driver with some client,
\* and what it submits is available.
LEMMA TetrisIsAnyStep ==
    ASSUME ~MayStop, TetrisInv, [TetrisNext]_allVars
    PROVE  /\ LossInv'
           /\ [Stream!Next]_(Stream!vars)
  <1> USE DEF TetrisInv
  <1>1. CASE LoopSubmit
    <2> DEFINE n == MinOf(Chunk, left)
    <2>1. n \in Nat /\ n <= left
      BY <1>1, TetrisAssumption DEF MinOf, LoopSubmit, PlaceInv
    <2>2. Submit(n)
      BY <1>1 DEF LoopSubmit
    <2>3. [AnyStep]_vars
      BY <2>1, <2>2 DEF AnyStep
    <2>4. left <= samples_available /\ samples_available \in Int /\ left \in Int
      BY <1>1, AudioAssumption
      DEF LoopSubmit, BudgetInv, PlaceInv, LossInv, OrderInv, AudioInv, TypeOK, Slots,
          samples_available, samples_filled
    <2>5. req' <= samples_available
      BY <2>1, <2>2, <2>4 DEF Submit
    <2> QED BY <2>3, <2>5, LossInvStep
  <1>2. CASE ClientStart
    <2>1. [AnyStep]_vars /\ mpc' = "start_fill"
      BY <1>2 DEF ClientStart, AnyStep, StartPlayback
    <2> QED BY <2>1, LossInvStep
  <1>3. CASE CompareRead \/ SubtractRead \/ LoopNext \/ LoopEnd \/ UNCHANGED allVars
    <2>1. UNCHANGED vars
      BY <1>3 DEF CompareRead, SubtractRead, LoopNext, LoopEnd, allVars
    <2>2. [AnyStep]_vars /\ mpc' = mpc
      BY <2>1 DEF vars
    <2> QED BY <2>2, LossInvStep
  <1>4. CASE DriverOrHardware
    <2>1. [AnyStep]_vars
      BY <1>4 DEF DriverOrHardware, AnyStep
    <2>2. ~(mpc = "idle" /\ mpc' = "copy")
      <3>1. CASE DriverStep
        BY <3>1 DEF DriverStep, SubmitCopy, SubmitKick, SubmitUnlock, StartFill, StartPointers, StartIsr, StartInts
      <3>2. CASE IrqTaken \/ Drain
        BY <3>2 DEF IrqTaken, Drain
      <3>3. CASE Isr
        BY <3>3 DEF Isr, IsrFull, IsrUnderrun, IsrPlay, IrqReturn, CallReturn
      <3> QED BY <1>4, <3>1, <3>2, <3>3 DEF DriverOrHardware
    <2> QED BY <2>1, <2>2, LossInvStep
  <1> QED BY <1>1, <1>2, <1>3, <1>4 DEF TetrisNext, ClientStep

\* The driver's steps that leave window and client alone keep the budget.
LEMMA BudgetKept ==
    ASSUME TetrisInv, UNCHANGED <<windowVars, clientVars, req>>,
           \/ mpc' = mpc
           \/ mpc = "kick" /\ mpc' = "unlock"
           \/ mpc = "unlock" /\ mpc' = "idle"
           \/ mpc = "start_fill" /\ mpc' = "start_playback"
           \/ mpc = "start_isr" /\ mpc' = "start_ints"
           \/ mpc = "start_ints" /\ mpc' = "idle"
    PROVE  PlaceInv' /\ BudgetInv'
  <1>1. /\ ring' = ring /\ size' = size /\ fill' = fill /\ playback' = playback
        /\ accepted' = accepted /\ req' = req
        /\ cpc' = cpc /\ wrapped' = wrapped /\ left' = left /\ toSend' = toSend /\ before' = before
    BY DEF windowVars, clientVars
  <1>2. PlaceInv'
    BY <1>1, AudioAssumption
    DEF TetrisInv, LossInv, OrderInv, AudioInv, PlaceInv, Submitting, MinRingSize
  <1>3. BudgetInv'
    BY <1>1 DEF TetrisInv, BudgetInv, PlaceInv, Submitting, samples_available, samples_filled
  <1> QED BY <1>2, <1>3

(* The driver and the hardware, running beside the game's loop.             *)
LEMMA DriverKeepsBudget ==
    ASSUME ~MayStop, TetrisInv, DriverOrHardware
    PROVE  PlaceInv' /\ BudgetInv'
  <1> USE DEF DriverOrHardware
  <1>a. /\ LossInv /\ AudioInv /\ TypeOK /\ PlaceInv /\ BudgetInv
        /\ cpc' = cpc /\ wrapped' = wrapped /\ left' = left /\ toSend' = toSend /\ before' = before
    BY DEF TetrisInv, LossInv, OrderInv, AudioInv, clientVars
  <1>1. CASE SubmitCopy
    <2>1. /\ size = Size /\ size' = size /\ Size # 0 /\ mpc = "copy" /\ mpc' = "kick" /\ cpc = "submitted"
          /\ accepted' = accepted + LowPart + HighPart
      BY <1>a, <1>1, AudioAssumption DEF SubmitCopy, AudioInv, Submitting, MinRingSize, PlaceInv
    <2>2. /\ accepted = before /\ req = toSend /\ toSend <= left /\ left <= samples_available
          /\ req \in Nat /\ accepted \in Nat /\ left \in Int /\ toSend \in Nat /\ before \in Nat
          /\ LowPart \in Nat /\ HighPart \in Nat
      BY <1>a, <2>1, CopyBounds DEF BudgetInv, PlaceInv, TypeOK
    <2>3. samples_filled \in 0 .. Size - 1 /\ samples_available = Size - samples_filled - 1 /\ Size \in Nat
      BY <1>a, <2>1, FilledRange, AudioAssumption DEF samples_available
    <2>4. LowPart + HighPart = req
      BY <1>a, <2>1, <2>2, <2>3, CopyTakesAll
    <2>5. samples_filled' = samples_filled + LowPart + HighPart
      <3>1. samples_filled' = FilledAt(NewFill, playback)
        BY <1>1, <2>1 DEF SubmitCopy, samples_filled, FilledAt, NewFill
      <3>2. req <= Size - samples_filled - 1
        BY <2>2, <2>3
      <3>3. samples_filled + LowPart + HighPart # Size
        BY <2>2, <2>3, <2>4, <3>2
      <3>4. \/ FilledAt(NewFill, playback) = samples_filled + LowPart + HighPart
            \/ samples_filled + LowPart + HighPart = Size
        BY <1>a, <2>1, CopyExtends
      <3> QED BY <3>1, <3>3, <3>4
    <2>6. accepted' - before = toSend /\ left - toSend <= samples_available'
      BY <2>1, <2>2, <2>3, <2>4, <2>5 DEF samples_available
    <2>7. PlaceInv'
      BY <1>a, <2>1 DEF PlaceInv, Submitting
    <2> QED BY <1>a, <2>1, <2>6, <2>7 DEF BudgetInv
  <1>2. CASE StartPointers
    <2>1. /\ mpc = "start_playback" /\ mpc' = "start_isr" /\ size' = Size /\ Size # 0
      BY <1>2, AudioAssumption DEF StartPointers, MinRingSize
    <2>2. cpc = "other"
      BY <1>a, <2>1 DEF PlaceInv, Submitting
    <2> QED BY <1>a, <2>1, <2>2 DEF PlaceInv, BudgetInv, Submitting
  <1>3. ASSUME NEW c \in Contexts, IsrPlay(c)
        PROVE  PlaceInv' /\ BudgetInv'
    <2>1. /\ samples_available \in Int /\ samples_available' \in Int
          /\ samples_available <= samples_available'
          /\ playback <= fill => playback' <= fill'
      BY <1>a, <1>3, PlayMakesRoom
    <2>2. mpc' = mpc /\ accepted' = accepted /\ req' = req /\ size' = size
      BY <1>3 DEF IsrPlay
    <2>3. PlaceInv'
      BY <1>a, <2>2 DEF PlaceInv
    <2> QED BY <1>a, <2>1, <2>2, <2>3 DEF BudgetInv, PlaceInv
  <1>4. CASE SubmitKick \/ SubmitUnlock \/ StartIsr \/ StartInts
    BY <1>4, BudgetKept DEF SubmitKick, SubmitUnlock, StartIsr, StartInts, windowVars, ringVars
  <1>5. CASE StartFill
    <2>1. size = 0 /\ fill = 0
      BY <1>5 DEF StartFill, TetrisInv, LossInv, OrderInv, AudioInv
    <2> QED BY <1>5, <2>1, BudgetKept DEF StartFill, windowVars
  <1>6. CASE IrqTaken \/ Drain
    BY <1>6, BudgetKept DEF IrqTaken, Drain, windowVars, ringVars
  <1>7. CASE Isr /\ ~\E c \in Contexts : IsrPlay(c)
    BY <1>7, BudgetKept DEF Isr, IsrFull, IsrUnderrun, IrqReturn, CallReturn, windowVars, ringVars
  <1> QED BY <1>1, <1>2, <1>3, <1>4, <1>5, <1>6, <1>7 DEF DriverStep

\* The steps of the game's loop.
LEMMA ClientKeepsBudget ==
    ASSUME TetrisInv, ClientStep
    PROVE  PlaceInv' /\ BudgetInv'
  <1>a. /\ LossInv /\ AudioInv /\ TypeOK /\ PlaceInv /\ BudgetInv
    BY DEF TetrisInv, LossInv, OrderInv, AudioInv
  <1>1. CASE ClientStart
    BY <1>a, <1>1 DEF ClientStart, StartPlayback, ringVars, PlaceInv, BudgetInv, Submitting
  <1>2. CASE CompareRead
    <2>1. /\ fill \in Int /\ playback \in Int /\ wrapped' = (fill < playback)
          /\ fill' = fill /\ playback' = playback /\ size' = size /\ mpc' = mpc /\ mpc = "idle"
          /\ cpc' = "compared" /\ left' = left /\ toSend' = toSend /\ before' = before
      BY <1>a, <1>2 DEF CompareRead, vars, ClientRuns, TypeOK, Slots
    <2>2. PlaceInv'
      BY <1>a, <2>1, <1>2 DEF PlaceInv, Submitting, CompareRead
    <2>3. wrapped' \/ playback' <= fill'
      <3>1. fill < playback \/ playback <= fill
        BY <2>1
      <3> QED BY <2>1, <3>1
    <2>4. cpc' = "compared"
      BY <2>1
    <2> QED BY <2>2, <2>3, <2>4 DEF BudgetInv
  <1>3. CASE SubtractRead
    <2>1. /\ fill' = fill /\ playback' = playback /\ size' = size /\ mpc' = mpc /\ mpc = "idle"
          /\ cpc = "compared" /\ cpc' = "loop" /\ wrapped' = wrapped /\ toSend' = toSend /\ before' = before
          /\ left' = size - FilledRead - 1
      BY <1>3 DEF SubtractRead, vars, ClientRuns
    <2>2. size = Size /\ Size \in Nat /\ fill \in 0 .. Size - 1 /\ playback \in 0 .. Size - 1
      BY <1>a, <2>1, AudioAssumption DEF PlaceInv, TypeOK, Slots
    <2>3. ~wrapped => playback <= fill
      BY <1>a, <2>1 DEF BudgetInv
    <2>4. left' \in Int /\ left' <= samples_available'
      BY <2>1, <2>2, <2>3 DEF FilledRead, samples_available, samples_filled
    <2>5. PlaceInv'
      BY <1>a, <2>1, <2>4 DEF PlaceInv, Submitting
    <2> QED BY <2>1, <2>4, <2>5 DEF BudgetInv
  <1>4. CASE LoopSubmit
    <2>1. /\ cpc = "loop" /\ cpc' = "submitted" /\ left > 0 /\ left' = left /\ wrapped' = wrapped
          /\ toSend' = MinOf(Chunk, left) /\ before' = accepted /\ Submit(MinOf(Chunk, left))
      BY <1>4 DEF LoopSubmit
    <2>2. /\ mpc' = "copy" /\ req' = MinOf(Chunk, left) /\ accepted' = accepted
          /\ fill' = fill /\ playback' = playback /\ size' = size /\ size # 0
      BY <2>1 DEF Submit, ringVars, SubmitRejected
    <2>3. left \in Int /\ MinOf(Chunk, left) \in Nat /\ MinOf(Chunk, left) <= left /\ accepted \in Nat
      BY <1>a, <2>1, TetrisAssumption DEF PlaceInv, MinOf, TypeOK
    <2>4. left <= samples_available /\ samples_available' = samples_available
      BY <1>a, <2>1, <2>2 DEF BudgetInv, samples_available, samples_filled
    <2>5. PlaceInv'
      BY <1>a, <2>1, <2>2, <2>3 DEF PlaceInv, Submitting
    <2> QED BY <2>1, <2>2, <2>3, <2>4, <2>5 DEF BudgetInv
  <1>5. CASE LoopNext
    <2>1. /\ cpc = "submitted" /\ mpc = "idle" /\ mpc' = mpc /\ wrapped' = wrapped /\ toSend' = 0 /\ before' = 0
          /\ fill' = fill /\ playback' = playback /\ size' = size
      BY <1>5 DEF LoopNext, ClientRuns, vars
    <2>2. accepted - before = toSend /\ left - toSend <= samples_available
      BY <1>a, <2>1 DEF BudgetInv
    <2>3. left' = left - toSend /\ cpc' = "loop"
      BY <1>5, <2>2 DEF LoopNext
    <2>4. samples_available' = samples_available
      BY <2>1 DEF samples_available, samples_filled
    <2>5. PlaceInv'
      BY <1>a, <2>1, <2>3 DEF PlaceInv, Submitting
    <2> QED BY <2>1, <2>2, <2>3, <2>4, <2>5 DEF BudgetInv
  <1>6. CASE LoopEnd
    <2>1. /\ cpc = "loop" /\ mpc = "idle" /\ mpc' = mpc /\ wrapped' = FALSE /\ toSend' = toSend
          /\ left' = left /\ before' = before /\ size' = size /\ cpc' = "other"
      BY <1>6 DEF LoopEnd, ClientRuns, vars
    <2> QED BY <1>a, <2>1 DEF PlaceInv, BudgetInv, Submitting
  <1> QED BY <1>1, <1>2, <1>3, <1>4, <1>5, <1>6 DEF ClientStep

(* The steps of both together.                                              *)
LEMMA TetrisInvStep ==
    ASSUME ~MayStop, TetrisInv, [TetrisNext]_allVars
    PROVE  TetrisInv'
  <1>1. LossInv'
    BY TetrisIsAnyStep
  <1>2. CASE DriverOrHardware
    BY <1>1, <1>2, DriverKeepsBudget DEF TetrisInv
  <1>3. CASE ClientStep
    BY <1>1, <1>3, ClientKeepsBudget DEF TetrisInv
  <1>4. CASE UNCHANGED allVars
    BY <1>1, <1>4, BudgetKept DEF TetrisInv, allVars, vars, windowVars
  <1> QED BY <1>2, <1>3, <1>4 DEF TetrisNext

(* In the game none of the chunks is cut short, for any size of ring, FIFO  *)
(* and chunk, although samples_available() reads the pointers twice with    *)
(* interrupts enabled: a stale comparison makes the budget negative, never  *)
(* too great.                                                               *)
THEOREM GameNeverPartial ==
    ASSUME ~MayStop
    PROVE  TetrisSpec => []NeverPartial
  <1>1. TetrisInv /\ [TetrisNext]_allVars => TetrisInv'
    BY TetrisInvStep
  <1>2. TetrisInv => NeverPartial
    BY DEF TetrisInv, BudgetInv, NeverPartial, ClientRuns
  <1> QED
    BY <1>1, <1>2, TetrisInvInit, PTL DEF TetrisSpec

(* No sample the game submits is lost: its own budget is as good as the one *)
(* the driver's theorem asks of a client.                                   *)
THEOREM GameLosesNothing ==
    ASSUME ~MayStop
    PROVE  TetrisSpec => []NoSampleLost
  <1>1. TetrisInv /\ [TetrisNext]_allVars => TetrisInv'
    BY TetrisInvStep
  <1>2. TetrisInv => NoSampleLost
    BY DEF TetrisInv, LossInv
  <1> QED
    BY <1>1, <1>2, TetrisInvInit, PTL DEF TetrisSpec

(* Game, driver and hardware together are the bounded stream: what is       *)
(* played is what the game submitted, in order and once.                    *)
THEOREM GameImplementsStream ==
    ASSUME ~MayStop
    PROVE  TetrisSpec => ImplementsStream
  <1>1. TetrisInit => Stream!Init
    BY DEF TetrisInit, Init, Stream!Init
  <1>2. TetrisInv /\ [TetrisNext]_allVars => TetrisInv'
    BY TetrisInvStep
  <1>3. TetrisInv /\ [TetrisNext]_allVars => [Stream!Next]_(Stream!vars)
    BY TetrisIsAnyStep
  <1> QED
    BY <1>1, <1>2, <1>3, TetrisInvInit, PTL DEF TetrisSpec, ImplementsStream, Stream!Spec

=============================================================================
