--------------------------- MODULE KeyboardProofs ---------------------------
(***************************************************************************)
(* Proofs about the way of a key: the reports of the USB keyboard, which   *)
(* the driver takes from the controller (Usb10Link), and the buffer of the *)
(* console in which the keys end (ConsoleInput).                           *)
(*                                                                         *)
(* ConsoleInput, for a buffer, a FIFO and strings of every length and for  *)
(* any number of bytes and keys: type correctness, and that the buffer     *)
(* holds what was accepted, in order, unless an interrupt fell within an   *)
(* append.                                                                 *)
(*                                                                         *)
(* Usb10Link, for any number of retries, tolerated errors, faults and      *)
(* reports: type correctness, that no report goes missing but for a known  *)
(* reason, and that the link implements a ReportChannel.  The argument is  *)
(* about who has the bus: a packet the driver looks at stays in the        *)
(* receiver until its data are read, and an ACK can only be on the wire    *)
(* while the driver waits for its end.                                     *)
(***************************************************************************)
EXTENDS ConsoleInput, Usb10Link, TLAPS

-----------------------------------------------------------------------------
(* The console's buffer. *)

\* Interrupts are off while console_poll() copies and empties the buffer.
MieInv == mie <=> loop \notin {"copy", "reset"}

\* An append that found room stays within the cells even when overtaken.
BoundInv ==
    /\ loop \in {"put_read", "puts_copy", "puts_read"} => len <= Size
    /\ loop \in {"grow_first", "store_first", "grow_last", "store_last", "puts_write"} =>
         reg <= Size

Prefix(n) == \A i \in Cells : i < n => cells[i] = settled + 1 + i

\* What an append has found and done so far, while nothing overtakes it.
CharInv ==
    /\ loop = "put_read" => len < Size
    /\ loop \in {"grow_first", "store_first", "grow_last"} =>
         /\ byte = accepted /\ settled + len + 1 = accepted
         /\ reg = len /\ len < Size /\ Prefix(len)
    /\ loop = "grow_last" => cells[reg] = byte
    /\ loop = "store_last" =>
         /\ settled + len = accepted
         /\ reg < len /\ byte = settled + 1 + reg
         /\ \A i \in Cells : i < len /\ i # reg => cells[i] = settled + 1 + i
    /\ loop = "put_zero" => reg = len

StringInv ==
    /\ loop = "puts_copy" => len + StringLen < Size
    /\ loop \in {"puts_read", "puts_write"} =>
         /\ settled + len + StringLen = accepted
         /\ len + StringLen < Size /\ Prefix(len + StringLen)
    /\ loop = "puts_write" => reg = len

\* Where the buffer is whole: between appends, and at some of their points.
WholeAt == AtRest \/ loop \in {"put_read", "put_end", "put_zero", "puts_copy"}

ByteInv ==
    ~raced => /\ len <= Size
              /\ WholeAt => Kept
              /\ loop = "reset" => reg = len
              /\ CharInv /\ StringInv

ConsoleInv == TypeOK /\ MieInv /\ BoundInv /\ ByteInv

-----------------------------------------------------------------------------
\* The initial state.
LEMMA ConsoleInit == Init => ConsoleInv
  <1> SUFFICES ASSUME Init PROVE ConsoleInv
    OBVIOUS
  <1>1. 0 \in Cells
    BY ConsoleAssumption DEF Cells
  <1>2. TypeOK
    <2>1. key \in [left: 1..2, quiet: BOOLEAN]
      BY DEF Init
    <2>2. cells \in [Cells -> Nat]
      BY DEF Init
    <2>3. /\ arrivals \in 0..MaxArrivals /\ fifo \in 0..FifoDepth /\ keys \in 0..MaxKeys
          /\ byte \in Nat /\ accepted \in Nat /\ settled \in 0..accepted
      BY ConsoleAssumption DEF Init
    <2>4. len \in Cells /\ reg \in Cells /\ loop \in Points
      BY <1>1 DEF Init, Points
    <2>5. /\ flag \in BOOLEAN /\ mie \in BOOLEAN /\ raced \in BOOLEAN
          /\ silent \in BOOLEAN
      BY DEF Init
    <2> QED BY <2>1, <2>2, <2>3, <2>4, <2>5 DEF TypeOK
  <1>3. MieInv /\ BoundInv
    BY DEF Init, MieInv, BoundInv
  <1>4. ByteInv
    BY ConsoleAssumption DEF Init, ByteInv, WholeAt, Kept, CharInv, StringInv, Cells
  <1> QED BY <1>2, <1>3, <1>4 DEF ConsoleInv

\* The handler keeps no more than there is room for.
LEMMA FitsType ==
    ASSUME TypeOK
    PROVE  /\ Fits \in Nat /\ len + Fits \in Cells
           /\ len <= Size => len + Fits <= Size
  BY ConsoleAssumption DEF TypeOK, Fits, Room, Cells

\* Going on to the next character keeps the key's type and ends at "put_test"
\* or "notify".
LEMMA AfterCharType ==
    ASSUME TypeOK, AfterChar
    PROVE  key' \in [left: 1..2, quiet: BOOLEAN] /\ loop' \in {"put_test", "notify"}
  <1>1. CASE key.left > 1
    <2>1. key' = [key EXCEPT !.left = key.left - 1] /\ loop' = "put_test"
      BY <1>1 DEF AfterChar
    <2>2. key.left - 1 \in 1..2
      BY <1>1 DEF TypeOK
    <2> QED BY <2>1, <2>2 DEF TypeOK
  <1>2. CASE ~(key.left > 1)
    BY <1>2 DEF AfterChar, TypeOK
  <1> QED BY <1>1, <1>2

-----------------------------------------------------------------------------
\* A byte enters the FIFO.
LEMMA ArriveStep ==
    ASSUME ConsoleInv, Arrive
    PROVE  ConsoleInv'
  <1> USE DEF ConsoleInv
  <1>1. TypeOK'
    BY ConsoleAssumption DEF TypeOK, Arrive
  <1>2. MieInv' /\ BoundInv'
    BY DEF MieInv, BoundInv, Arrive
  <1>3. ByteInv'
    BY DEF ByteInv, WholeAt, AtRest, Kept, CharInv, StringInv, Prefix, Arrive
  <1> QED BY <1>1, <1>2, <1>3

\* The handler's bytes do no harm outside of the windows.
LEMMA ReceiveStep ==
    ASSUME ConsoleInv, console_rx
    PROVE  ConsoleInv'
  <1> USE DEF ConsoleInv
  <1>1. /\ Fits \in Nat /\ len + Fits \in Cells
        /\ len <= Size => len + Fits <= Size
    BY FitsType
  <1>2. /\ len' = len + Fits /\ accepted' = accepted + Fits
        /\ loop' = loop /\ reg' = reg /\ byte' = byte /\ settled' = settled /\ mie' = mie
        /\ loop \notin {"copy", "reset"}
    BY DEF console_rx, MieInv
  <1>3. \A i \in Cells : cells'[i] = IF len <= i /\ i < len + Fits THEN accepted + 1 + i - len
                                     ELSE cells[i]
    BY DEF console_rx
  <1>4. TypeOK'
    <2>1. \A i \in Cells : (IF len <= i /\ i < len + Fits THEN accepted + 1 + i - len
                            ELSE cells[i]) \in Nat
      BY <1>1 DEF TypeOK, Cells
    <2>2. cells' \in [Cells -> Nat]
      BY <2>1 DEF console_rx
    <2>3. raced' \in BOOLEAN
      BY DEF console_rx
    <2>4. accepted' \in Nat /\ settled' \in 0..accepted'
      BY <1>1, <1>2 DEF TypeOK
    <2>5. fifo' \in 0..FifoDepth
      BY ConsoleAssumption DEF console_rx
    <2> QED BY <1>1, <1>2, <2>2, <2>3, <2>4, <2>5 DEF TypeOK, console_rx
  <1>5. MieInv' /\ BoundInv'
    BY <1>1, <1>2 DEF MieInv, BoundInv
  <1>6. ByteInv'
    <2> SUFFICES ASSUME ~raced'
                 PROVE  /\ len' <= Size
                        /\ WholeAt' => Kept'
                        /\ loop' = "reset" => reg' = len'
                        /\ CharInv' /\ StringInv'
      BY DEF ByteInv
    <2>1. ~raced /\ (Fits = 0 \/ loop \notin Windows)
      <3>1. ~raced /\ ~(Fits > 0 /\ loop \in Windows)
        BY DEF console_rx
      <3>2. Fits > 0 \/ Fits = 0
        BY <1>1
      <3> QED BY <3>1, <3>2
    <2>2. CASE Fits = 0
      <3>1. len' = len /\ accepted' = accepted
        BY <1>2, <2>2 DEF TypeOK, Cells
      <3>2. \A i \in Cells : cells'[i] = cells[i]
        BY <1>3, <2>2 DEF TypeOK, Cells
      <3>3. reg \in Cells
        BY DEF TypeOK
      <3> QED BY <1>2, <2>1, <3>1, <3>2, <3>3
              DEF ByteInv, WholeAt, AtRest, Kept, CharInv, StringInv, Prefix
    <2>3. CASE loop \notin Windows
      <3>1. len' <= Size
        BY <1>1, <1>2, <2>1 DEF ByteInv
      <3>2. ASSUME loop # "store_last" PROVE Kept'
        <4>1. Kept
          BY <1>2, <2>1, <2>3, <3>2 DEF ByteInv, WholeAt, AtRest, Windows, TypeOK, Points
        <4>2. settled' + len' = accepted'
          BY <1>1, <1>2, <4>1 DEF Kept, TypeOK, Cells
        <4>3. ASSUME NEW i \in Cells, i < len' PROVE cells'[i] = settled' + 1 + i
          <5>1. CASE i < len
            BY <1>2, <1>3, <4>1, <5>1 DEF Kept, TypeOK, Cells
          <5>2. CASE ~(i < len)
            <6>1. cells'[i] = accepted + 1 + i - len
              BY <1>2, <1>3, <4>3, <5>2 DEF TypeOK, Cells
            <6>2. settled + len = accepted
              BY <4>1 DEF Kept
            <6> QED BY <1>2, <6>1, <6>2 DEF TypeOK, Cells
          <5> QED BY <5>1, <5>2
        <4> QED BY <4>2, <4>3 DEF Kept
      <3>3. CharInv'
        <4>1. CASE loop = "store_last"
          <5>1. /\ settled + len = accepted /\ reg < len /\ byte = settled + 1 + reg
                /\ \A i \in Cells : i < len /\ i # reg => cells[i] = settled + 1 + i
            BY <2>1, <4>1 DEF ByteInv, CharInv
          <5>2. settled' + len' = accepted' /\ reg' < len' /\ byte' = settled' + 1 + reg'
            BY <1>1, <1>2, <5>1 DEF TypeOK, Cells
          <5>3. ASSUME NEW i \in Cells, i < len', i # reg' PROVE cells'[i] = settled' + 1 + i
            <6>1. CASE i < len
              BY <1>2, <1>3, <5>1, <5>3, <6>1 DEF TypeOK, Cells
            <6>2. CASE ~(i < len)
              <7>1. cells'[i] = accepted + 1 + i - len
                BY <1>2, <1>3, <5>3, <6>2 DEF TypeOK, Cells
              <7> QED BY <1>2, <5>1, <7>1 DEF TypeOK, Cells
            <6> QED BY <6>1, <6>2
          <5> QED BY <1>2, <4>1, <5>2, <5>3 DEF CharInv
        <4>2. CASE loop # "store_last"
          BY <1>2, <2>3, <4>2 DEF CharInv, Windows
        <4> QED BY <4>1, <4>2
      <3>4. StringInv'
        BY <1>2, <2>3 DEF StringInv, Windows
      <3> QED BY <1>2, <3>1, <3>2, <3>3, <3>4 DEF WholeAt, AtRest
    <2> QED BY <2>1, <2>2, <2>3
  <1> QED BY <1>4, <1>5, <1>6

-----------------------------------------------------------------------------
\* The event is taken down.
LEMMA CheckFlagStep ==
    ASSUME ConsoleInv, CheckFlag
    PROVE  ConsoleInv'
  <1> USE DEF ConsoleInv
  <1>1. TypeOK'
    BY ConsoleAssumption DEF TypeOK, Points, Cells, CheckFlag, input
  <1>2. MieInv' /\ BoundInv'
    BY ConsoleAssumption DEF TypeOK, Cells, MieInv, BoundInv, CheckFlag, Windows
  <1>3. ByteInv'
    BY ConsoleAssumption DEF TypeOK, Cells, ByteInv, WholeAt, AtRest, Kept, CharInv, StringInv, Prefix, CheckFlag
  <1> QED BY <1>1, <1>2, <1>3

\* The length is tested.
LEMMA PollStep ==
    ASSUME ConsoleInv, Poll
    PROVE  ConsoleInv'
  <1> USE DEF ConsoleInv
  <1>1. TypeOK'
    BY ConsoleAssumption DEF TypeOK, Points, Cells, Poll, input
  <1>2. MieInv' /\ BoundInv'
    BY ConsoleAssumption DEF TypeOK, Cells, MieInv, BoundInv, Poll, Windows
  <1>3. ByteInv'
    BY ConsoleAssumption DEF TypeOK, Cells, ByteInv, WholeAt, AtRest, Kept, CharInv, StringInv, Prefix, Poll
  <1> QED BY <1>1, <1>2, <1>3

\* Interrupts go off.
LEMMA LockStep ==
    ASSUME ConsoleInv, Lock
    PROVE  ConsoleInv'
  <1> USE DEF ConsoleInv
  <1>1. TypeOK'
    BY ConsoleAssumption DEF TypeOK, Points, Cells, Lock, input
  <1>2. MieInv' /\ BoundInv'
    BY ConsoleAssumption DEF TypeOK, Cells, MieInv, BoundInv, Lock, Windows
  <1>3. ByteInv'
    BY ConsoleAssumption DEF TypeOK, Cells, ByteInv, WholeAt, AtRest, Kept, CharInv, StringInv, Prefix, Lock
  <1> QED BY <1>1, <1>2, <1>3

\* A buffer that no append has spoilt is copied as a whole.
LEMMA CopyStep ==
    ASSUME ConsoleInv, Copy
    PROVE  ConsoleInv'
  <1> USE DEF ConsoleInv
  <1>1. TypeOK'
    BY ConsoleAssumption DEF TypeOK, Points, Cells, Copy, input
  <1>2. MieInv' /\ BoundInv'
    BY ConsoleAssumption DEF TypeOK, Cells, MieInv, BoundInv, Copy, Windows
  <1>3. ByteInv'
    BY ConsoleAssumption DEF TypeOK, Cells, ByteInv, WholeAt, AtRest, Kept, CharInv, StringInv, Prefix, Copy
  <1> QED BY <1>1, <1>2, <1>3

\* What was in the buffer is settled; the history starts afresh.
LEMMA ResetStep ==
    ASSUME ConsoleInv, Reset
    PROVE  ConsoleInv'
  <1> USE DEF ConsoleInv
  <1>1. TypeOK'
    <2>1. settled' \in 0..accepted
      <3>1. CASE raced
        BY <3>1 DEF Reset, TypeOK
      <3>2. CASE ~raced
        <4>1. settled + len = accepted /\ reg = len
          BY <3>2 DEF Reset, ByteInv, WholeAt, AtRest, Kept
        <4>2. settled' = settled + reg
          BY <3>2 DEF Reset
        <4> QED BY <4>1, <4>2 DEF TypeOK, Cells
      <3> QED BY <3>1, <3>2
    <2>2. len' \in Cells
      BY ConsoleAssumption DEF Reset, Cells
    <2>3. loop' \in Points /\ mie' \in BOOLEAN /\ raced' \in BOOLEAN /\ silent' \in BOOLEAN
      BY DEF Reset, Points
    <2> QED BY <2>1, <2>2, <2>3 DEF TypeOK, Reset, input
  <1>2. MieInv' /\ BoundInv'
    BY ConsoleAssumption DEF TypeOK, Cells, MieInv, BoundInv, Reset, Windows
  <1>3. ByteInv'
    BY ConsoleAssumption DEF TypeOK, Cells, ByteInv, WholeAt, AtRest, Kept, CharInv, StringInv, Prefix, Reset
  <1> QED BY <1>1, <1>2, <1>3

\* No key is pressed.
LEMMA NoKeyStep ==
    ASSUME ConsoleInv, NoKey
    PROVE  ConsoleInv'
  <1> USE DEF ConsoleInv
  <1>1. TypeOK'
    BY ConsoleAssumption DEF TypeOK, Points, Cells, NoKey, input
  <1>2. MieInv' /\ BoundInv'
    BY ConsoleAssumption DEF TypeOK, Cells, MieInv, BoundInv, NoKey, Windows
  <1>3. ByteInv'
    BY ConsoleAssumption DEF TypeOK, Cells, ByteInv, WholeAt, AtRest, Kept, CharInv, StringInv, Prefix, NoKey
  <1> QED BY <1>1, <1>2, <1>3

\* A character is let in only while there is room.
LEMMA PutTestStep ==
    ASSUME ConsoleInv, PutTest
    PROVE  ConsoleInv'
  <1> USE DEF ConsoleInv
  <1>1. /\ key' \in [left: 1..2, quiet: BOOLEAN]
        /\ loop' \in {"put_test", "notify"} \/ (loop' = "put_read" /\ len < Size)
    <2>1. CASE len >= Size
      <3>1. AfterChar
        BY <2>1 DEF PutTest
      <3> QED BY <3>1, AfterCharType
    <2>2. CASE ~(len >= Size)
      <3>1. loop' = "put_read" /\ key' = key
        BY <2>2 DEF PutTest
      <3>2. len < Size
        BY <2>2, ConsoleAssumption DEF TypeOK, Cells
      <3> QED BY <3>1, <3>2 DEF TypeOK
    <2> QED BY <2>1, <2>2
  <1>2. loop = "put_test" /\ UNCHANGED <<input, cells, len, flag, mie, reg, byte, keys, accepted,
                                        settled, raced, silent>>
    BY DEF PutTest
  <1>3. TypeOK'
    BY <1>1, <1>2 DEF TypeOK, Points, input
  <1>4. MieInv' /\ BoundInv'
    BY <1>1, <1>2, ConsoleAssumption DEF MieInv, BoundInv, TypeOK, Cells
  <1>5. ByteInv'
    BY <1>1, <1>2 DEF ByteInv, WholeAt, AtRest, Kept, CharInv, StringInv
  <1> QED BY <1>3, <1>4, <1>5

\* Its place is read, ...
LEMMA PutReadStep ==
    ASSUME ConsoleInv, PutRead
    PROVE  ConsoleInv'
  <1> USE DEF ConsoleInv
  <1>1. TypeOK'
    BY ConsoleAssumption DEF TypeOK, Points, Cells, PutRead, input
  <1>2. MieInv' /\ BoundInv'
    BY ConsoleAssumption DEF TypeOK, Cells, MieInv, BoundInv, PutRead, Windows
  <1>3. ByteInv'
    BY ConsoleAssumption DEF TypeOK, Cells, ByteInv, WholeAt, AtRest, Kept, CharInv, StringInv, Prefix, PutRead
  <1> QED BY <1>1, <1>2, <1>3

\* ... the length grows ...
LEMMA PutGrowStep ==
    ASSUME ConsoleInv, PutGrow
    PROVE  ConsoleInv'
  <1> USE DEF ConsoleInv
  <1>1. TypeOK'
    <2>1. len' \in Cells
      BY ConsoleAssumption DEF PutGrow, TypeOK, BoundInv, Cells
    <2>2. loop' \in Points
      BY DEF PutGrow, Points
    <2> QED BY <2>1, <2>2 DEF TypeOK, PutGrow, input
  <1>2. MieInv' /\ BoundInv'
    BY ConsoleAssumption DEF TypeOK, Cells, MieInv, BoundInv, PutGrow, Windows
  <1>3. ByteInv'
    <2> SUFFICES ASSUME ~raced' PROVE ByteInv'
      BY DEF ByteInv
    <2>1. /\ ~raced /\ len' = reg + 1 /\ cells' = cells /\ reg' = reg /\ byte' = byte
          /\ settled' = settled /\ accepted' = accepted
      BY DEF PutGrow
    <2>2. /\ byte = accepted /\ settled + len + 1 = accepted
          /\ reg = len /\ len < Size /\ Prefix(len)
      BY <2>1 DEF ByteInv, CharInv, PutGrow
    <2>3. len \in Nat /\ settled \in Nat /\ accepted \in Nat /\ Size \in Nat
      BY ConsoleAssumption DEF TypeOK, Cells
    <2>4. len' <= Size /\ settled' + len' = accepted' /\ reg' < len' /\ byte' = settled' + 1 + reg'
      BY <2>1, <2>2, <2>3
    <2>5. \A i \in Cells : i < len' /\ i # reg => cells'[i] = settled' + 1 + i
      BY <2>1, <2>2, <2>3 DEF Prefix, Cells
    <2>6. CASE loop = "grow_first"
      <3>1. loop' = "store_last"
        BY <2>6 DEF PutGrow
      <3> QED BY <2>1, <2>4, <2>5, <3>1 DEF ByteInv, WholeAt, AtRest, CharInv, StringInv
    <2>7. CASE loop = "grow_last"
      <3>1. loop' = "put_end"
        BY <2>7 DEF PutGrow
      <3>2. cells[reg] = byte
        BY <2>1, <2>7 DEF ByteInv, CharInv
      <3>3. \A i \in Cells : i < len' => cells'[i] = settled' + 1 + i
        BY <2>1, <2>4, <2>5, <3>2
      <3> QED BY <2>1, <2>4, <3>1, <3>3 DEF ByteInv, WholeAt, AtRest, Kept, CharInv, StringInv
    <2> QED BY <2>6, <2>7 DEF PutGrow
  <1> QED BY <1>1, <1>2, <1>3

\* ... and it is stored, in either order.
LEMMA PutStoreStep ==
    ASSUME ConsoleInv, PutStore
    PROVE  ConsoleInv'
  <1> USE DEF ConsoleInv
  <1>1. TypeOK'
    BY ConsoleAssumption DEF TypeOK, Points, Cells, PutStore, input
  <1>2. MieInv' /\ BoundInv'
    BY ConsoleAssumption DEF TypeOK, Cells, MieInv, BoundInv, PutStore, Windows
  <1>3. ByteInv'
    <2> SUFFICES ASSUME ~raced' PROVE ByteInv'
      BY DEF ByteInv
    <2>1. ~raced /\ len' = len /\ reg' = reg /\ byte' = byte /\ settled' = settled
          /\ accepted' = accepted
      BY DEF PutStore
    <2>2. /\ cells'[reg] = byte
          /\ \A i \in Cells : i # reg => cells'[i] = cells[i]
      BY DEF PutStore, TypeOK
    <2>3. CASE loop = "store_first"
      <3>1. /\ byte = accepted /\ settled + len + 1 = accepted
            /\ reg = len /\ len < Size /\ Prefix(len)
        BY <2>1, <2>3 DEF ByteInv, CharInv
      <3>2. \A i \in Cells : i < len => cells'[i] = settled + 1 + i
        BY <2>2, <3>1 DEF Prefix, TypeOK, Cells
      <3>3. loop' = "grow_last"
        BY <2>3 DEF PutStore
      <3> QED BY <2>1, <2>2, <3>1, <3>2, <3>3, ConsoleAssumption
              DEF ByteInv, WholeAt, AtRest, CharInv, StringInv, Prefix, TypeOK, Cells
    <2>4. CASE loop = "store_last"
      <3>1. /\ settled + len = accepted
            /\ reg < len /\ byte = settled + 1 + reg /\ len <= Size
            /\ \A i \in Cells : i < len /\ i # reg => cells[i] = settled + 1 + i
        BY <2>1, <2>4 DEF ByteInv, CharInv
      <3>2. Kept'
        BY <2>1, <2>2, <3>1 DEF Kept, TypeOK, Cells
      <3>3. loop' = "put_end"
        BY <2>4 DEF PutStore
      <3> QED BY <2>1, <3>1, <3>2, <3>3 DEF ByteInv, CharInv, StringInv
    <2> QED BY <2>3, <2>4 DEF PutStore
  <1> QED BY <1>1, <1>2, <1>3

\* The length is read again, ...
LEMMA PutEndStep ==
    ASSUME ConsoleInv, PutEnd
    PROVE  ConsoleInv'
  <1> USE DEF ConsoleInv
  <1>1. TypeOK'
    BY ConsoleAssumption DEF TypeOK, Points, Cells, PutEnd, input
  <1>2. MieInv' /\ BoundInv'
    BY ConsoleAssumption DEF TypeOK, Cells, MieInv, BoundInv, PutEnd, Windows
  <1>3. ByteInv'
    BY ConsoleAssumption DEF TypeOK, Cells, ByteInv, WholeAt, AtRest, Kept, CharInv, StringInv, Prefix, PutEnd
  <1> QED BY <1>1, <1>2, <1>3

\* ... and the zero stored behind what is in the buffer.
LEMMA PutZeroStep ==
    ASSUME ConsoleInv, PutZero
    PROVE  ConsoleInv'
  <1> USE DEF ConsoleInv
  <1>1. key' \in [left: 1..2, quiet: BOOLEAN] /\ loop' \in {"put_test", "notify"}
    BY AfterCharType DEF PutZero
  <1>2. loop = "put_zero" /\ UNCHANGED <<input, len, flag, mie, reg, byte, keys, accepted,
                                        settled, raced, silent>>
    BY DEF PutZero
  <1>3. cells' \in [Cells -> Nat]
    BY DEF PutZero, TypeOK
  <1>4. TypeOK'
    BY <1>1, <1>2, <1>3 DEF TypeOK, Points, input
  <1>5. MieInv' /\ BoundInv'
    BY <1>1, <1>2 DEF MieInv, BoundInv
  <1>6. ByteInv'
    <2>1. \A i \in Cells : i # reg => cells'[i] = cells[i]
      BY DEF PutZero, TypeOK
    <2>2. ASSUME ~raced PROVE Kept'
      <3>1. Kept /\ reg = len
        BY <1>2, <2>2 DEF ByteInv, WholeAt, CharInv
      <3> QED BY <1>2, <2>1, <3>1 DEF Kept, TypeOK, Cells
    <2> QED BY <1>1, <1>2, <2>2 DEF ByteInv, WholeAt, AtRest, CharInv, StringInv
  <1> QED BY <1>4, <1>5, <1>6

\* A string is let in only while there is room.
LEMMA PutsTestStep ==
    ASSUME ConsoleInv, PutsTest
    PROVE  ConsoleInv'
  <1> USE DEF ConsoleInv
  <1>1. TypeOK'
    BY ConsoleAssumption DEF TypeOK, Points, Cells, PutsTest, input
  <1>2. MieInv' /\ BoundInv'
    BY ConsoleAssumption DEF TypeOK, Cells, MieInv, BoundInv, PutsTest, Windows
  <1>3. ByteInv'
    BY ConsoleAssumption DEF TypeOK, Cells, ByteInv, WholeAt, AtRest, Kept, CharInv, StringInv, Prefix, PutsTest
  <1> QED BY <1>1, <1>2, <1>3

\* It is copied behind the buffer's bytes, ...
LEMMA PutsCopyStep ==
    ASSUME ConsoleInv, PutsCopy
    PROVE  ConsoleInv'
  <1> USE DEF ConsoleInv
  <1>1. TypeOK'
    BY ConsoleAssumption DEF TypeOK, Points, Cells, PutsCopy, input
  <1>2. MieInv' /\ BoundInv'
    BY ConsoleAssumption DEF TypeOK, Cells, MieInv, BoundInv, PutsCopy, Windows
  <1>3. ByteInv'
    <2> SUFFICES ASSUME ~raced' PROVE ByteInv'
      BY DEF ByteInv
    <2>1. /\ ~raced /\ len' = len /\ settled' = settled /\ accepted' = accepted + StringLen
          /\ loop = "puts_copy" /\ loop' = "puts_read"
      BY DEF PutsCopy
    <2>2. Kept /\ len + StringLen < Size
      BY <2>1 DEF ByteInv, WholeAt, StringInv
    <2>3. settled' + len' + StringLen = accepted'
      BY <2>1, <2>2, ConsoleAssumption DEF Kept, TypeOK, Cells
    <2>4. ASSUME NEW i \in Cells, i < len + StringLen PROVE cells'[i] = settled + 1 + i
      <3>1. cells'[i] = IF len <= i /\ i < len + StringLen THEN accepted + 1 + i - len
                        ELSE cells[i]
        BY DEF PutsCopy
      <3>2. CASE i < len
        BY <2>2, <3>1, <3>2 DEF Kept, TypeOK, Cells
      <3>3. CASE ~(i < len)
        <4>1. cells'[i] = accepted + 1 + i - len
          BY <2>4, <3>1, <3>3 DEF TypeOK, Cells
        <4>2. settled + len = accepted
          BY <2>2 DEF Kept
        <4> QED BY <4>1, <4>2 DEF TypeOK, Cells
      <3> QED BY <3>2, <3>3
    <2>5. Prefix(len + StringLen)'
      BY <2>1, <2>4 DEF Prefix
    <2>6. len' <= Size
      BY <2>1, <2>2, ConsoleAssumption DEF TypeOK, Cells
    <2> QED BY <2>1, <2>2, <2>3, <2>5, <2>6 DEF ByteInv, WholeAt, AtRest, CharInv, StringInv
  <1> QED BY <1>1, <1>2, <1>3

\* ... the length is read ...
LEMMA PutsReadStep ==
    ASSUME ConsoleInv, PutsRead
    PROVE  ConsoleInv'
  <1> USE DEF ConsoleInv
  <1>1. TypeOK'
    BY ConsoleAssumption DEF TypeOK, Points, Cells, PutsRead, input
  <1>2. MieInv' /\ BoundInv'
    BY ConsoleAssumption DEF TypeOK, Cells, MieInv, BoundInv, PutsRead, Windows
  <1>3. ByteInv'
    BY ConsoleAssumption DEF TypeOK, Cells, ByteInv, WholeAt, AtRest, Kept, CharInv, StringInv, Prefix, PutsRead
  <1> QED BY <1>1, <1>2, <1>3

\* ... and grows by the string's.
LEMMA PutsWriteStep ==
    ASSUME ConsoleInv, PutsWrite
    PROVE  ConsoleInv'
  <1> USE DEF ConsoleInv
  <1>1. TypeOK'
    <2>1. len' \in Cells
      BY ConsoleAssumption DEF PutsWrite, TypeOK, BoundInv, Cells
    <2>2. loop' \in Points
      BY DEF PutsWrite, Points
    <2> QED BY <2>1, <2>2 DEF TypeOK, PutsWrite, input
  <1>2. MieInv' /\ BoundInv'
    BY ConsoleAssumption DEF TypeOK, Cells, MieInv, BoundInv, PutsWrite, Windows
  <1>3. ByteInv'
    BY ConsoleAssumption DEF TypeOK, Cells, ByteInv, WholeAt, AtRest, Kept, CharInv, StringInv, Prefix, PutsWrite
  <1> QED BY <1>1, <1>2, <1>3

\* The event is raised.
LEMMA NotifyStep ==
    ASSUME ConsoleInv, Notify
    PROVE  ConsoleInv'
  <1> USE DEF ConsoleInv
  <1>1. TypeOK'
    BY ConsoleAssumption DEF TypeOK, Points, Cells, Notify, input
  <1>2. MieInv' /\ BoundInv'
    BY ConsoleAssumption DEF TypeOK, Cells, MieInv, BoundInv, Notify, Windows
  <1>3. ByteInv'
    BY ConsoleAssumption DEF TypeOK, Cells, ByteInv, WholeAt, AtRest, Kept, CharInv, StringInv, Prefix, Notify
  <1> QED BY <1>1, <1>2, <1>3

\* A key is pressed.
LEMMA KeyStep ==
    ASSUME ConsoleInv, NEW kind \in Kinds, NEW quiet \in BOOLEAN, Key(kind, quiet)
    PROVE  ConsoleInv'
  <1> USE DEF ConsoleInv
  <1>1. TypeOK'
    <2>1. key' \in [left: 1..2, quiet: BOOLEAN]
      BY DEF Key
    <2> QED BY <2>1, ConsoleAssumption DEF TypeOK, Points, Key, input
  <1>2. MieInv' /\ BoundInv'
    BY DEF MieInv, BoundInv, Key
  <1>3. ByteInv'
    BY DEF ByteInv, WholeAt, AtRest, Kept, CharInv, StringInv, Key
  <1> QED BY <1>1, <1>2, <1>3

-----------------------------------------------------------------------------
LEMMA ConsoleNext == ConsoleInv /\ [Next]_vars => ConsoleInv'
  <1> SUFFICES ASSUME ConsoleInv, [Next]_vars PROVE ConsoleInv'
    OBVIOUS
  <1>1. CASE console_poll
    BY <1>1, PollStep, LockStep, CopyStep, ResetStep DEF console_poll
  <1>2. CASE put_queue
    BY <1>2, PutTestStep, PutReadStep, PutGrowStep, PutStoreStep, PutEndStep, PutZeroStep
       DEF put_queue
  <1>3. CASE puts_queue
    BY <1>3, PutsTestStep, PutsCopyStep, PutsReadStep, PutsWriteStep DEF puts_queue
  <1>4. CASE CheckFlag \/ NoKey \/ Notify
    BY <1>4, CheckFlagStep, NoKeyStep, NotifyStep
  <1>5. CASE Arrive \/ console_rx
    BY <1>5, ArriveStep, ReceiveStep
  <1>6. CASE \E kind \in Kinds, quiet \in BOOLEAN : Key(kind, quiet)
    BY <1>6, KeyStep
  <1>7. CASE UNCHANGED vars
    BY <1>7 DEF vars, input, ConsoleInv, TypeOK, MieInv, BoundInv, ByteInv, WholeAt, AtRest,
                Kept, CharInv, StringInv, Prefix
  <1> QED BY <1>1, <1>2, <1>3, <1>4, <1>5, <1>6, <1>7 DEF Next, Loop

LEMMA ConsoleAlways == Spec => []ConsoleInv
  BY ConsoleInit, ConsoleNext, PTL DEF Spec

\* Every variable keeps its type: an append that is overtaken reaches no
\* further behind console_rx_buf than a string's length.
THEOREM TypeCorrect == Spec => []TypeOK
  <1>1. ConsoleInv => TypeOK
    BY DEF ConsoleInv
  <1> QED BY <1>1, ConsoleAlways, PTL

\* Only an interrupt within an append of the keyboard makes console_rx_buf
\* lose or mix up bytes, and only until console_poll() empties it.
THEOREM BytesAreKept == Spec => []BytesKept
  <1>1. ConsoleInv => BytesKept
    BY DEF ConsoleInv, ByteInv, WholeAt, BytesKept
  <1> QED BY <1>1, ConsoleAlways, PTL

\* Each step of handler and loop leaves waiting bytes announced: the event goes
\* down only where the loop goes on to look at the length, and what the loop has
\* seen it takes.
LEMMA AnnouncedNext ==
    ASSUME ConsoleInv, BytesAnnounced, [Next]_vars
    PROVE  BytesAnnounced'
  <1> USE DEF BytesAnnounced, Taking, Appending, Windows
  <1>1. CASE Arrive
    BY <1>1 DEF Arrive
  <1>2. CASE console_rx
    BY <1>2 DEF console_rx
  <1>3. CASE CheckFlag
    BY <1>3 DEF CheckFlag
  <1>4. CASE console_poll
    <2>1. CASE Poll
      BY <2>1, ConsoleAssumption DEF Poll, ConsoleInv, TypeOK, Cells
    <2>2. CASE Lock
      BY <2>2 DEF Lock
    <2>3. CASE Copy
      BY <2>3 DEF Copy
    <2>4. CASE Reset
      BY <2>4 DEF Reset
    <2> QED BY <1>4, <2>1, <2>2, <2>3, <2>4 DEF console_poll
  <1>5. CASE NoKey
    BY <1>5 DEF NoKey
  <1>6. CASE put_queue
    <2>1. CASE PutTest
      BY <2>1 DEF PutTest, AfterChar
    <2>2. CASE PutRead
      BY <2>2 DEF PutRead
    <2>3. CASE PutGrow
      BY <2>3 DEF PutGrow
    <2>4. CASE PutStore
      BY <2>4 DEF PutStore
    <2>5. CASE PutEnd
      BY <2>5 DEF PutEnd
    <2>6. CASE PutZero
      BY <2>6 DEF PutZero, AfterChar
    <2> QED BY <1>6, <2>1, <2>2, <2>3, <2>4, <2>5, <2>6 DEF put_queue
  <1>7. CASE puts_queue
    <2>1. CASE PutsTest
      BY <2>1 DEF PutsTest
    <2>2. CASE PutsCopy
      BY <2>2 DEF PutsCopy
    <2>3. CASE PutsRead
      BY <2>3 DEF PutsRead
    <2>4. CASE PutsWrite
      BY <2>4 DEF PutsWrite
    <2> QED BY <1>7, <2>1, <2>2, <2>3, <2>4 DEF puts_queue
  <1>8. CASE Notify
    BY <1>8 DEF Notify
  <1>9. ASSUME NEW kind \in Kinds, NEW quiet \in BOOLEAN, Key(kind, quiet)
        PROVE  BytesAnnounced'
    BY <1>9 DEF Key
  <1>10. CASE UNCHANGED vars
    BY <1>10 DEF vars, input
  <1> QED BY <1>1, <1>2, <1>3, <1>4, <1>5, <1>6, <1>7, <1>8, <1>9, <1>10 DEF Next, Loop

\* No byte is left in the buffer without the console's event, whatever comes
\* between the loop's taking the event down and its look at the length, and
\* wherever the interrupt falls within an append of the keyboard.
THEOREM BytesAreAnnounced == Spec => []BytesAnnounced
  <1>1. Init => BytesAnnounced
    BY ConsoleAssumption DEF Init, BytesAnnounced
  <1> QED BY <1>1, ConsoleAlways, AnnouncedNext, PTL DEF Spec

-----------------------------------------------------------------------------
(* The USB link. *)

\* Where the driver goes from its look at a packet to the ACK, and from there
\* to the data.
Reaching == {"look", "crc", "ack", "begun"}
Judging == {"complete", "judge", "data"}

\* The controller is busy outside its idle states, and RECEIVED is down while
\* a token or a packet is on the bus.  From its look at the packet to the ACK
\* the driver has the bus to itself.
BusInv ==
    /\ busy <=> state \in {"send", "receive", "keepalive"}
    /\ state \in {"send", "receive"} \/ air # Silence => ~received
    /\ state = "send" => air = Silence \/ token = "deaf"
    /\ pc \in Reaching => air = Silence
    /\ pc \in Reaching \cup {"complete"} => state # "receive"

\* A command that can still be taken is the one the driver waits for; an ACK
\* is on the wire only while the driver waits for its end.
CommandInv ==
    /\ start /\ state \in {"idle", "receive"} =>
         cmd = (IF pc = "begun" THEN "ack" ELSE "in") /\ pc \notin Judging
    /\ state = "send" /\ token \in {"ack", "mixed"} => pc \in {"begun", "complete"}

\* An ACK sent now, or on the wire, would be for the packet in the receiver.
Answering ==
    \/ received
    \/ pc \in Reaching
    \/ pc = "complete" /\ state = "send"

\* The packet on its way is the oldest report without an ACK; the one in the
\* receiver may be older, and is that one if the device waits for its ACK.
PacketInv ==
    /\ \/ air \in {Silence, Garbage, Packet("nak", 0)}
       \/ air = Packet("data", acked + 1) /\ acked < made
    /\ awaiting => acked < made
    /\ rx.kind # "none"
    /\ rx.kind = "data" => rx.pid = rx.report % 2 /\ rx.report \in 1..made
                           /\ last <= rx.report /\ rx.report <= acked + 1
    /\ pc \in {"crc", "ack", "begun"} \cup Judging => got = rx /\ rx.kind # "nak"
    /\ pc \in {"ack", "begun"} \cup Judging => rx.kind = "data"
    /\ Answering /\ awaiting /\ ~echo /\ rx.kind = "data" => rx.report = acked + 1

\* The toggle the driver keeps is that of the report handed over last.
ToggleInv ==
    /\ last <= acked + 1
    /\ recv = IF pc = "data" THEN rx.pid ELSE last % 2
    /\ pc = "data" => rx.pid # last % 2

\* The packet in the receiver has not been handed over.
Fresh == rx.kind = "data" /\ rx.pid # last % 2

Handing == Fresh /\ pc \in Judging

\* What the device is rid of is handed over, about to be, or excused; and when
\* the toggles have fallen out of step so is the report that is dropped next.
MissingInv ==
    /\ Fresh => rx.report \in {acked, acked + 1}
    /\ Fresh /\ (pc \notin Judging \/ state = "send") => rx.report = acked + 1
    /\ ~Handing => (last + 1)..acked \subseteq excused
    /\ ~Handing /\ acked > last /\ acked % 2 # last % 2 => acked + 1 \in excused

\* A client that goes on polling has not counted too many errors.
CountInv == pc # "gone" => errors <= ErrorLimit

\* LinkTypeOK, actor by actor.
ControllerTypeOK ==
    /\ state \in States /\ start \in BOOLEAN /\ cmd \in {"none", "in", "ack"}
    /\ token \in {"in", "ack", "mixed", "deaf"}
    /\ busy \in BOOLEAN /\ received \in BOOLEAN /\ due \in BOOLEAN /\ rx \in Packets

DeviceTypeOK ==
    /\ air \in Packets /\ made \in 0..MaxReports /\ acked \in 0..made
    /\ awaiting \in BOOLEAN /\ plugged \in BOOLEAN
    /\ echo \in BOOLEAN /\ excused \subseteq 1..(MaxReports + 2) /\ faults \in 0..MaxFaults

DriverTypeOK ==
    /\ pc \in LinkPoints /\ retry \in 0..Retries /\ got \in Packets /\ recv \in {0, 1}
    /\ errors \in 0..(ErrorLimit + 1) /\ ret \in {0, 6, 8, 9, 10}
    /\ last \in 0..made /\ handed \in Nat

LinkInv ==
    /\ LinkTypeOK /\ BusInv /\ CommandInv
    /\ PacketInv /\ ToggleInv /\ MissingInv /\ CountInv

(* Toggles alternate from one report to the next.                           *)
LEMMA Parity ==
    ASSUME NEW n \in Nat
    PROVE  n % 2 \in {0, 1} /\ (n + 1) % 2 = 1 - (n % 2)
  OBVIOUS

\* What a packet is made of.
LEMMA PacketFacts ==
    /\ Silence \in Packets /\ Garbage \in Packets
    /\ Silence.kind = "none" /\ Garbage.kind = "bad"
    /\ \A r \in 0..MaxReports :
         /\ Packet("data", r) \in Packets /\ Packet("nak", 0) \in Packets
         /\ Packet("data", r).kind = "data" /\ Packet("nak", 0).kind = "nak"
         /\ Packet("data", r).report = r /\ Packet("data", r).pid = r % 2
    /\ Silence # Garbage
  BY Parity, LinkAssumption DEF Silence, Garbage, Packet, Packets

\* The types of controller, device and driver make up LinkTypeOK.
LEMMA TypeParts ==
    /\ LinkTypeOK <=> ControllerTypeOK /\ DeviceTypeOK /\ DriverTypeOK
    /\ LinkTypeOK' <=> ControllerTypeOK' /\ DeviceTypeOK' /\ DriverTypeOK'
  BY DEF LinkTypeOK, ControllerTypeOK, DeviceTypeOK, DriverTypeOK

\* Who takes no part in a step keeps its types.
LEMMA TypesStay ==
    ASSUME LinkTypeOK
    PROVE  /\ UNCHANGED controller => ControllerTypeOK'
           /\ UNCHANGED <<device, history, faults>> => DeviceTypeOK'
           /\ UNCHANGED <<driver, made>> => DriverTypeOK'
  <1>1. UNCHANGED controller => ControllerTypeOK'
    BY TypeParts DEF ControllerTypeOK, controller
  <1>2. UNCHANGED <<device, history, faults>> => DeviceTypeOK'
    BY TypeParts DEF DeviceTypeOK, device, history
  <1>3. UNCHANGED <<driver, made>> => DriverTypeOK'
    BY TypeParts DEF DriverTypeOK, driver
  <1> QED BY <1>1, <1>2, <1>3

\* The initial state.
LEMMA LinkInitInv == LinkInit => LinkInv
  <1> SUFFICES ASSUME LinkInit PROVE LinkInv
    OBVIOUS
  <1> USE LinkAssumption, PacketFacts DEF LinkInit
  <1>1. LinkTypeOK
    <2>1. state \in States /\ pc \in LinkPoints
      BY DEF States, LinkPoints
    <2>2. rx \in Packets /\ air \in Packets /\ got \in Packets
      OBVIOUS
    <2>3. made \in 0..MaxReports /\ acked \in 0..made /\ last \in 0..made /\ handed \in Nat
          /\ retry \in 0..Retries /\ errors \in 0..(ErrorLimit + 1) /\ faults \in 0..MaxFaults
      OBVIOUS
    <2>4. excused \subseteq 1..(MaxReports + 2)
      OBVIOUS
    <2> QED BY <2>1, <2>2, <2>3, <2>4 DEF LinkTypeOK
  <1>2. BusInv /\ CommandInv /\ CountInv
    BY DEF BusInv, CommandInv, CountInv, Reaching, Judging
  <1>3. PacketInv
    BY DEF PacketInv, Answering, Reaching, Judging
  <1>4. ToggleInv
    BY DEF ToggleInv
  <1>5. MissingInv
    <2>1. (last + 1)..acked = {}
      OBVIOUS
    <2> QED BY <2>1 DEF MissingInv, Fresh, Handing
  <1> QED BY <1>1, <1>2, <1>3, <1>4, <1>5 DEF LinkInv

-----------------------------------------------------------------------------
(* Steps that move neither reports nor toggles: what they may do with the   *)
(* driver and the controller without touching what is known of the packets. *)
LEMMA PacketFrame ==
    ASSUME LinkInv,
           UNCHANGED <<rx, acked, made, last, recv, echo, excused>>,
           air' \in {air, Silence, Garbage}, awaiting' => awaiting,
           Answering' => Answering,
           pc' \in {"crc", "ack", "begun"} \cup Judging => got' = rx /\ rx.kind # "nak",
           pc' \in {"ack", "begun"} \cup Judging => rx.kind = "data",
           pc \in Judging /\ Fresh => pc' \in Judging,
           pc' \notin Judging \/ state' = "send" => pc \notin Judging \/ state = "send" \/ ~Fresh,
           pc' = "data" <=> pc = "data"
    PROVE  PacketInv' /\ ToggleInv' /\ MissingInv'
  <1> USE DEF LinkInv
  <1>1. PacketInv'
    <2>1. Silence' = Silence /\ Garbage' = Garbage /\ Packet("nak", 0)' = Packet("nak", 0)
          /\ Packet("data", acked + 1)' = Packet("data", acked + 1)
      BY DEF Silence, Garbage, Packet
    <2>2. \/ air' \in {Silence, Garbage, Packet("nak", 0)}
          \/ air' = Packet("data", acked + 1) /\ acked < made
      BY DEF PacketInv
    <2>3. awaiting' => acked' < made'
      BY DEF PacketInv
    <2> QED BY <2>1, <2>2, <2>3 DEF PacketInv
  <1>2. ToggleInv'
    BY DEF ToggleInv
  <1>3. MissingInv'
    <2>1. Fresh' <=> Fresh
      BY DEF Fresh
    <2>2. Handing => Handing'
      BY <2>1 DEF Handing
    <2> QED BY <2>1, <2>2 DEF MissingInv, Handing
  <1> QED BY <1>1, <1>2, <1>3

\* The device makes a report.
LEMMA MakeReportKeeps == ASSUME LinkInv, MakeReport PROVE LinkInv'
  <1> USE LinkAssumption DEF LinkInv
  <1>1. /\ made < MaxReports /\ made' = made + 1
        /\ UNCHANGED <<controller, air, acked, awaiting, plugged, driver, faults, history>>
    BY DEF MakeReport
  <1>2. LinkTypeOK'
    <2>1. ControllerTypeOK'
      BY <1>1, TypesStay
    <2>2. DeviceTypeOK'
      BY <1>1, TypeParts DEF DeviceTypeOK, history
    <2>3. DriverTypeOK'
      BY <1>1, TypeParts DEF DriverTypeOK, DeviceTypeOK, driver
    <2> QED BY <2>1, <2>2, <2>3, TypeParts
  <1>3. BusInv' /\ CommandInv' /\ CountInv'
    BY <1>1 DEF BusInv, CommandInv, CountInv, controller, driver, Silence
  <1>4. PacketInv'
    <2>1. made \in Nat /\ acked \in Nat
      BY DEF LinkTypeOK
    <2>2. Answering' <=> Answering
      BY <1>1 DEF Answering, controller, driver
    <2> QED BY <1>1, <2>1, <2>2 DEF PacketInv, controller, driver, history, Silence, Garbage, Packet
  <1>5. ToggleInv'
    BY <1>1 DEF ToggleInv, controller, driver
  <1>6. MissingInv'
    BY <1>1 DEF MissingInv, Fresh, Handing, controller, driver, history
  <1> QED BY <1>2, <1>3, <1>4, <1>5, <1>6

\* The controller takes a command: the one the driver waits for.
LEMMA TakeKeeps == ASSUME LinkInv, Take PROVE LinkInv'
  <1> USE LinkAssumption DEF LinkInv
  <1>1. /\ state = "idle" /\ start /\ state' = "send" /\ busy' = TRUE /\ received' = FALSE
        /\ air = Silence => token' = cmd /\ air' = air
        /\ air # Silence => token' = "deaf" /\ air' \in {Silence, Garbage}
        /\ UNCHANGED <<start, cmd, due, rx, made, acked, awaiting, plugged, driver, faults, history>>
    BY DEF Take
  <1>2. cmd = (IF pc = "begun" THEN "ack" ELSE "in") /\ pc \notin Judging
    BY <1>1 DEF CommandInv
  <1>3. LinkTypeOK'
    <2>1. ControllerTypeOK'
      BY <1>1, <1>2, TypeParts DEF ControllerTypeOK, States
    <2>2. DeviceTypeOK'
      BY <1>1, PacketFacts, TypeParts DEF DeviceTypeOK, history
    <2>3. DriverTypeOK'
      BY <1>1, TypesStay
    <2> QED BY <2>1, <2>2, <2>3, TypeParts
  <1>4. BusInv'
    BY <1>1 DEF BusInv, driver, Silence, Reaching
  <1>5. CommandInv' /\ CountInv'
    BY <1>1, <1>2 DEF CommandInv, CountInv, driver
  <1>6. Answering' => Answering
    BY <1>1, <1>2 DEF Answering, driver, Judging
  <1>7. PacketInv' /\ ToggleInv' /\ MissingInv'
    BY <1>1, <1>2, <1>6, PacketFrame DEF PacketInv, driver, history
  <1> QED BY <1>3, <1>4, <1>5, <1>7

\* A packet or noise begins: not while the driver is at a packet.
LEMMA ActivityKeeps == ASSUME LinkInv, Activity PROVE LinkInv'
  <1> USE LinkAssumption DEF LinkInv
  <1>1. /\ state = "idle" /\ MayBegin /\ state' = "receive" /\ busy' = TRUE /\ received' = FALSE
        /\ faults' \in 0..MaxFaults
        /\ UNCHANGED <<start, cmd, token, due, rx, device, driver, history>>
    BY DEF Activity, Fault, LinkTypeOK
  <1>2. LinkTypeOK'
    <2>1. ControllerTypeOK'
      BY <1>1, TypeParts DEF ControllerTypeOK, States
    <2>2. DeviceTypeOK'
      BY <1>1, TypeParts DEF DeviceTypeOK, device, history
    <2>3. DriverTypeOK'
      BY <1>1, TypesStay DEF device
    <2> QED BY <2>1, <2>2, <2>3, TypeParts
  <1>3. pc \notin Reaching \cup {"complete"}
    BY <1>1 DEF MayBegin, BusInv, Reaching, BusyHands
  <1>4. BusInv' /\ CommandInv' /\ CountInv'
    BY <1>1, <1>3 DEF BusInv, CommandInv, CountInv, device, driver, Silence
  <1>5. Answering' => Answering
    BY <1>1 DEF Answering, driver
  <1>6. PacketInv' /\ ToggleInv' /\ MissingInv'
    BY <1>1, <1>5, PacketFrame DEF PacketInv, device, driver, history
  <1> QED BY <1>2, <1>4, <1>6

\* What is received is the oldest report without an ACK, garbage or an echo.
LEMMA ReceiveEndKeeps == ASSUME LinkInv, ReceiveEnd PROVE LinkInv'
  <1> USE LinkAssumption DEF LinkInv
  <1>1. /\ state = "receive" /\ ~BusyHands /\ state' = "idle" /\ busy' = FALSE /\ received' = TRUE
        /\ rx' \in Arrived \cup {Garbage} /\ faults' \in 0..MaxFaults
        /\ air' = Silence /\ echo' = (air = Silence)
        /\ UNCHANGED <<start, cmd, token, due, made, acked, awaiting, plugged, driver, excused>>
    BY DEF ReceiveEnd, Fault, LinkTypeOK
  <1>2. rx' = rx \/ rx' = Garbage \/ (rx' = air /\ air # Silence)
    BY <1>1 DEF Arrived
  <1>3. pc \notin Reaching \cup Judging
    BY <1>1 DEF BusInv, BusyHands, Reaching, Judging
  <1>4. LinkTypeOK'
    <2>1. rx' \in Packets /\ air' \in Packets
      BY <1>1, <1>2, PacketFacts DEF LinkTypeOK
    <2>2. ControllerTypeOK'
      BY <1>1, <2>1, TypeParts DEF ControllerTypeOK, States
    <2>3. DeviceTypeOK'
      BY <1>1, <2>1, TypeParts DEF DeviceTypeOK
    <2>4. DriverTypeOK'
      BY <1>1, TypesStay
    <2> QED BY <2>2, <2>3, <2>4, TypeParts
  <1>5. BusInv' /\ CommandInv' /\ CountInv'
    BY <1>1, <1>3 DEF BusInv, CommandInv, CountInv, driver, Silence
  <1>6. ~echo' => rx' = air \/ rx' = Garbage
    BY <1>1, <1>2 DEF Arrived
  <1>7. air.kind = "data" => /\ air.report = acked + 1 /\ air.pid = (acked + 1) % 2
                             /\ acked < made /\ acked + 1 \in 1..made
    <2>1. acked < made => acked + 1 \in 0..MaxReports
      BY DEF LinkTypeOK
    <2> QED BY <2>1, PacketFacts DEF PacketInv, LinkTypeOK
  <1>8. air # Silence => air.kind # "none"
    <2>1. acked < made => acked + 1 \in 0..MaxReports
      BY DEF LinkTypeOK
    <2>2. 0 \in 0..MaxReports
      OBVIOUS
    <2> QED BY <2>1, <2>2, PacketFacts DEF PacketInv
  <1>9. PacketInv'
    <2>1. rx'.kind # "none"
      BY <1>2, <1>8, PacketFacts DEF PacketInv
    <2>2. rx'.kind = "data" => rx'.pid = rx'.report % 2 /\ rx'.report \in 1..made'
                               /\ last' <= rx'.report /\ rx'.report <= acked' + 1
      BY <1>1, <1>2, <1>7, PacketFacts DEF PacketInv, ToggleInv, driver, LinkTypeOK
    <2>3. ~echo' /\ rx'.kind = "data" => rx'.report = acked' + 1
      BY <1>1, <1>6, <1>7, PacketFacts
    <2>4. air' \in {Silence', Garbage', Packet("nak", 0)'}
      BY <1>1 DEF Silence
    <2>5. awaiting' => acked' < made'
      BY <1>1 DEF PacketInv
    <2> QED BY <1>1, <1>3, <2>1, <2>2, <2>3, <2>4, <2>5 DEF PacketInv, driver, Reaching
  <1>10. ToggleInv'
    BY <1>1, <1>3 DEF ToggleInv, driver, Judging
  <1>11. MissingInv'
    <2>1. ~Handing /\ ~Handing'
      BY <1>1, <1>3 DEF Handing, driver
    <2>2. Fresh' => rx'.report = acked' + 1
      BY <1>1, <1>2, <1>3, <1>7, PacketFacts DEF MissingInv, Fresh, driver
    <2> QED BY <1>1, <2>1, <2>2 DEF MissingInv, driver
  <1> QED BY <1>4, <1>5, <1>9, <1>10, <1>11

\* The steps of the controller that leave the packets and the device alone.
LEMMA KeepAliveKeeps ==
    ASSUME LinkInv, TimePasses \/ KeepAliveBegin \/ KeepAliveEnd \/ Plug
    PROVE  LinkInv'
  <1> USE LinkAssumption DEF LinkInv
  <1>1. CASE TimePasses
    <2>1. /\ due' = TRUE /\ awaiting' = FALSE
          /\ UNCHANGED <<state, start, cmd, token, busy, received, rx, air, made, acked, plugged,
                         driver, faults, history>>
      BY <1>1 DEF TimePasses
    <2>2. LinkTypeOK'
      <3>1. ControllerTypeOK'
        BY <2>1, TypeParts DEF ControllerTypeOK
      <3>2. DeviceTypeOK'
        BY <2>1, TypeParts DEF DeviceTypeOK, history
      <3>3. DriverTypeOK'
        BY <2>1, TypesStay
      <3> QED BY <3>1, <3>2, <3>3, TypeParts
    <2>3. BusInv' /\ CommandInv' /\ CountInv'
      BY <2>1 DEF BusInv, CommandInv, CountInv, driver, Silence
    <2>4. Answering' => Answering
      BY <2>1 DEF Answering, driver
    <2>5. PacketInv' /\ ToggleInv' /\ MissingInv'
      BY <2>1, <2>4, PacketFrame DEF PacketInv, driver, history
    <2> QED BY <2>2, <2>3, <2>5
  <1>2. CASE KeepAliveBegin
    <2>1. /\ state = "idle" /\ state' = "keepalive" /\ busy' = TRUE /\ received' = (received /\ ~start)
          /\ UNCHANGED <<start, cmd, token, due, rx, device, driver, faults, history>>
      BY <1>2 DEF KeepAliveBegin
    <2>2. LinkTypeOK'
      <3>1. ControllerTypeOK'
        BY <2>1, TypeParts DEF ControllerTypeOK, States, device
      <3>2. DeviceTypeOK'
        BY <2>1, TypesStay
      <3>3. DriverTypeOK'
        BY <2>1, TypesStay DEF device
      <3> QED BY <3>1, <3>2, <3>3, TypeParts
    <2>3. BusInv' /\ CommandInv' /\ CountInv'
      BY <2>1 DEF BusInv, CommandInv, CountInv, device, driver, Silence
    <2>4. Answering' => Answering
      BY <2>1 DEF Answering, driver
    <2>5. PacketInv' /\ ToggleInv' /\ MissingInv'
      BY <2>1, <2>4, PacketFrame DEF PacketInv, device, driver, history
    <2> QED BY <2>2, <2>3, <2>5
  <1>3. CASE KeepAliveEnd \/ Plug
    <2>1. /\ state \in {"keepalive", "unconnected"} /\ state' = "idle" /\ start' = FALSE /\ busy' = FALSE
          /\ due' \in BOOLEAN
          /\ UNCHANGED <<cmd, token, received, rx, device, driver, faults, history>>
      BY <1>3 DEF KeepAliveEnd, Plug, LinkTypeOK
    <2>2. LinkTypeOK'
      <3>1. ControllerTypeOK'
        BY <2>1, TypeParts DEF ControllerTypeOK, States, device
      <3>2. DeviceTypeOK'
        BY <2>1, TypesStay
      <3>3. DriverTypeOK'
        BY <2>1, TypesStay DEF device
      <3> QED BY <3>1, <3>2, <3>3, TypeParts
    <2>3. BusInv' /\ CommandInv' /\ CountInv'
      BY <2>1 DEF BusInv, CommandInv, CountInv, device, driver, Silence
    <2>4. Answering' => Answering
      BY <2>1 DEF Answering, driver
    <2>5. PacketInv' /\ ToggleInv' /\ MissingInv'
      BY <2>1, <2>4, PacketFrame DEF PacketInv, device, driver, history
    <2> QED BY <2>2, <2>3, <2>5
  <1> QED BY <1>1, <1>2, <1>3

\* The device is unplugged.
LEMMA UnplugKeeps == ASSUME LinkInv, Unplug PROVE LinkInv'
  <1> USE LinkAssumption DEF LinkInv
  <1>1. /\ state' = "unconnected" /\ start' = FALSE /\ cmd' = "none"
        /\ busy' = FALSE /\ received' = FALSE /\ faults' \in 0..MaxFaults
        /\ plugged' = FALSE /\ air' = Silence /\ awaiting' = FALSE
        /\ UNCHANGED <<token, due, rx, made, acked, driver, history>>
    BY DEF Unplug, Fault, LinkTypeOK
  <1>2. LinkTypeOK'
    <2>1. ControllerTypeOK'
      BY <1>1, TypeParts DEF ControllerTypeOK, States
    <2>2. DeviceTypeOK'
      BY <1>1, PacketFacts, TypeParts DEF DeviceTypeOK, history
    <2>3. DriverTypeOK'
      BY <1>1, TypesStay
    <2> QED BY <2>1, <2>2, <2>3, TypeParts
  <1>3. BusInv' /\ CommandInv' /\ CountInv'
    BY <1>1 DEF BusInv, CommandInv, CountInv, driver, Silence, Reaching
  <1>4. Answering' => Answering
    BY <1>1 DEF Answering, driver
  <1>5. PacketInv' /\ ToggleInv' /\ MissingInv'
    BY <1>1, <1>4, PacketFrame DEF PacketInv, driver, history
  <1> QED BY <1>2, <1>3, <1>5

(* The end of a token: nothing heard, an IN, or an ACK.                     *)
LEMMA HeardNothing ==
    ASSUME LinkInv, SendEnd, HearNothing \/ (token = "ack" /\ UNCHANGED <<air, acked, awaiting, excused>>)
    PROVE  PacketInv' /\ ToggleInv' /\ MissingInv'
  <1> USE DEF LinkInv
  <1>1. /\ state' = "idle"
        /\ UNCHANGED <<air, acked, awaiting, excused, cmd, token, received, rx, made, plugged, driver, echo>>
    BY DEF SendEnd, HearNothing
  <1>2. Answering' => Answering
    BY <1>1 DEF Answering, driver
  <1> QED
    BY <1>1, <1>2, PacketFrame DEF PacketInv, driver

\* The device hears an IN: its answer is the oldest report without an ACK.
LEMMA HeardIn ==
    ASSUME LinkInv, SendEnd, HearIn
    PROVE  /\ PacketInv' /\ ToggleInv' /\ MissingInv'
           /\ air' \in Packets
  <1> USE DEF LinkInv
  <1>1. /\ state = "send" /\ state' = "idle" /\ ~BusyHands /\ ~received
        /\ awaiting' = (acked < made)
        /\ UNCHANGED <<acked, excused, cmd, token, received, rx, made, plugged, driver, echo>>
    BY DEF SendEnd, HearIn, BusInv
  <1>2. /\ \/ air' \in {Silence, Packet("nak", 0)}
           \/ air' = Packet("data", acked + 1) /\ acked < made
        /\ acked < made => acked + 1 \in 0..MaxReports
    <2>1. acked < made => acked + 1 \in 0..MaxReports
      BY LinkAssumption DEF LinkTypeOK
    <2>2. air' = Silence \/ air' = IF acked < made THEN Packet("data", acked + 1) ELSE Packet("nak", 0)
      BY DEF HearIn
    <2> QED BY <2>1, <2>2
  <1>3. ~Answering'
    BY <1>1 DEF Answering, driver, Reaching, BusyHands
  <1>4. PacketInv'
    <2>1. Silence' = Silence /\ Garbage' = Garbage /\ Packet("nak", 0)' = Packet("nak", 0)
          /\ Packet("data", acked + 1)' = Packet("data", acked + 1)
      BY <1>1 DEF Silence, Garbage, Packet
    <2>2. awaiting' => acked' < made'
      BY <1>1
    <2>3. \/ air' \in {Silence', Garbage', Packet("nak", 0)'}
          \/ air' = Packet("data", acked + 1)' /\ acked' < made'
      BY <1>1, <1>2, <2>1
    <2> QED BY <1>1, <1>3, <2>2, <2>3 DEF PacketInv, driver
  <1>5. ToggleInv' /\ MissingInv'
    BY <1>1 DEF ToggleInv, MissingInv, Fresh, Handing, driver
  <1>6. air' \in Packets
    BY <1>2, PacketFacts, LinkAssumption
  <1> QED BY <1>4, <1>5, <1>6

\* The device hears an ACK: of the packet in the receiver, or excused.
LEMMA HeardAck ==
    ASSUME LinkInv, SendEnd, HearAck, token \in {"ack", "mixed"}
    PROVE  /\ PacketInv' /\ ToggleInv' /\ MissingInv'
           /\ acked' \in 0..made /\ excused' \subseteq 1..(MaxReports + 2)
  <1> USE LinkAssumption DEF LinkInv
  <1>1. /\ state = "send" /\ state' = "idle" /\ ~received /\ air = Silence
        /\ awaiting /\ awaiting' = FALSE /\ acked' = acked + 1
        /\ excused' = IF echo THEN excused \cup {acked + 1, acked + 2} ELSE excused
        /\ UNCHANGED <<air, cmd, token, received, rx, made, plugged, driver, echo>>
    BY DEF SendEnd, HearAck, BusInv
  <1>2. pc = "complete"
    BY <1>1 DEF CommandInv, SendEnd, BusyHands
  <1>3. /\ acked \in Nat /\ made \in Nat /\ last \in Nat /\ acked < made /\ made <= MaxReports
        /\ excused \subseteq 1..(MaxReports + 2)
    BY <1>1 DEF LinkTypeOK, PacketInv
  <1>4. /\ rx.kind = "data" /\ rx.report \in Nat /\ rx.pid = rx.report % 2
        /\ last <= rx.report /\ rx.report <= acked + 1
        /\ ~echo => rx.report = acked + 1
    <2>1. Answering
      BY <1>1, <1>2 DEF Answering
    <2>2. rx.kind = "data" /\ rx.report \in 1..made
      BY <1>2 DEF PacketInv, Judging
    <2> QED BY <1>1, <2>1, <2>2, <1>3 DEF PacketInv
  <1>5. PacketInv'
    <2>1. awaiting' = FALSE
      BY <1>1
    <2>2. air' = Silence'
      BY <1>1 DEF Silence
    <2>3. rx.report <= acked' + 1
      BY <1>1, <1>3, <1>4
    <2> QED BY <1>1, <2>1, <2>2, <2>3 DEF PacketInv, driver
  <1>6. ToggleInv'
    BY <1>1, <1>3 DEF ToggleInv, driver
  <1>7. MissingInv'
    <2>1. Fresh' <=> Fresh
      BY <1>1 DEF Fresh, driver
    <2>2. CASE Fresh
      <3>1. rx.report = acked + 1
        BY <1>1, <2>2 DEF MissingInv
      <3>2. Handing' /\ state' # "send" /\ pc' \in Judging
        BY <1>1, <1>2, <2>1, <2>2 DEF Handing, driver, Judging
      <3> QED BY <1>1, <1>3, <2>1, <2>2, <3>1, <3>2 DEF MissingInv
    <2>3. CASE ~Fresh
      <3>1. /\ rx.pid = last % 2 /\ ~Handing /\ ~Fresh' /\ ~Handing'
            /\ last' = last
        BY <1>1, <1>4, <2>1, <2>3 DEF Fresh, Handing, driver
      <3>2. (last + 1)..acked \subseteq excused
        BY <3>1 DEF MissingInv
      <3>3. CASE echo
        <4>1. excused' = excused \cup {acked + 1, acked + 2}
          BY <1>1, <3>3
        <4>2. (last + 1)..(acked + 1) \subseteq excused'
          BY <1>3, <3>2, <4>1
        <4>3. acked' + 1 \in excused'
          BY <1>1, <1>3, <4>1
        <4> QED BY <1>1, <3>1, <4>2, <4>3 DEF MissingInv
      <3>4. CASE ~echo
        <4>1. rx.report = acked + 1 /\ (acked + 1) % 2 = last % 2 /\ excused' = excused
          BY <1>1, <1>4, <3>1, <3>4
        <4>2. acked % 2 # last % 2
          BY <1>3, <4>1, Parity
        <4>3. acked > last => acked + 1 \in excused
          BY <3>1, <4>2 DEF MissingInv
        <4>4. acked + 1 = last \/ acked > last
          BY <1>3, <1>4, <4>1, <4>2
        <4>5. (last + 1)..(acked + 1) \subseteq excused
          BY <1>3, <3>2, <4>3, <4>4
        <4> QED BY <1>1, <3>1, <4>1, <4>5 DEF MissingInv
      <3> QED BY <3>3, <3>4
    <2> QED BY <2>2, <2>3
  <1>8. acked' \in 0..made /\ excused' \subseteq 1..(MaxReports + 2)
    BY <1>1, <1>3
  <1> QED BY <1>5, <1>6, <1>7, <1>8

\* The end of a token, whatever the device makes of it.
LEMMA SendEndKeeps == ASSUME LinkInv, SendEnd PROVE LinkInv'
  <1> USE LinkAssumption DEF LinkInv
  <1>1. /\ state = "send" /\ state' = "idle" /\ ~BusyHands /\ ~received
        /\ start' = FALSE /\ busy' = FALSE /\ due' = FALSE
        /\ Hear
        /\ UNCHANGED <<cmd, token, received, rx, made, plugged, driver, echo>>
    BY DEF SendEnd, BusInv
  <1>2. /\ PacketInv' /\ ToggleInv' /\ MissingInv'
        /\ air' \in Packets /\ awaiting' \in BOOLEAN /\ acked' \in 0..made
        /\ excused' \subseteq 1..(MaxReports + 2) /\ faults' \in 0..MaxFaults
    <2>1. CASE HearIn
      BY <2>1, HeardIn DEF HearIn, Fault, LinkTypeOK
    <2>2. CASE HearAck /\ token \in {"ack", "mixed"}
      BY <2>2, HeardAck DEF HearAck, LinkTypeOK
    <2>3. CASE HearNothing
      BY <2>3, HeardNothing DEF HearNothing, LinkTypeOK
    <2>4. CASE token = "ack" /\ Fault /\ UNCHANGED <<air, acked, awaiting, excused>>
      BY <2>4, HeardNothing DEF Fault, LinkTypeOK
    <2> QED BY <1>1, <2>1, <2>2, <2>3, <2>4 DEF Hear
  <1>3. LinkTypeOK'
    <2>1. ControllerTypeOK'
      BY <1>1, TypeParts DEF ControllerTypeOK, States
    <2>2. DeviceTypeOK'
      BY <1>1, <1>2, TypeParts DEF DeviceTypeOK
    <2>3. DriverTypeOK'
      BY <1>1, TypesStay
    <2> QED BY <2>1, <2>2, <2>3, TypeParts
  <1>4. BusInv'
    BY <1>1 DEF BusInv, driver, BusyHands, Reaching
  <1>5. CommandInv' /\ CountInv'
    BY <1>1 DEF CommandInv, CountInv, driver
  <1> QED BY <1>2, <1>3, <1>4, <1>5

-----------------------------------------------------------------------------
(* The request. *)
\* An attempt is repeated or given up.
LEMMA AgainType ==
    ASSUME LinkTypeOK, NEW code \in {6, 9, 10}, AgainOr(code)
    PROVE  /\ retry' \in 0..Retries /\ ret' \in {0, 6, 8, 9, 10}
           /\ pc' \in {"in", "done"}
  BY LinkAssumption DEF LinkTypeOK, AgainOr

\* Steps outside the handling of a packet.
LEMMA WaitsKeep ==
    ASSUME LinkInv,
           StartRequest \/ WaitFree \/ FirstStatus \/ NextStatus \/ NoResponse \/ Delay \/ RequestReturns
    PROVE  LinkInv'
  <1> USE LinkAssumption DEF LinkInv
  <1>1. /\ UNCHANGED <<controller, device, got, recv, last, handed, faults, history>>
        /\ pc \in {"idle", "free", "first", "poll", "delay", "done"}
        /\ pc' \in {"free", "in", "look", "poll", "done", "idle", "gone"}
        /\ pc' = "look" => received
        /\ retry' \in 0..Retries /\ ret' \in {0, 6, 8, 9, 10}
    <2>1. CASE NoResponse \/ Delay
      BY <2>1, AgainType DEF NoResponse, Delay
    <2>2. CASE StartRequest \/ WaitFree \/ FirstStatus \/ NextStatus \/ RequestReturns
      BY <2>2 DEF StartRequest, WaitFree, FirstStatus, NextStatus, RequestReturns, LinkTypeOK
    <2> QED BY <2>1, <2>2
  <1>2. errors' \in 0..(ErrorLimit + 1) /\ CountInv'
    <2>1. CASE RequestReturns
      BY <2>1 DEF RequestReturns, CountInv, LinkTypeOK
    <2>2. CASE ~RequestReturns
      BY <2>2 DEF StartRequest, WaitFree, FirstStatus, NextStatus, NoResponse, Delay, AgainOr, CountInv, LinkTypeOK
    <2> QED BY <2>1, <2>2
  <1>3. LinkTypeOK'
    <2>1. ControllerTypeOK'
      BY <1>1, TypesStay
    <2>2. DeviceTypeOK'
      BY <1>1, TypesStay
    <2>3. DriverTypeOK'
      BY <1>1, <1>2, TypeParts DEF DriverTypeOK, device, LinkPoints
    <2> QED BY <2>1, <2>2, <2>3, TypeParts
  <1>4. BusInv'
    BY <1>1 DEF BusInv, controller, device, Silence, Reaching
  <1>5. CommandInv'
    BY <1>1 DEF CommandInv, controller, Judging
  <1>6. Answering' => Answering
    BY <1>1 DEF Answering, controller, Reaching
  <1>7. PacketInv' /\ ToggleInv' /\ MissingInv'
    BY <1>1, <1>6, PacketFrame DEF controller, device, history, Judging
  <1> QED BY <1>2, <1>3, <1>4, <1>5, <1>7

\* The commands, which change a token that is on the wire.
LEMMA WritesKeep ==
    ASSUME LinkInv, WriteIn \/ WriteAck
    PROVE  LinkInv'
  <1> USE LinkAssumption DEF LinkInv
  <1>1. /\ UNCHANGED <<state, busy, received, due, rx, device, retry, got, recv, errors, ret, last,
                       handed, faults, history>>
        /\ start' = TRUE
        /\ token' = token \/ (state = "send" /\ token # "deaf" /\ token' = "mixed")
    BY DEF WriteIn, WriteAck, Write
  <1>2. \/ pc = "in" /\ pc' = "first" /\ cmd' = "in"
        \/ pc = "ack" /\ pc' = "begun" /\ cmd' = "ack"
    BY DEF WriteIn, WriteAck, Write
  <1>3. pc = "in" /\ state = "send" => token' = token
    BY <1>1, <1>2 DEF CommandInv, WriteIn, WriteAck, Write, LinkTypeOK
  <1>4. LinkTypeOK'
    <2>1. ControllerTypeOK'
      BY <1>1, <1>2, TypeParts DEF ControllerTypeOK
    <2>2. DeviceTypeOK'
      BY <1>1, TypesStay
    <2>3. DriverTypeOK'
      BY <1>1, <1>2, TypeParts DEF DriverTypeOK, device, LinkPoints
    <2> QED BY <2>1, <2>2, <2>3, TypeParts
  <1>5. BusInv'
    BY <1>1, <1>2 DEF BusInv, device, Silence, Reaching
  <1>6. CommandInv' /\ CountInv'
    BY <1>1, <1>2, <1>3 DEF CommandInv, CountInv, BusInv, Reaching, Judging
  <1>7. Answering' => Answering
    BY <1>1, <1>2 DEF Answering, Reaching
  <1>8. PacketInv' /\ ToggleInv' /\ MissingInv'
    BY <1>1, <1>2, <1>7, PacketFrame DEF device, history, Judging, PacketInv
  <1> QED BY <1>4, <1>5, <1>6, <1>8

\* From the look at a packet to its judgement nothing but the driver's place
\* changes, and what it has looked at.
LEMMA LooksKeep ==
    ASSUME LinkInv, Look \/ Crc \/ AckBegun \/ AckComplete
    PROVE  LinkInv'
  <1> USE LinkAssumption DEF LinkInv
  <1>1. /\ UNCHANGED <<controller, device, retry, recv, errors, last, handed, faults, history>>
        /\ ret' \in {0, 6, 8, 9, 10}
        /\ \/ pc = "look" /\ pc' = "done" /\ got' = rx
           \/ pc = "look" /\ pc' = "crc" /\ got' = rx /\ rx.kind # "nak"
           \/ pc = "crc" /\ pc' = "delay" /\ got' = got
           \/ pc = "crc" /\ pc' = "ack" /\ got' = got /\ rx.kind # "bad"
           \/ pc = "begun" /\ pc' = "complete" /\ got' = got /\ (busy \/ Settled)
           \/ pc = "complete" /\ pc' = "judge" /\ got' = got /\ ~busy
    BY DEF Look, Crc, AckBegun, AckComplete, LinkTypeOK
  <1>2. LinkTypeOK'
    <2>1. ControllerTypeOK'
      BY <1>1, TypesStay
    <2>2. DeviceTypeOK'
      BY <1>1, TypesStay
    <2>3. DriverTypeOK'
      BY <1>1, TypeParts DEF ControllerTypeOK, DriverTypeOK, device, LinkPoints
    <2> QED BY <2>1, <2>2, <2>3, TypeParts
  <1>3. BusInv'
    BY <1>1 DEF BusInv, controller, device, Silence, Reaching
  <1>4. CommandInv' /\ CountInv'
    BY <1>1 DEF CommandInv, CountInv, BusInv, controller, Settled, Reaching, Judging
  <1>5. Answering' => Answering
    BY <1>1 DEF Answering, controller, Reaching
  <1>6. rx.kind \in {"bad", "nak", "data"}
    BY DEF PacketInv, LinkTypeOK, Packets
  <1>7. PacketInv' /\ ToggleInv' /\ MissingInv'
    <2>1. pc' \in {"crc", "ack", "begun"} \cup Judging => got' = rx /\ rx.kind # "nak"
      BY <1>1 DEF PacketInv, Judging
    <2>2. pc' \in {"ack", "begun"} \cup Judging => rx.kind = "data"
      BY <1>1, <1>6 DEF PacketInv, Judging
    <2>3. pc \in Judging => pc' \in Judging
      BY <1>1 DEF Judging
    <2> QED BY <1>1, <1>5, <2>1, <2>2, <2>3, PacketFrame DEF controller, device, history, Judging
  <1> QED BY <1>2, <1>3, <1>4, <1>7

\* A packet with the toggle of the last report is dropped, another kept.
LEMMA JudgeKeeps == ASSUME LinkInv, Judge PROVE LinkInv'
  <1> USE LinkAssumption DEF LinkInv
  <1>1. /\ UNCHANGED <<controller, device, got, errors, last, handed, faults, history>>
        /\ pc = "judge" /\ got = rx /\ rx.kind = "data" /\ recv = last % 2
    BY DEF Judge, PacketInv, ToggleInv, Judging
  <1>2. CASE Dupe
    <2>1. /\ recv' = recv /\ pc' \in {"in", "done"} /\ retry' \in 0..Retries /\ ret' \in {0, 6, 8, 9, 10}
      BY <1>1, <1>2, AgainType DEF Judge
    <2>2. ~Fresh
      BY <1>1, <1>2 DEF Fresh, Dupe
    <2>3. LinkTypeOK'
      <3>1. ControllerTypeOK'
        BY <1>1, TypesStay
      <3>2. DeviceTypeOK'
        BY <1>1, TypesStay
      <3>3. DriverTypeOK'
        BY <1>1, <2>1, TypeParts DEF DriverTypeOK, device, LinkPoints
      <3> QED BY <3>1, <3>2, <3>3, TypeParts
    <2>4. BusInv' /\ CommandInv' /\ CountInv'
      BY <1>1, <2>1 DEF BusInv, CommandInv, CountInv, controller, device, Silence, Reaching, Judging
    <2>5. Answering' => Answering
      BY <1>1, <2>1 DEF Answering, controller, Reaching
    <2>6. PacketInv' /\ ToggleInv' /\ MissingInv'
      BY <1>1, <2>1, <2>2, <2>5, PacketFrame DEF controller, device, history, Judging
    <2> QED BY <2>3, <2>4, <2>6
  <1>3. CASE ~Dupe
    <2>1. /\ recv' = got.pid /\ pc' = "data" /\ UNCHANGED <<retry, ret>>
      BY <1>1, <1>3 DEF Judge
    <2>2. /\ UNCHANGED <<state, start, cmd, token, busy, received, due, rx, air, made, acked, awaiting, plugged,
                         got, errors, last, handed, faults, echo, excused>>
          /\ rx.pid # last % 2 /\ rx.pid \in {0, 1}
      BY <1>1, <1>3 DEF Dupe, controller, device, history, LinkTypeOK, Packets
    <2>3. LinkTypeOK'
      <3>1. ControllerTypeOK'
        BY <1>1, TypesStay
      <3>2. DeviceTypeOK'
        BY <1>1, TypesStay
      <3>3. DriverTypeOK'
        BY <1>1, <2>1, <2>2, TypeParts DEF DriverTypeOK, device, LinkPoints
      <3> QED BY <3>1, <3>2, <3>3, TypeParts
    <2>4. BusInv' /\ CommandInv' /\ CountInv'
      BY <1>1, <2>1, <2>2 DEF BusInv, CommandInv, CountInv, Silence, Reaching, Judging
    <2>5. Answering' => Answering
      BY <2>1, <2>2 DEF Answering, Reaching
    <2>6. PacketInv'
      BY <1>1, <2>1, <2>2, <2>5 DEF PacketInv, Judging, Silence, Garbage, Packet
    <2>7. ToggleInv'
      BY <1>1, <2>1, <2>2 DEF ToggleInv
    <2>8. MissingInv'
      BY <1>1, <2>1, <2>2 DEF MissingInv, Handing, Fresh, Judging
    <2> QED BY <2>3, <2>4, <2>6, <2>7, <2>8
  <1> QED BY <1>2, <1>3

\* The report that is handed over is newer than the last and one of those the
\* device has made.
LEMMA HandedIsNewer ==
    ASSUME LinkInv, ReadData
    PROVE  /\ last' = rx.report /\ handed' = handed + 1
           /\ last < last' /\ last' <= made /\ last' \in {acked, acked + 1}
           /\ rx.pid = last' % 2
           /\ last \in Nat /\ acked \in Nat /\ last' \in Nat /\ made \in Nat
  <1> USE LinkAssumption DEF LinkInv
  <1>1. /\ pc = "data" /\ last' = rx.report /\ handed' = handed + 1
    BY DEF ReadData
  <1>2. /\ rx.kind = "data" /\ rx.pid = rx.report % 2 /\ rx.report \in 1..made /\ last <= rx.report
        /\ rx.pid # last % 2
    BY <1>1 DEF PacketInv, ToggleInv, Judging
  <1>3. rx.report \in {acked, acked + 1}
    BY <1>2 DEF MissingInv, Fresh
  <1>4. last \in Nat /\ acked \in Nat /\ made \in Nat
    BY DEF LinkTypeOK
  <1> QED BY <1>1, <1>2, <1>3, <1>4

\* The report is handed over, and the ACK was heard or will be asked for again.
LEMMA ReadDataKeeps == ASSUME LinkInv, ReadData PROVE LinkInv'
  <1> USE LinkAssumption DEF LinkInv
  <1>1. /\ pc = "data" /\ pc' = "done" /\ ret' = 0
        /\ UNCHANGED <<state, start, cmd, token, busy, received, due, rx, air, made, acked, awaiting, plugged,
                       retry, got, recv, errors, faults, echo, excused>>
    BY DEF ReadData, controller, device, history
  <1>2. LinkTypeOK'
    <2>1. ControllerTypeOK'
      BY <1>1, TypeParts DEF ControllerTypeOK
    <2>2. DeviceTypeOK'
      BY <1>1, TypeParts DEF DeviceTypeOK
    <2>3. DriverTypeOK'
      BY <1>1, HandedIsNewer, TypeParts DEF DriverTypeOK, LinkPoints
    <2> QED BY <2>1, <2>2, <2>3, TypeParts
  <1>3. BusInv' /\ CommandInv' /\ CountInv'
    BY <1>1 DEF BusInv, CommandInv, CountInv, Silence, Reaching, Judging
  <1>4. Answering' => Answering
    BY <1>1 DEF Answering, Reaching
  <1>5. PacketInv'
    BY <1>1, <1>4, HandedIsNewer DEF PacketInv, Judging, Silence, Garbage, Packet
  <1>6. ToggleInv'
    BY <1>1, HandedIsNewer DEF ToggleInv
  <1>7. MissingInv'
    <2>1. ~Fresh' /\ ~Handing'
      BY <1>1, HandedIsNewer DEF Fresh, Handing
    <2>2. (last' + 1)..acked' = {} /\ ~(acked' > last')
      BY <1>1, HandedIsNewer
    <2> QED BY <2>1, <2>2 DEF MissingInv
  <1> QED BY <1>2, <1>3, <1>5, <1>6, <1>7

\* Every step keeps the invariant.
LEMMA LinkStep == LinkInv /\ [LinkNext]_linkVars => LinkInv'
  <1> SUFFICES ASSUME LinkInv, [LinkNext]_linkVars PROVE LinkInv'
    OBVIOUS
  <1>1. CASE UNCHANGED linkVars
    BY <1>1
    DEF linkVars, controller, device, driver, history, LinkInv, LinkTypeOK, BusInv, CommandInv,
        PacketInv, Answering, ToggleInv, MissingInv, Fresh, Handing, CountInv, Silence, Garbage, Packet
  <1>2. CASE Request
    BY <1>2, WaitsKeep, WritesKeep, LooksKeep, JudgeKeeps, ReadDataKeeps DEF Request
  <1>3. CASE LinkNext /\ ~Request
    BY <1>3, MakeReportKeeps, TakeKeeps, SendEndKeeps, ActivityKeeps, ReceiveEndKeeps, KeepAliveKeeps,
       UnplugKeeps, WaitsKeep
    DEF LinkNext
  <1> QED BY <1>1, <1>2, <1>3

\* The invariant of the link, from which the results below follow.
LEMMA LinkAlways == LinkSpec => []LinkInv
  BY LinkInitInv, LinkStep, PTL DEF LinkSpec

\* The controller and the driver keep their types, whatever their two clocks
\* make of a command (Apb3USB10.scala; usb10_in_request).
THEOREM LinkTypeCorrect == LinkSpec => []LinkTypeOK
  <1>1. LinkInv => LinkTypeOK
    BY DEF LinkInv
  <1> QED BY <1>1, LinkAlways, PTL

\* Each report the device is rid of was handed over, or is one of the known
\* ones that noise made the driver acknowledge (usb10_in_request).
THEOREM LinkMissesNone == LinkSpec => []NoneMissing
  <1>1. LinkInv => NoneMissing
    BY DEF LinkInv, NoneMissing, MissingInv, Handing, Judging
  <1> QED BY <1>1, LinkAlways, PTL

\* One step of the link is a step of the channel or leaves it as it is.
LEMMA LinkStepIsChannel ==
    ASSUME LinkInv, [LinkNext]_linkVars
    PROVE  [Channel!Next]_<<made, last, handed>>
  <1>1. CASE MakeReport
    <2>1. made' = made + 1 /\ made \in Nat /\ last' = last /\ handed' = handed
      BY <1>1 DEF MakeReport, driver, LinkInv, LinkTypeOK
    <2> QED BY <2>1 DEF Channel!Next, Channel!Make
  <1>2. CASE ReadData
    <2>1. made' = made
      BY <1>2 DEF ReadData, device
    <2> QED BY <1>2, <2>1, HandedIsNewer DEF Channel!Next, Channel!Hand
  <1>3. CASE UNCHANGED linkVars
    BY <1>3 DEF linkVars, device, driver
  <1>4. CASE LinkNext /\ ~MakeReport /\ ~ReadData
    <2>1. UNCHANGED <<made, last, handed>>
      BY <1>4
      DEF LinkNext, Request, Take, SendEnd, Activity, ReceiveEnd, TimePasses, KeepAliveBegin, KeepAliveEnd,
          Unplug, Plug, StartRequest, WaitFree, WriteIn, FirstStatus, NextStatus, NoResponse, Look, Crc,
          Delay, WriteAck, AckBegun, AckComplete, Judge, RequestReturns, device, driver
    <2> QED BY <2>1
  <1> QED BY <1>1, <1>2, <1>3, <1>4

\* Whatever becomes of commands and packets, what the client gets from
\* usb10_in_request() is a ReportChannel.
THEOREM LinkIsAChannel == LinkSpec => ImplementsChannel
  <1>1. LinkInit => Channel!Init
    BY DEF LinkInit, Channel!Init
  <1>2. LinkInv /\ [LinkNext]_linkVars => [Channel!Next]_<<made, last, handed>>
    BY LinkStepIsChannel
  <1> QED BY <1>1, <1>2, LinkAlways, PTL DEF LinkSpec, ImplementsChannel, Channel!Spec
=============================================================================
