---------------------------- MODULE ModbusProofs ----------------------------
(***************************************************************************)
(* Proofs about the two parts of the Modbus server.                        *)
(*                                                                         *)
(* ModbusRtu, for buffers, delays and messages of every size and for any   *)
(* number of messages: type correctness, the order of the bytes between    *)
(* the interrupt handler and the event loop, and that a message is cut in  *)
(* two by nothing but a race in the test for silence.                      *)
(*                                                                         *)
(* ModbusSettings, for any number of pages, values, requests and           *)
(* interruptions: type correctness, that an acknowledged setting stays,    *)
(* and that a load never mixes two configurations.  The argument follows   *)
(* one request that no other overlaps: what it has loaded is what was      *)
(* promised, what it has stored is what it was told to store, and the      *)
(* check-sum goes last.  And its steps are bounded by its pages.           *)
(***************************************************************************)
EXTENDS ModbusRtu, ModbusSettings, TLAPS

\* The numbers on the line: the current message, what was sent of it, and
\* what the handler has read of that.
LineInv ==
    /\ begin <= sent /\ sent <= end
    /\ begin <= Received
    /\ fifo <= sent

\* Interrupts are off in the critical section and on everywhere else.
LockInv == mie <=> poll.at \notin {"copy", "reset", "unlock"}

\* The bytes: what the buffer holds, and what the loop has copied of it.
BufferInv ==
    /\ settled + len = Received
    /\ \A i \in Slots : i < len => cells[i] = settled + 1 + i
CopyInv ==
    /\ poll.at = "reset" =>
         poll.rx_len = len /\ \A i \in Slots : i < len => rx_buf[i] = cells[i]
    /\ poll.at \in {"unlock", "recv"} =>
         \A i \in Slots : i < poll.rx_len => rx_buf[i] = rx_buf[0] + i

\* While the line is silent no message is under way; a poll that was not
\* overtaken has found it silent, and what it takes ends with a message.
SilenceInv ==
    /\ age = Delay => Received \in {begin, end}
    /\ ~raced /\ poll.at \in {"clock_read", "stamp_read"} => 0 <= poll.elapsed /\ poll.elapsed <= age
    /\ ~raced /\ poll.at \in {"lock", "copy"} => age = Delay
    /\ ~raced /\ poll.at \in {"reset", "unlock", "recv"} => ~split

RtuInv == TypeOK /\ LineInv /\ LockInv /\ BufferInv /\ CopyInv /\ SilenceInv

PollType == [at: Points, elapsed: -1..Delay, rx_len: Slots, tx_len: 0..(Word - 1)]

-----------------------------------------------------------------------------
\* The initial state.
LEMMA RtuInit == Init => RtuInv
  <1> SUFFICES ASSUME Init PROVE RtuInv
    OBVIOUS
  <1>1. TypeOK
    <2>1. 0 \in Slots /\ 0 \in 0..(Word - 1) /\ 0 \in -1..Delay
      BY RtuAssumption DEF Slots
    <2>2. poll \in PollType
      BY <2>1 DEF Init, PollType, Points
    <2>3. cells \in [Slots -> Nat] /\ rx_buf \in [Slots -> Nat] /\ len \in Slots
      BY <2>1 DEF Init
    <2>4. fifo \in 0..FifoDepth /\ age \in 0..Delay /\ messages \in 0..MaxMessages
      BY RtuAssumption DEF Init, Slots
    <2> QED BY <2>2, <2>3, <2>4 DEF Init, TypeOK, PollType
  <1>2. LineInv /\ LockInv
    BY DEF Init, LineInv, LockInv, Received
  <1>3. BufferInv /\ CopyInv
    BY DEF Init, BufferInv, CopyInv, Received, Slots
  <1>4. SilenceInv
    BY DEF Init, SilenceInv, Received
  <1> QED BY <1>1, <1>2, <1>3, <1>4 DEF RtuInv

\* The length stays within the buffer when the handler adds n bytes to it.
LEMMA PushedType ==
    ASSUME TypeOK, NEW n \in 0..FifoDepth
    PROVE  Pushed(n) \in Slots
  BY RtuAssumption DEF TypeOK, Slots, Pushed

\* The handler's new cells, of which those in front of the new length hold the
\* newest bytes in order.
LEMMA FilledOrder ==
    ASSUME TypeOK, BufferInv, fifo <= sent, fifo > 0,
           NEW s, s = IF len + fifo >= Size THEN settled + Size ELSE settled
    PROVE  /\ Filled(fifo) \in [Slots -> Nat]
           /\ s \in Nat
           /\ s + Pushed(fifo) = sent
           /\ \A i \in Slots : i < Pushed(fifo) => Filled(fifo)[i] = s + 1 + i
  <1> USE RtuAssumption DEF TypeOK, BufferInv, Received
  <1>1. \A i \in Slots : Filled(fifo)[i] \in Nat
    BY DEF Filled, Slots
  <1>2. Filled(fifo) \in [Slots -> Nat]
    BY <1>1 DEF Filled
  <1>3. s \in Nat /\ s + Pushed(fifo) = sent
    BY DEF Pushed, Slots
  <1>4. ASSUME NEW i \in Slots, i < Pushed(fifo)
        PROVE  Filled(fifo)[i] = s + 1 + i
    <2>1. CASE len + fifo >= Size
      <3>1. i + Size < len + fifo /\ i < len
        BY <1>4, <2>1 DEF Pushed, Slots
      <3>2. Filled(fifo)[i] = Received + 1 + (i + Size - len)
        BY <3>1 DEF Filled, Slots
      <3> QED BY <2>1, <3>2 DEF Slots
    <2>2. CASE len + fifo < Size /\ len <= i
      <3>1. Filled(fifo)[i] = Received + 1 + (i - len)
        BY <1>4, <2>2 DEF Filled, Pushed, Slots
      <3> QED BY <2>2, <3>1 DEF Slots
    <2>3. CASE len + fifo < Size /\ i < len
      <3>1. Filled(fifo)[i] = cells[i]
        BY <2>3 DEF Filled, Slots
      <3> QED BY <2>3, <3>1 DEF Slots
    <2> QED BY <2>1, <2>2, <2>3 DEF Slots
  <1> QED BY <1>2, <1>3, <1>4

-----------------------------------------------------------------------------
\* A step of the poll keeps the poll's type: a step of its control alone, ...
LEMMA PollStep ==
    ASSUME TypeOK, NEW p \in Points
    PROVE  /\ [poll EXCEPT !.at = p] \in PollType
           /\ [poll EXCEPT !.at = p].at = p
           /\ [poll EXCEPT !.at = p].rx_len = poll.rx_len
  BY DEF TypeOK, PollType

\* ... one that overtakes or ages the operand read first, ...
LEMMA PollElapses ==
    ASSUME TypeOK, NEW e \in -1..Delay
    PROVE  /\ [poll EXCEPT !.elapsed = e] \in PollType
           /\ [poll EXCEPT !.elapsed = e].at = poll.at
           /\ [poll EXCEPT !.elapsed = e].rx_len = poll.rx_len
           /\ [poll EXCEPT !.elapsed = e].elapsed = e
  BY DEF TypeOK, PollType

\* ... reads it, ...
LEMMA PollReads ==
    ASSUME TypeOK, NEW p \in Points, NEW e \in -1..Delay
    PROVE  /\ [poll EXCEPT !.at = p, !.elapsed = e] \in PollType
           /\ [poll EXCEPT !.at = p, !.elapsed = e].at = p
           /\ [poll EXCEPT !.at = p, !.elapsed = e].elapsed = e
  BY DEF TypeOK, PollType

\* ... notes the request's length ...
LEMMA PollCopies ==
    ASSUME TypeOK, NEW p \in Points, NEW l \in Slots
    PROVE  /\ [poll EXCEPT !.at = p, !.rx_len = l] \in PollType
           /\ [poll EXCEPT !.at = p, !.rx_len = l].at = p
           /\ [poll EXCEPT !.at = p, !.rx_len = l].rx_len = l
  BY DEF TypeOK, PollType

\* ... or the reply's.
LEMMA PollReplies ==
    ASSUME TypeOK, NEW p \in Points, NEW n \in 0..(Word - 1)
    PROVE  /\ [poll EXCEPT !.at = p, !.tx_len = n] \in PollType
           /\ [poll EXCEPT !.at = p, !.tx_len = n].at = p
  BY DEF TypeOK, PollType

\* A new message begins on a silent line.
LEMMA BeginStep ==
    ASSUME RtuInv, NEW n \in 1..MaxLength, Begin(n)
    PROVE  RtuInv'
  <1> USE DEF RtuInv
  <1>1. TypeOK'
    BY RtuAssumption DEF TypeOK, Begin
  <1>2. LineInv' /\ LockInv'
    BY RtuAssumption DEF TypeOK, Begin, LineInv, LockInv, Received
  <1>3. BufferInv' /\ CopyInv'
    BY DEF Begin, BufferInv, CopyInv, Received
  <1>4. SilenceInv'
    BY DEF TypeOK, Begin, SilenceInv, LineInv, Received
  <1> QED BY <1>1, <1>2, <1>3, <1>4

\* A byte enters the FIFO; nothing else notices.
LEMMA SendStep ==
    ASSUME RtuInv, Send
    PROVE  RtuInv'
  <1> USE DEF RtuInv
  <1>1. TypeOK'
    BY RtuAssumption DEF TypeOK, Send, Slots
  <1>2. Received' = Received
    BY RtuAssumption DEF TypeOK, Send, Received, Slots
  <1>3. LineInv' /\ LockInv'
    BY <1>2, RtuAssumption DEF TypeOK, Send, LineInv, LockInv, Slots
  <1>4. BufferInv' /\ CopyInv'
    BY <1>2 DEF Send, BufferInv, CopyInv
  <1>5. SilenceInv'
    BY <1>2 DEF Send, SilenceInv
  <1> QED BY <1>1, <1>3, <1>4, <1>5

\* Time passes, but not beyond the delay while a message is under way.
LEMMA TickStep ==
    ASSUME RtuInv, Tick
    PROVE  RtuInv'
  <1> USE DEF RtuInv
  <1>1. /\ age' \in 0..Delay /\ age <= age'
        /\ Older(poll.elapsed) \in -1..Delay
        /\ poll.elapsed <= age => Older(poll.elapsed) <= age'
        /\ 0 <= poll.elapsed => 0 <= Older(poll.elapsed)
    BY RtuAssumption DEF TypeOK, Tick, Older
  <1>2. /\ poll' \in PollType
        /\ poll'.at = poll.at /\ poll'.rx_len = poll.rx_len
        /\ poll'.elapsed = IF poll.at = "stamp_read" THEN Older(poll.elapsed) ELSE poll.elapsed
    BY <1>1, PollElapses DEF TypeOK, Tick, PollType
  <1>3. TypeOK'
    BY <1>1, <1>2 DEF TypeOK, Tick, line, PollType
  <1>4. Received' = Received /\ LineInv' /\ LockInv'
    BY <1>2 DEF Tick, line, LineInv, LockInv, Received
  <1>5. BufferInv' /\ CopyInv'
    BY <1>2, <1>4 DEF Tick, line, BufferInv, CopyInv
  <1>6. SilenceInv'
    <2>1. age' = Delay => Received' \in {begin', end'}
      <3>1. CASE age = Delay
        BY <1>4, <3>1 DEF SilenceInv, Tick, line
      <3>2. CASE age # Delay
        <4>1. age' = Delay => age + 1 = Delay
          BY <3>2, RtuAssumption DEF TypeOK, Tick, Older
        <4>2. age' = Delay => ~(begin < sent /\ sent < end)
          BY <4>1 DEF TypeOK, Tick
        <4>3. Received = sent
          BY DEF TypeOK, Tick, Received
        <4> QED BY <1>4, <4>2, <4>3 DEF TypeOK, LineInv, Tick, line
      <3> QED BY <3>1, <3>2
    <2>2. raced' = raced /\ split' = split
      BY DEF Tick
    <2>3. ~raced /\ poll.at \in {"clock_read", "stamp_read"} =>
            0 <= poll'.elapsed /\ poll'.elapsed <= age'
      BY <1>1, <1>2 DEF TypeOK, SilenceInv
    <2>4. ~raced /\ poll.at \in {"lock", "copy"} => age' = Delay
      BY <1>1 DEF TypeOK, SilenceInv
    <2> QED BY <1>2, <2>1, <2>2, <2>3, <2>4 DEF SilenceInv
  <1> QED BY <1>3, <1>4, <1>5, <1>6

-----------------------------------------------------------------------------
\* The handler appends, stamps and overtakes a poll that is testing.
LEMMA ReceiveStep ==
    ASSUME RtuInv, modbus_rtu_rx
    PROVE  RtuInv'
  <1> USE DEF RtuInv
  <1>1. poll.at \notin {"copy", "reset", "unlock"}
    BY DEF LockInv, modbus_rtu_rx
  <1>2. /\ poll' \in PollType
        /\ poll'.at = poll.at /\ poll'.rx_len = poll.rx_len
        /\ poll.at \in {"clock_read", "stamp_read", "lock"} => raced' = TRUE
        /\ poll.at \notin {"clock_read", "stamp_read", "lock"} => raced' = raced
    <2>1. CASE poll.at = "clock_read"
      <3>1. PICK e \in {0, -1} : poll' = [poll EXCEPT !.elapsed = e]
        BY <2>1 DEF modbus_rtu_rx, Overtaken
      <3>2. e \in -1..Delay
        BY <3>1, RtuAssumption
      <3>3. poll' \in PollType
        BY <3>1, <3>2, PollElapses
      <3>4. poll'.at = poll.at /\ poll'.rx_len = poll.rx_len
        BY <3>1 DEF TypeOK
      <3> QED BY <2>1, <3>3, <3>4 DEF modbus_rtu_rx, Overtaken
    <2>2. CASE poll.at # "clock_read"
      BY <2>2 DEF modbus_rtu_rx, Overtaken, TypeOK, PollType
    <2> QED BY <2>1, <2>2
  <1>3. raced' \in BOOLEAN
    BY <1>2 DEF TypeOK
  <1>4. /\ cells' \in [Slots -> Nat]
        /\ settled' \in Nat
        /\ settled' + len' = sent
        /\ \A i \in Slots : i < len' => cells'[i] = settled' + 1 + i
    BY FilledOrder DEF modbus_rtu_rx, LineInv
  <1>5. len' \in Slots /\ fifo' \in 0..FifoDepth
    BY PushedType, RtuAssumption DEF TypeOK, modbus_rtu_rx, Slots
  <1>6. Received' = sent /\ sent' = sent /\ begin' = begin /\ end' = end
    BY DEF TypeOK, modbus_rtu_rx, Received, line
  <1>7. age' = 0 /\ 0 # Delay
    BY RtuAssumption DEF modbus_rtu_rx
  <1>8. TypeOK'
    BY <1>2, <1>3, <1>4, <1>5, <1>7, RtuAssumption DEF TypeOK, PollType, modbus_rtu_rx, line
  <1>9. LineInv' /\ LockInv'
    BY <1>2, <1>6 DEF TypeOK, LineInv, LockInv, modbus_rtu_rx, line
  <1>10. BufferInv' /\ CopyInv'
    BY <1>1, <1>2, <1>4, <1>6 DEF BufferInv, CopyInv, modbus_rtu_rx
  <1>11. SilenceInv'
    <2>1. split' = split
      BY DEF modbus_rtu_rx
    <2> QED BY <1>1, <1>2, <1>7, <2>1 DEF SilenceInv
  <1> QED BY <1>8, <1>9, <1>10, <1>11

\* The timer's branch raises the event only.
LEMMA TimerStep ==
    ASSUME RtuInv, Timer1
    PROVE  RtuInv'
  BY DEF RtuInv, TypeOK, LineInv, LockInv, BufferInv, CopyInv, SilenceInv, Timer1, line, Received

-----------------------------------------------------------------------------
\* A poll that finds bytes reads its first operand.
LEMMA CheckFlagStep ==
    ASSUME RtuInv, CheckFlag
    PROVE  RtuInv'
  <1> USE DEF RtuInv
  <1>1. CASE len > 0
    <2>1. PICK first : /\ first \in {"clock_read", "stamp_read"}
                       /\ poll' = [poll EXCEPT !.at = first, !.elapsed = age]
      BY <1>1 DEF CheckFlag
    <2>2. age \in -1..Delay /\ 0 <= age
      BY DEF TypeOK
    <2>3. first \in Points
      BY <2>1 DEF Points
    <2>4. poll' \in PollType /\ poll'.at = first /\ poll'.elapsed = age
      BY <2>1, <2>2, <2>3, PollReads
    <2>5. TypeOK'
      BY <1>1, <2>4 DEF TypeOK, PollType, CheckFlag, line
    <2>6. LineInv' /\ LockInv'
      BY <2>1, <2>4 DEF LineInv, LockInv, CheckFlag, line, Received
    <2>7. BufferInv' /\ CopyInv'
      BY <2>1, <2>4 DEF BufferInv, CopyInv, CheckFlag, line, Received
    <2>8. SilenceInv'
      BY <2>1, <2>2, <2>4 DEF SilenceInv, CheckFlag, line, Received
    <2> QED BY <2>5, <2>6, <2>7, <2>8
  <1>2. CASE ~(len > 0)
    BY <1>2 DEF TypeOK, LineInv, LockInv, BufferInv, CopyInv, SilenceInv, CheckFlag, line, Received
  <1> QED BY <1>1, <1>2

\* The comparison goes on to the critical section only on a silent line, or
\* when it was overtaken.
LEMMA CompareStep ==
    ASSUME RtuInv, Compare
    PROVE  RtuInv'
  <1> USE DEF RtuInv
  <1>1. PICK p : /\ p \in {"lock", "idle"} /\ p \in Points
                 /\ poll' = [poll EXCEPT !.at = p]
                 /\ (p = "lock" <=> Elapsed >= Delay)
    BY DEF Compare, Points
  <1>2. poll' \in PollType /\ poll'.at = p
    BY <1>1, PollStep
  <1>3. TypeOK'
    BY <1>2 DEF TypeOK, PollType, Compare, line
  <1>4. LineInv' /\ LockInv'
    BY <1>1, <1>2 DEF LineInv, LockInv, Compare, line, Received
  <1>5. BufferInv' /\ CopyInv'
    BY <1>1, <1>2 DEF BufferInv, CopyInv, Compare, line, Received
  <1>6. ~raced /\ p = "lock" => age = Delay
    BY <1>1, RtuAssumption DEF TypeOK, Compare, SilenceInv, Elapsed, Unsigned
  <1>7. SilenceInv'
    BY <1>1, <1>2, <1>6 DEF SilenceInv, Compare, line, Received
  <1> QED BY <1>3, <1>4, <1>5, <1>7

\* Interrupts go off.
LEMMA LockStep ==
    ASSUME RtuInv, Lock
    PROVE  RtuInv'
  <1> USE DEF RtuInv
  <1>1. poll' \in PollType /\ poll'.at = "copy"
    BY PollStep DEF Points, Lock
  <1>2. TypeOK'
    BY <1>1 DEF TypeOK, PollType, Lock, line
  <1>3. LineInv' /\ LockInv'
    BY <1>1 DEF LineInv, LockInv, Lock, line, Received
  <1>4. BufferInv' /\ CopyInv' /\ SilenceInv'
    BY <1>1 DEF BufferInv, CopyInv, SilenceInv, Lock, line, Received
  <1> QED BY <1>2, <1>3, <1>4

\* The copy is what the buffer holds, and ends with a message unless overtaken.
LEMMA CopyStep ==
    ASSUME RtuInv, Copy
    PROVE  RtuInv'
  <1> USE DEF RtuInv
  <1>1. poll' \in PollType /\ poll'.at = "reset" /\ poll'.rx_len = len
    <2>1. len \in Slots
      BY DEF TypeOK
    <2>2. "reset" \in Points
      BY DEF Points
    <2> QED BY <2>1, <2>2, PollCopies DEF Copy
  <1>2. rx_buf' \in [Slots -> Nat] /\ \A i \in Slots : i < len => rx_buf'[i] = cells[i]
    BY DEF TypeOK, Copy
  <1>3. split' = (Received \notin {begin, end}) /\ split' \in BOOLEAN
    BY DEF Copy
  <1>4. TypeOK'
    BY <1>1, <1>2, <1>3 DEF TypeOK, PollType, Copy, line
  <1>5. LineInv' /\ LockInv'
    BY <1>1 DEF LineInv, LockInv, Copy, line, Received
  <1>6. BufferInv' /\ CopyInv'
    BY <1>1, <1>2 DEF BufferInv, CopyInv, Copy, line, Received
  <1>7. SilenceInv'
    BY <1>1, <1>3 DEF SilenceInv, Copy, line, Received
  <1> QED BY <1>4, <1>5, <1>6, <1>7

\* The length goes to zero: what was in the buffer is settled.
LEMMA ResetStep ==
    ASSUME RtuInv, Reset
    PROVE  RtuInv'
  <1> USE DEF RtuInv
  <1>1. poll' \in PollType /\ poll'.at = "unlock" /\ poll'.rx_len = poll.rx_len
    BY PollStep DEF Points, Reset
  <1>2. poll.rx_len = len /\ \A i \in Slots : i < len => rx_buf[i] = cells[i]
    BY DEF CopyInv, Reset
  <1>3. len' = 0 /\ 0 \in Slots /\ settled' = settled + len /\ settled' \in Nat
    <2>1. len' = 0 /\ settled' = settled + len
      BY <1>2 DEF Reset
    <2>2. 0 \in Slots /\ len \in Nat /\ settled \in Nat
      BY RtuAssumption DEF TypeOK, Slots
    <2> QED BY <2>1, <2>2
  <1>4. TypeOK'
    BY <1>1, <1>3 DEF TypeOK, PollType, Reset, line
  <1>5. LineInv' /\ LockInv'
    BY <1>1 DEF LineInv, LockInv, Reset, line, Received
  <1>6. BufferInv'
    <2>1. Received' = Received /\ settled' + len' = settled + len
      BY <1>3 DEF TypeOK, Reset, line, Received, Slots
    <2>2. \A i \in Slots : ~(i < len')
      BY <1>3 DEF Slots
    <2> QED BY <2>1, <2>2 DEF BufferInv
  <1>7. \A i \in Slots : i < len => rx_buf[i] = rx_buf[0] + i
    <2>1. ASSUME NEW i \in Slots, i < len PROVE rx_buf[i] = rx_buf[0] + i
      <3>1. 0 \in Slots /\ 0 < len
        BY <1>3, <2>1 DEF Slots, TypeOK
      <3>2. rx_buf[0] = settled + 1
        BY <1>2, <3>1 DEF BufferInv, TypeOK
      <3>3. rx_buf[i] = settled + 1 + i
        BY <1>2, <2>1 DEF BufferInv
      <3> QED BY <3>2, <3>3 DEF TypeOK, Slots
    <2> QED BY <2>1
  <1>8. CopyInv'
    BY <1>1, <1>2, <1>7 DEF CopyInv, Reset
  <1>9. SilenceInv'
    BY <1>1 DEF SilenceInv, Reset, line, Received
  <1> QED BY <1>4, <1>5, <1>6, <1>8, <1>9

\* Interrupts go on again.
LEMMA UnlockStep ==
    ASSUME RtuInv, Unlock
    PROVE  RtuInv'
  <1> USE DEF RtuInv
  <1>1. poll' \in PollType /\ poll'.at = "recv" /\ poll'.rx_len = poll.rx_len
    BY PollStep DEF Points, Unlock
  <1>2. TypeOK'
    BY <1>1 DEF TypeOK, PollType, Unlock, line
  <1>3. LineInv' /\ LockInv'
    BY <1>1 DEF LineInv, LockInv, Unlock, line, Received
  <1>4. BufferInv' /\ CopyInv' /\ SilenceInv'
    BY <1>1 DEF BufferInv, CopyInv, SilenceInv, Unlock, line, Received
  <1> QED BY <1>2, <1>3, <1>4

\* The request is answered, ...
LEMMA RecvStep ==
    ASSUME RtuInv, modbus_recv
    PROVE  RtuInv'
  <1> USE DEF RtuInv
  <1>1. PICK n \in ReplyLengths : poll' = [poll EXCEPT !.at = "reply", !.tx_len = n]
    BY DEF modbus_recv
  <1>2. n \in 0..(Word - 1)
    <2>1. Unsigned(-1) \in 0..(Word - 1) /\ {0, TxSize} \subseteq 0..(Word - 1)
      BY RtuAssumption DEF Unsigned
    <2>2. n \in {Unsigned(-1)} \/ n \in {0, TxSize}
      BY <1>1 DEF ReplyLengths
    <2> QED BY <2>1, <2>2
  <1>3. poll' \in PollType /\ poll'.at = "reply"
    BY <1>1, <1>2, PollReplies DEF Points
  <1>4. TypeOK'
    BY <1>3 DEF TypeOK, PollType, modbus_recv, line
  <1>5. LineInv' /\ LockInv'
    BY <1>3 DEF LineInv, LockInv, modbus_recv, line, Received
  <1>6. BufferInv' /\ CopyInv' /\ SilenceInv'
    BY <1>3 DEF BufferInv, CopyInv, SilenceInv, modbus_recv, line, Received
  <1> QED BY <1>4, <1>5, <1>6

\* ... and the reply sent.
LEMMA ReplyStep ==
    ASSUME RtuInv, Reply
    PROVE  RtuInv'
  <1> USE DEF RtuInv
  <1>1. poll' \in PollType /\ poll'.at = "idle"
    BY PollStep DEF Points, Reply
  <1>2. TypeOK'
    BY <1>1 DEF TypeOK, PollType, Reply, line
  <1>3. LineInv' /\ LockInv'
    BY <1>1 DEF LineInv, LockInv, Reply, line, Received
  <1>4. BufferInv' /\ CopyInv' /\ SilenceInv'
    BY <1>1 DEF BufferInv, CopyInv, SilenceInv, Reply, line, Received
  <1> QED BY <1>2, <1>3, <1>4

-----------------------------------------------------------------------------
LEMMA RtuNext == RtuInv /\ [Next]_vars => RtuInv'
  <1> SUFFICES ASSUME RtuInv, [Next]_vars PROVE RtuInv'
    OBVIOUS
  <1>1. CASE Line
    BY <1>1, BeginStep, SendStep, TickStep DEF Line
  <1>2. CASE Handler
    BY <1>2, ReceiveStep, TimerStep DEF Handler
  <1>3. CASE Loop
    BY <1>3, CheckFlagStep, CompareStep, LockStep, CopyStep, ResetStep, UnlockStep,
       RecvStep, ReplyStep DEF Loop
  <1>4. CASE UNCHANGED vars
    BY <1>4 DEF vars, line, RtuInv, TypeOK, LineInv, LockInv, BufferInv, CopyInv, SilenceInv,
                Received
  <1> QED BY <1>1, <1>2, <1>3, <1>4 DEF Next

LEMMA RtuAlways == Spec => []RtuInv
  BY RtuInit, RtuNext, PTL DEF Spec

\* Every variable keeps its type: the length stays within the buffer however
\* many bytes the handler reads at a time (modbus_rtu.c:81, :92).
THEOREM TypeCorrect == Spec => []TypeOK
  <1>1. RtuInv => TypeOK
    BY DEF RtuInv
  <1> QED BY <1>1, RtuAlways, PTL

\* No byte is lost, repeated or put out of place between modbus_rtu_rx() and
\* modbus_rtu_poll().
THEOREM BytesStayInOrder == Spec => []BytesInOrder
  <1>1. RtuInv => BytesInOrder
    BY DEF RtuInv, BufferInv, CopyInv, BytesInOrder
  <1> QED BY <1>1, RtuAlways, PTL

\* Only an interrupt between the poll's first read and its critical section
\* makes modbus_rtu_poll() take a part of a message.
THEOREM MessagesAreWhole == Spec => []MessagesNotSplit
  <1>1. RtuInv => MessagesNotSplit
    BY DEF RtuInv, SilenceInv, MessagesNotSplit
  <1> QED BY <1>1, RtuAlways, PTL

-----------------------------------------------------------------------------
(* The settings. *)

\* What a save has stored so far is what it was given.
Stored(c) ==
    /\ \A p \in Pages : p < job[c].page \/ (job[c].pc = "settle" /\ p = job[c].page)
                          => pages[p] = job[c].copy[p]
    /\ job[c].pc = "settle" /\ job[c].page = CheckPage => check = job[c].copy

\* The request keeps all settings but its own.
Faithful(c) ==
    ~damaged /\ ~job[c].lossy
      => job[c].copy = [promised EXCEPT ![job[c].request.setting] = job[c].request.value]

\* A cut transfer is one of two requests that overlap; and as long as they are
\* not said to, the loop's stands still for nothing but a request that reads,
\* and the handler's has not come in the middle of a save.
OverlapInv ==
    /\ \A c \in Contexts : job[c].cut => job[c].overlapped
    /\ Busy("loop") /\ Busy("handler") /\ ~job["loop"].overlapped
         => job["handler"].pc = "load" /\ job["handler"].request.kind = "get"
    /\ Saving("loop") /\ Busy("handler") => job["handler"].overlapped

\* Only requests that set something save, and what they save is on record.
Recorded(c) == Saving(c) => job[c].request.kind = "set" /\ job[c].copy \in attempts

\* A request that none has overlapped has loaded what was promised, and is
\* storing what it was told to.
LoadsPromise(c) ==
    job[c].pc = "load" /\ ~job[c].overlapped /\ ~damaged
      => \A p \in Pages : p < job[c].page => job[c].copy[p] = promised[p]
StoresTold(c) == Saving(c) /\ ~job[c].overlapped => Stored(c) /\ Faithful(c)

RequestInv == \A c \in Contexts : Recorded(c) /\ LoadsPromise(c) /\ StoresTold(c)

\* A page is programmed only where a save is not done.
ProgrammingInv == programming # 0 => damaged \/ \E c \in Contexts : HalfDone(c)

\* The check-sum is one that was saved.
CheckInv == check \in {Torn, Defaults, promised} \union attempts

SettingsInv ==
    /\ SettingsTypeOK /\ OverlapInv /\ RequestInv /\ ProgrammingInv
    /\ StoreKeepsPromises /\ CheckInv

-----------------------------------------------------------------------------
\* The constants: what an empty job holds is well-typed.
LEMMA SettingsConstants ==
    /\ 1 \in Pages /\ Pages \subseteq 1..CheckPage /\ CheckPage \in 1..CheckPage /\ CheckPage \notin Pages
    /\ \A p \in 1..CheckPage : p # CheckPage => p \in Pages /\ p + 1 \in 1..CheckPage
    /\ Defaults \in Settings /\ Settings \subseteq [Pages -> Values \union {Torn}]
    /\ NoRequest \in AllRequests
  BY SettingsAssumption DEF Pages, CheckPage, Settings, NoRequest, AllRequests

\* A context between two requests.
LEMMA JobAtType ==
    ASSUME NEW place \in {"boot", "idle", "load", "save", "settle", "reread", "put"}
    PROVE  /\ JobAt(place) \in Jobs
           /\ JobAt(place).pc = place /\ JobAt(place).page = 1
           /\ ~JobAt(place).cut /\ ~JobAt(place).overlapped
           /\ JobAt(place).copy \in Settings
  BY SettingsConstants DEF JobAt, Jobs

\* A step that changes the job of one context.
LEMMA OneJob ==
    ASSUME SettingsTypeOK, NEW c \in Contexts, NEW j \in Jobs, job' = [job EXCEPT ![c] = j]
    PROVE  job' \in [Contexts -> Jobs] /\ job'[c] = j /\ \A d \in Contexts \ {c} : job'[d] = job[d]
  BY DEF SettingsTypeOK

\* Who saves and is not stopped is the only one whose request none overlaps.
LEMMA SavesAlone ==
    ASSUME SettingsInv, NEW c \in Contexts, Saving(c), Runs(c), NEW d \in Contexts \ {c}
    PROVE  ~Busy(d) \/ job[d].overlapped
  BY DEF SettingsInv, OverlapInv, SettingsTypeOK, Saving, Busy, Runs, Contexts

\* The same of one whose request is not overlapped: the other does not save.
LEMMA CleanAlone ==
    ASSUME SettingsInv, NEW c \in Contexts, Busy(c), Runs(c), ~job[c].overlapped, NEW d \in Contexts \ {c}
    PROVE  ~Saving(d) /\ ~HalfDone(d)
  BY DEF SettingsInv, OverlapInv, SettingsTypeOK, Saving, Busy, Runs, Contexts, HalfDone

-----------------------------------------------------------------------------
\* The initial state.
LEMMA SettingsInitInv == SettingsInit => SettingsInv
  <1> SUFFICES ASSUME SettingsInit PROVE SettingsInv
    OBVIOUS
  <1> USE SettingsConstants, SettingsAssumption
  <1>1. /\ JobAt("boot") \in Jobs /\ JobAt("idle") \in Jobs
        /\ \A c \in Contexts : job[c] = JobAt("boot") \/ job[c] = JobAt("idle")
        /\ job["handler"] = JobAt("idle")
    BY JobAtType DEF SettingsInit, Contexts
  <1>2. \A c \in Contexts : job[c].pc \in {"boot", "idle"} /\ ~job[c].cut
    BY <1>1, JobAtType
  <1>3. job["handler"].pc = "idle"
    BY <1>1, JobAtType
  <1>4. job \in [Contexts -> Jobs]
    BY <1>1 DEF SettingsInit
  <1>5. pages \in [Pages -> Values \union {Torn}] /\ check \in Settings \union {Torn} /\ damaged \in BOOLEAN
    BY DEF SettingsInit
  <1>6. SettingsTypeOK
    BY <1>2, <1>3, <1>4, <1>5 DEF SettingsInit, SettingsTypeOK, Saving, CheckPage
  <1>7. OverlapInv /\ RequestInv
    BY <1>2 DEF OverlapInv, RequestInv, Recorded, LoadsPromise, StoresTold, Saving, Busy, Contexts
  <1>8. ProgrammingInv /\ StoreKeepsPromises /\ CheckInv
    BY DEF SettingsInit, ProgrammingInv, StoreKeepsPromises, CheckInv
  <1> QED BY <1>6, <1>7, <1>8 DEF SettingsInv

-----------------------------------------------------------------------------
\* A request arrives: what it interrupts is marked.
LEMMA BeginRequestStep ==
    ASSUME SettingsInv, NEW c \in Contexts, NEW r \in Requests, BeginRequest(c, r)
    PROVE  SettingsInv'
  <1> USE SettingsConstants, SettingsAssumption
  <1> DEFINE mine(midway) == [JobAt("load") EXCEPT !.request = r, !.cut = midway,
                                 !.overlapped = midway \/ (c = "handler" /\ Saving("loop"))]
             others(midway) == [job EXCEPT
                                   !["loop"].cut = @ \/ midway,
                                   !["loop"].overlapped = @ \/ (Busy("loop") /\ (midway \/ r.kind = "set"))]
  <1>1. PICK midway \in Cuts(c) : job' = [others(midway) EXCEPT ![c] = mine(midway)]
    BY DEF BeginRequest
  <1>2. midway \in BOOLEAN /\ (midway => c = "handler" /\ Busy("loop"))
    BY DEF Cuts
  <1>3. job[c].pc = "idle" /\ Runs(c) /\ SettingsTypeOK
    BY DEF BeginRequest, Receives, SettingsInv
  <1>4. r \in AllRequests
    OBVIOUS
  <1>5. /\ mine(midway) \in Jobs
        /\ mine(midway).pc = "load" /\ mine(midway).request = r /\ mine(midway).page = 1
        /\ mine(midway).cut = midway /\ mine(midway).overlapped = (midway \/ (c = "handler" /\ Saving("loop")))
    BY <1>2, <1>4 DEF JobAt, Jobs, Contexts, Saving
  <1>6. job'[c] = mine(midway)
    BY <1>1, <1>3 DEF SettingsTypeOK
  <1>7. ASSUME c = "loop"
        PROVE  job'["handler"] = job["handler"]
    BY <1>1, <1>3, <1>7 DEF SettingsTypeOK, Contexts
  <1>8. ASSUME c = "handler"
        PROVE  job'["loop"] = [job["loop"] EXCEPT !.cut = @ \/ midway,
                                  !.overlapped = @ \/ (Busy("loop") /\ (midway \/ r.kind = "set"))]
    BY <1>1, <1>3, <1>8 DEF SettingsTypeOK, Contexts, Jobs
  <1>9. ASSUME c = "handler"
        PROVE  /\ job'["loop"] \in Jobs
               /\ job'["loop"].pc = job["loop"].pc /\ job'["loop"].page = job["loop"].page
               /\ job'["loop"].copy = job["loop"].copy /\ job'["loop"].request = job["loop"].request
               /\ job'["loop"].lossy = job["loop"].lossy
               /\ job'["loop"].cut = (job["loop"].cut \/ midway)
               /\ job'["loop"].overlapped = (job["loop"].overlapped \/ (Busy("loop") /\ (midway \/ r.kind = "set")))
    <2>1. job["loop"] \in Jobs
      BY <1>3 DEF SettingsTypeOK, Contexts
    <2>2. /\ job'["loop"].pc = job["loop"].pc /\ job'["loop"].page = job["loop"].page
          /\ job'["loop"].copy = job["loop"].copy /\ job'["loop"].request = job["loop"].request
          /\ job'["loop"].lossy = job["loop"].lossy
      BY <2>1, <1>8, <1>9 DEF Jobs
    <2>3. /\ job'["loop"].cut = (job["loop"].cut \/ midway)
          /\ job'["loop"].overlapped = (job["loop"].overlapped \/ (Busy("loop") /\ (midway \/ r.kind = "set")))
      BY <2>1, <1>8, <1>9 DEF Jobs
    <2>4. job'["loop"] \in Jobs
      <3>1. \A b1, b2 \in BOOLEAN : [job["loop"] EXCEPT !.cut = b1, !.overlapped = b2] \in Jobs
        BY <2>1 DEF Jobs
      <3>2. /\ (job["loop"].cut \/ midway) \in BOOLEAN
            /\ (job["loop"].overlapped \/ (Busy("loop") /\ (midway \/ r.kind = "set"))) \in BOOLEAN
        OBVIOUS
      <3> QED BY <1>8, <1>9, <3>1, <3>2
    <2> QED BY <2>2, <2>3, <2>4
  <1>10. job' \in [Contexts -> Jobs]
    <2>1. DOMAIN job' = Contexts /\ job' = [d \in Contexts |-> job'[d]]
      BY <1>1, <1>3 DEF SettingsTypeOK
    <2>2. \A d \in Contexts : job'[d] \in Jobs
      BY <1>5, <1>6, <1>7, <1>9, <1>3 DEF Contexts, SettingsTypeOK
    <2> QED BY <2>1, <2>2
  <1>11. \A d \in Contexts : Saving(d)' => Saving(d) /\ job'[d].copy = job[d].copy
    BY <1>5, <1>6, <1>7, <1>9 DEF Saving, Contexts
  <1>12. \A d \in Contexts : HalfDone(d)' <=> HalfDone(d)
    BY <1>3, <1>5, <1>6, <1>7, <1>9 DEF HalfDone, Contexts
  <1>13. UNCHANGED <<pages, check, programming, gate, held, promised, damaged, attempts>> /\ udp' \in 0..MaxUdp
    BY <1>3 DEF BeginRequest, Receives, eeprom, history, SettingsTypeOK
  <1>14. SettingsTypeOK'
    <2>1. job'["handler"].pc \in {"idle", "load", "save", "settle"}
      BY <1>3, <1>5, <1>6, <1>7 DEF SettingsTypeOK, Contexts
    <2> QED BY <1>3, <1>10, <1>11, <1>13, <2>1 DEF SettingsTypeOK
  <1>15. OverlapInv'
    <2>1. \A d \in Contexts : job'[d].cut => job'[d].overlapped
      <3>1. job'[c].cut => job'[c].overlapped
        BY <1>5, <1>6
      <3>2. \A d \in Contexts : job[d].cut => job[d].overlapped
        BY DEF SettingsInv, OverlapInv
      <3>3. c = "handler" => (job'["loop"].cut => job'["loop"].overlapped)
        BY <3>2, <1>2, <1>9 DEF Contexts
      <3>4. c = "loop" => (job'["handler"].cut => job'["handler"].overlapped)
        BY <3>2, <1>7 DEF Contexts
      <3> QED BY <3>1, <3>3, <3>4 DEF Contexts
    <2>2. CASE c = "loop"
      <3>1. job'["loop"].pc = "load" /\ ~Busy("handler")' 
        BY <2>2, <1>3, <1>5, <1>6, <1>7 DEF Runs, Busy
      <3> QED BY <2>1, <3>1 DEF OverlapInv, Saving
    <2>3. CASE c = "handler"
      <3>1. job'["handler"].pc = "load" /\ job'["handler"].request = r /\ r.kind \in {"get", "set"}
        BY <2>3, <1>4, <1>5, <1>6 DEF AllRequests
      <3>2. Busy("loop")' /\ ~job'["loop"].overlapped => r.kind # "set"
        BY <2>3, <1>9 DEF Busy
      <3>3. Saving("loop")' => job'["handler"].overlapped
        BY <2>3, <1>5, <1>6, <1>9 DEF Saving
      <3> QED BY <2>1, <3>1, <3>2, <3>3 DEF OverlapInv
    <2> QED BY <2>2, <2>3 DEF Contexts
  <1>16. RequestInv'
    <2>1. job'[c].pc = "load" /\ job'[c].page = 1
      BY <1>5, <1>6
    <2>2. ASSUME NEW d \in Contexts \ {c}
          PROVE  /\ job'[d].pc = job[d].pc /\ job'[d].page = job[d].page /\ job'[d].copy = job[d].copy
                 /\ job'[d].request = job[d].request /\ job'[d].lossy = job[d].lossy
                 /\ job[d].overlapped => job'[d].overlapped
      <3>1. CASE c = "loop" /\ d = "handler"
        BY <3>1, <1>7
      <3>2. CASE c = "handler" /\ d = "loop"
        BY <3>2, <1>9
      <3> QED BY <3>1, <3>2 DEF Contexts
    <2> SUFFICES ASSUME NEW d \in Contexts
                 PROVE  Recorded(d)' /\ LoadsPromise(d)' /\ StoresTold(d)'
      BY DEF RequestInv
    <2>3. Recorded(d) /\ LoadsPromise(d) /\ StoresTold(d)
      BY DEF SettingsInv, RequestInv
    <2>4. CASE d = c
      BY <2>1, <2>4 DEF Recorded, LoadsPromise, StoresTold, Saving, Pages
    <2>5. CASE d # c
      BY <2>2, <2>3, <2>5, <1>13 DEF Recorded, LoadsPromise, StoresTold, Saving, Stored, Faithful
    <2> QED BY <2>4, <2>5
  <1>17. ProgrammingInv' /\ StoreKeepsPromises' /\ CheckInv'
    BY <1>12, <1>13 DEF SettingsInv, ProgrammingInv, StoreKeepsPromises, CheckInv
  <1> QED BY <1>14, <1>15, <1>16, <1>17 DEF SettingsInv

-----------------------------------------------------------------------------
\* What is known of a request stays true while its context stands still and
\* the other stores nothing and promises nothing.
LEMMA RequestKept ==
    ASSUME SettingsInv, NEW d \in Contexts, job'[d] = job[d],
           UNCHANGED <<pages, check, promised>>, damaged => damaged', attempts \subseteq attempts'
    PROVE  Recorded(d)' /\ LoadsPromise(d)' /\ StoresTold(d)'
  <1>1. Recorded(d) /\ LoadsPromise(d) /\ StoresTold(d)
    BY DEF SettingsInv, RequestInv
  <1> QED BY <1>1 DEF Recorded, LoadsPromise, StoresTold, Saving, Stored, Faithful

\* It stays true of an overlapped one whatever is stored.
LEMMA OverlappedKept ==
    ASSUME SettingsInv, NEW d \in Contexts, job'[d] = job[d], ~Busy(d) \/ job[d].overlapped,
           Saving(d) => job[d].copy \in attempts'
    PROVE  Recorded(d)' /\ LoadsPromise(d)' /\ StoresTold(d)'
  BY DEF SettingsInv, RequestInv, Recorded, LoadsPromise, StoresTold, Saving, Busy

\* A context is done with what it did.
LEMMA LeaveJob ==
    ASSUME SettingsInv, NEW c \in Contexts, NEW place \in {"idle", "reread", "put"},
           c = "handler" => place = "idle", job' = [job EXCEPT ![c] = JobAt(place)]
    PROVE  /\ job' \in [Contexts -> Jobs] /\ job'["handler"].pc \in {"idle", "load", "save", "settle"}
           /\ \A d \in Contexts \ {c} : job'[d] = job[d]
           /\ ~Busy(c)' /\ ~Saving(c)' /\ ~HalfDone(c)'
           /\ \A d \in Contexts : Saving(d)' => job'[d].copy \in Settings
           /\ OverlapInv'
           /\ Recorded(c)' /\ LoadsPromise(c)' /\ StoresTold(c)'
  <1>1. /\ JobAt(place) \in Jobs /\ JobAt(place).pc = place
        /\ ~JobAt(place).cut /\ ~JobAt(place).overlapped
    BY JobAtType
  <1>2. job' \in [Contexts -> Jobs] /\ job'[c] = JobAt(place) /\ \A d \in Contexts \ {c} : job'[d] = job[d]
    BY <1>1 DEF SettingsInv, SettingsTypeOK
  <1>3. ~Busy(c)' /\ ~Saving(c)' /\ ~HalfDone(c)' /\ job'[c].pc # "load"
    BY <1>1, <1>2 DEF Busy, Saving, HalfDone
  <1>4. job'["handler"].pc \in {"idle", "load", "save", "settle"}
    BY <1>1, <1>2 DEF SettingsInv, SettingsTypeOK, Contexts
  <1>5. \A d \in Contexts : Saving(d)' => job'[d].copy \in Settings
    BY <1>2, <1>3 DEF SettingsInv, SettingsTypeOK, Saving
  <1>6. OverlapInv'
    <2>1. \A d \in Contexts : job'[d].cut => job'[d].overlapped
      BY <1>1, <1>2 DEF SettingsInv, OverlapInv
    <2> QED BY <1>2, <1>3, <2>1 DEF SettingsInv, OverlapInv, Saving, Busy, Contexts
  <1>7. Recorded(c)' /\ LoadsPromise(c)' /\ StoresTold(c)'
    BY <1>3 DEF Recorded, LoadsPromise, StoresTold
  <1> QED BY <1>2, <1>3, <1>4, <1>5, <1>6, <1>7

-----------------------------------------------------------------------------
\* Nothing but the gate, the count of datagrams or the EEPROM's cycle moves.
LEMMA StandStill ==
    ASSUME SettingsInv, UNCHANGED <<pages, check, job, history>>,
           programming' \in {0, programming},
           gate' \in 0..GateMax, held' \in 0..GateMax, udp' \in 0..MaxUdp
    PROVE  SettingsInv'
  <1> USE SettingsAssumption DEF SettingsInv, history
  <1>1. SettingsTypeOK'
    BY DEF SettingsTypeOK, CheckPage, Saving
  <1>2. OverlapInv'
    BY DEF OverlapInv, Saving, Busy
  <1>3. RequestInv'
    BY RequestKept DEF RequestInv
  <1>4. ProgrammingInv' /\ StoreKeepsPromises' /\ CheckInv'
    BY DEF ProgrammingInv, StoreKeepsPromises, CheckInv, HalfDone
  <1> QED BY <1>1, <1>2, <1>3, <1>4

LEMMA WriteGateStep ==
    ASSUME SettingsInv, NEW c \in Contexts, NEW value \in GateValues, WriteGate(c, value)
    PROVE  SettingsInv'
  <1>1. /\ UNCHANGED <<pages, check, job, history>> /\ programming' = programming
        /\ gate' \in 0..GateMax /\ held' \in 0..GateMax /\ udp' \in 0..MaxUdp
    BY SettingsAssumption DEF WriteGate, Receives, eeprom, SettingsInv, SettingsTypeOK
  <1> QED BY <1>1, StandStill

LEMMA ProgrammedStep ==
    ASSUME SettingsInv, Programmed
    PROVE  SettingsInv'
  <1>1. /\ UNCHANGED <<pages, check, job, history>> /\ programming' = 0
        /\ gate' \in 0..GateMax /\ held' \in 0..GateMax /\ udp' \in 0..MaxUdp
    BY DEF Programmed, SettingsInv, SettingsTypeOK
  <1> QED BY <1>1, StandStill

\* Counting down wraps around below zero and stays in the register's range.
LEMMA CountType ==
    ASSUME NEW h \in 0..GateMax
    PROVE  (h - 1) % (GateMax + 1) \in 0..GateMax
  BY SettingsAssumption

\* The loop goes on to another place outside a request.
LEMMA LoopMoves ==
    ASSUME SettingsInv, NEW place \in {"idle", "reread", "put"},
           ~Busy("loop"), job' = [job EXCEPT !["loop"] = JobAt(place)],
           UNCHANGED <<eeprom, udp, history>>, gate' \in 0..GateMax, held' \in 0..GateMax
    PROVE  SettingsInv'
  <1> USE DEF eeprom, history
  <1>1. /\ job' \in [Contexts -> Jobs] /\ job'["handler"].pc \in {"idle", "load", "save", "settle"}
        /\ \A d \in Contexts \ {"loop"} : job'[d] = job[d]
        /\ ~Busy("loop")' /\ ~Saving("loop")' /\ ~HalfDone("loop")'
        /\ \A d \in Contexts : Saving(d)' => job'[d].copy \in Settings
        /\ OverlapInv'
        /\ Recorded("loop")' /\ LoadsPromise("loop")' /\ StoresTold("loop")'
    BY LeaveJob DEF Contexts
  <1>2. SettingsTypeOK'
    BY <1>1 DEF SettingsInv, SettingsTypeOK
  <1>3. RequestInv'
    BY <1>1, RequestKept DEF RequestInv
  <1>4. \A d \in Contexts : HalfDone(d)' <=> HalfDone(d)
    BY <1>1 DEF HalfDone, Busy, Contexts
  <1>5. ProgrammingInv' /\ StoreKeepsPromises' /\ CheckInv'
    BY <1>4 DEF SettingsInv, ProgrammingInv, StoreKeepsPromises, CheckInv
  <1> QED BY <1>1, <1>2, <1>3, <1>5 DEF SettingsInv

LEMMA CountStep ==
    ASSUME SettingsInv, CountTest \/ CountRead \/ CountPut \/ Boot
    PROVE  SettingsInv'
  <1>1. gate \in 0..GateMax /\ held \in 0..GateMax /\ (held - 1) % (GateMax + 1) \in 0..GateMax
    BY CountType DEF SettingsInv, SettingsTypeOK
  <1>2. CASE CountTest
    BY <1>1, <1>2, LoopMoves DEF CountTest, LoopAt, Busy
  <1>3. CASE CountRead
    BY <1>1, <1>3, LoopMoves DEF CountRead, LoopAt, Busy
  <1>4. CASE CountPut
    <2>1. held' \in 0..GateMax /\ gate' \in 0..GateMax
      BY <1>1, <1>4, SettingsAssumption DEF CountPut
    <2> QED BY <1>4, <2>1, LoopMoves DEF CountPut, LoopAt, Busy
  <1>5. CASE Boot
    <2>1. UNCHANGED <<eeprom, udp, history>> /\ gate' = gate /\ held' = held
      BY <1>5 DEF Boot
    <2>2. ~Busy("loop") /\ job' = [job EXCEPT !["loop"] = JobAt("idle")]
      BY <1>5 DEF Boot, Busy
    <2> QED BY <1>1, <2>1, <2>2, LoopMoves
  <1> QED BY <1>2, <1>3, <1>4, <1>5

-----------------------------------------------------------------------------
\* The processor restarts; pages keep their content, or one is torn.
LEMMA DownStep ==
    ASSUME SettingsInv, Down, udp' \in 0..MaxUdp,
           pages' \in [Pages -> Values \union {Torn}], check' \in Settings \union {Torn},
           programming' \in {0, programming},
           check' = check \/ check' = Torn,
           damaged' \/ (pages' = pages /\ check' = check)
    PROVE  SettingsInv'
  <1> USE SettingsConstants, SettingsAssumption
  <1>1. /\ job' \in [Contexts -> Jobs] /\ job'["handler"].pc = "idle"
        /\ \A d \in Contexts : job'[d].pc \in {"boot", "idle"} /\ ~job'[d].cut
    <2>1. JobAt("boot") \in Jobs /\ JobAt("idle") \in Jobs
      BY JobAtType
    <2>2. /\ job'["handler"] = JobAt("idle")
          /\ \A d \in Contexts : job'[d] = JobAt("boot") \/ job'[d] = JobAt("idle")
      BY DEF Down, Contexts
    <2>3. job' \in [Contexts -> Jobs]
      BY <2>1 DEF Down
    <2> QED BY <2>2, <2>3, JobAtType
  <1>2. \A d \in Contexts : ~Busy(d)' /\ ~Saving(d)' /\ ~HalfDone(d)'
    BY <1>1 DEF Busy, Saving, HalfDone
  <1>3. damaged' = (damaged \/ \E d \in Contexts : HalfDone(d)) /\ UNCHANGED <<promised, attempts>>
    BY DEF Down
  <1>4. SettingsTypeOK'
    BY <1>1, <1>2, <1>3 DEF Down, SettingsInv, SettingsTypeOK, CheckPage
  <1>5. OverlapInv' /\ RequestInv'
    BY <1>1, <1>2 DEF OverlapInv, RequestInv, Recorded, LoadsPromise, StoresTold, Contexts
  <1>6. ProgrammingInv' /\ StoreKeepsPromises'
    BY <1>3 DEF SettingsInv, ProgrammingInv, StoreKeepsPromises
  <1>7. CheckInv'
    BY <1>3 DEF SettingsInv, CheckInv
  <1> QED BY <1>4, <1>5, <1>6, <1>7 DEF SettingsInv

LEMMA RestartStep ==
    ASSUME SettingsInv, PowerLoss \/ \E c \in Contexts : Reboot(c)
    PROVE  SettingsInv'
  <1> USE SettingsConstants, SettingsAssumption DEF eeprom
  <1>1. CASE PowerLoss
    <2>1. Down /\ programming' = 0 /\ udp' \in 0..MaxUdp
      BY <1>1 DEF PowerLoss, SettingsInv, SettingsTypeOK
    <2>2. programming # 0 => damaged'
      BY <2>1 DEF Down, SettingsInv, ProgrammingInv
    <2>3. 0 \notin Pages /\ CheckPage # 0
      BY DEF Pages, CheckPage
    <2>4. /\ pages' \in [Pages -> Values \union {Torn}] /\ check' \in Settings \union {Torn}
          /\ check' = check \/ check' = Torn
          /\ programming = 0 => pages' = pages /\ check' = check
      BY <1>1, <2>3 DEF PowerLoss, SettingsInv, SettingsTypeOK
    <2> QED BY <2>1, <2>2, <2>4, DownStep
  <1>2. CASE \E c \in Contexts : Reboot(c)
    <2>1. Down /\ udp' \in 0..MaxUdp /\ UNCHANGED <<pages, check, programming>>
      BY <1>2 DEF Reboot, Receives, SettingsInv, SettingsTypeOK
    <2>2. pages' \in [Pages -> Values \union {Torn}] /\ check' \in Settings \union {Torn}
      BY <2>1 DEF SettingsInv, SettingsTypeOK
    <2> QED BY <2>1, <2>2, DownStep
  <1> QED BY <1>1, <1>2

-----------------------------------------------------------------------------
(* Loading. *)

\* A context goes on with its request, which stays what it was.
LEMMA GoOn ==
    ASSUME SettingsInv, NEW c \in Contexts, Busy(c), Runs(c),
           NEW j \in Jobs, job' = [job EXCEPT ![c] = j], ~j.cut,
           j.overlapped = job[c].overlapped, j.request = job[c].request,
           j.pc \in {"load", "save", "settle"}, j.pc # "load" => j.request.kind = "set" /\ j.copy \in Settings,
           j.pc = "load" => job[c].pc = "load"
    PROVE  /\ job' \in [Contexts -> Jobs] /\ job'["handler"].pc \in {"idle", "load", "save", "settle"}
           /\ job'[c] = j /\ \A d \in Contexts \ {c} : job'[d] = job[d]
           /\ \A d \in Contexts : Saving(d)' => job'[d].copy \in Settings
           /\ OverlapInv'
  <1>1. /\ job' \in [Contexts -> Jobs] /\ job'[c] = j
        /\ \A d \in Contexts \ {c} : job'[d] = job[d]
    BY OneJob DEF SettingsInv
  <1>2. job'["handler"].pc \in {"idle", "load", "save", "settle"}
    BY <1>1 DEF SettingsInv, SettingsTypeOK, Contexts
  <1>3. \A d \in Contexts : Saving(d)' => job'[d].copy \in Settings
    BY <1>1 DEF SettingsInv, SettingsTypeOK, Saving
  <1>4. OverlapInv'
    <2>1. \A d \in Contexts : job'[d].cut => job'[d].overlapped
      BY <1>1 DEF SettingsInv, OverlapInv
    <2>2. CASE c = "loop"
      BY <2>1, <2>2, <1>1 DEF SettingsInv, OverlapInv, Saving, Busy, Runs, Contexts
    <2>3. CASE c = "handler"
      <3>1. job'["loop"] = job["loop"]
        BY <2>3, <1>1 DEF Contexts
      <3>2. Busy("loop") /\ ~job["loop"].overlapped => job["handler"].pc = "load" /\ job["handler"].request.kind = "get"
        BY <2>3 DEF SettingsInv, OverlapInv
      <3>3. Busy("loop") /\ ~job["loop"].overlapped => j.pc = "load" /\ j.request.kind = "get"
        BY <2>3, <3>2
      <3>4. Saving("loop") => j.overlapped
        BY <2>3 DEF SettingsInv, OverlapInv
      <3> QED BY <2>1, <2>3, <3>1, <3>3, <3>4, <1>1 DEF OverlapInv, Saving, Busy
    <2> QED BY <2>2, <2>3 DEF Contexts
  <1> QED BY <1>1, <1>2, <1>3, <1>4

\* config_load returns a configuration; unless it failed or something is known
\* to have come in between, it is the one promised.
LEMMA LoadedStep ==
    ASSUME SettingsInv, NEW c \in Contexts, job[c].pc = "load", Runs(c),
           NEW config \in Settings, NEW failed \in BOOLEAN, Loaded(c, config, failed),
           ~failed /\ ~job[c].overlapped /\ ~damaged => config = promised,
           UNCHANGED <<eeprom, gate, held, udp, promised, damaged>>
    PROVE  SettingsInv'
  <1> USE DEF eeprom
  <1>1. job[c] \in Jobs /\ job[c].request \in AllRequests
    BY DEF SettingsInv, SettingsTypeOK, Jobs
  <1>2. CASE job[c].request.kind = "get"
    <2>1. job' = [job EXCEPT ![c] = JobAt("idle")] /\ UNCHANGED attempts
      BY <1>2 DEF Loaded
    <2>2. /\ job' \in [Contexts -> Jobs] /\ job'["handler"].pc \in {"idle", "load", "save", "settle"}
          /\ \A d \in Contexts \ {c} : job'[d] = job[d]
          /\ ~HalfDone(c)'
          /\ \A d \in Contexts : Saving(d)' => job'[d].copy \in Settings
          /\ OverlapInv'
          /\ Recorded(c)' /\ LoadsPromise(c)' /\ StoresTold(c)'
      BY <2>1, LeaveJob
    <2>3. SettingsTypeOK'
      BY <2>1, <2>2 DEF SettingsInv, SettingsTypeOK
    <2>4. RequestInv'
      BY <2>1, <2>2, RequestKept DEF RequestInv
    <2>5. \A d \in Contexts : HalfDone(d)' <=> HalfDone(d)
      BY <2>2 DEF HalfDone
    <2>6. ProgrammingInv' /\ StoreKeepsPromises' /\ CheckInv'
      BY <2>1, <2>5 DEF SettingsInv, ProgrammingInv, StoreKeepsPromises, CheckInv
    <2> QED BY <2>2, <2>3, <2>4, <2>6 DEF SettingsInv
  <1>3. CASE job[c].request.kind # "get"
    <2> DEFINE r == job[c].request
               new == [config EXCEPT ![r.setting] = r.value]
               j == [job[c] EXCEPT !.pc = "save", !.page = 1, !.copy = new, !.cut = FALSE, !.lossy = failed]
    <2>1. job' = [job EXCEPT ![c] = j] /\ attempts' = attempts \union {new}
      BY <1>3 DEF Loaded
    <2>2. new \in Settings /\ r.kind = "set"
      BY <1>1, <1>3 DEF Settings, AllRequests
    <2>3. /\ j \in Jobs /\ j.pc = "save" /\ j.page = 1 /\ j.copy = new /\ ~j.cut /\ j.lossy = failed
          /\ j.overlapped = job[c].overlapped /\ j.request = r
      BY <1>1, <2>2, SettingsConstants DEF Jobs
    <2>4. /\ job' \in [Contexts -> Jobs] /\ job'["handler"].pc \in {"idle", "load", "save", "settle"}
          /\ job'[c] = j /\ \A d \in Contexts \ {c} : job'[d] = job[d]
          /\ \A d \in Contexts : Saving(d)' => job'[d].copy \in Settings
          /\ OverlapInv'
      <3>1. Busy(c)
        BY DEF Busy
      <3> HIDE DEF j, new
      <3> QED BY <2>1, <2>2, <2>3, <3>1, GoOn
    <2> HIDE DEF j
    <2>5. SettingsTypeOK'
      BY <2>1, <2>2, <2>4 DEF SettingsInv, SettingsTypeOK
    <2>6. Recorded(c)' /\ LoadsPromise(c)' /\ StoresTold(c)'
      <3>1. Recorded(c)' /\ LoadsPromise(c)'
        BY <2>1, <2>2, <2>3, <2>4 DEF Recorded, LoadsPromise
      <3>2. Stored(c)'
        BY <2>3, <2>4 DEF Stored, Pages, CheckPage
      <3>3. ~job[c].overlapped => Faithful(c)'
        BY <2>3, <2>4 DEF Faithful
      <3> QED BY <2>3, <2>4, <3>1, <3>2, <3>3 DEF StoresTold
    <2>7. RequestInv'
      BY <2>1, <2>4, <2>6, RequestKept DEF RequestInv
    <2>8. \A d \in Contexts : HalfDone(d)' <=> HalfDone(d)
      BY <2>3, <2>4 DEF HalfDone
    <2>9. ProgrammingInv' /\ StoreKeepsPromises' /\ CheckInv'
      BY <2>1, <2>8 DEF SettingsInv, ProgrammingInv, StoreKeepsPromises, CheckInv
    <2> QED BY <2>4, <2>5, <2>7, <2>9 DEF SettingsInv
  <1> QED BY <1>2, <1>3

\* One page is read.
LEMMA ReadCellStep ==
    ASSUME SettingsInv, NEW c \in Contexts, job[c].pc = "load", Runs(c), ReadCell(c),
           UNCHANGED <<eeprom, gate, held, udp, promised, damaged>>
    PROVE  SettingsInv'
  <1> USE SettingsAssumption, SettingsConstants DEF eeprom
  <1> DEFINE p == job[c].page
  <1>1. PICK got \in Yields(c, pages[p]) :
          job' = [job EXCEPT ![c].copy = [@ EXCEPT ![p] = got], ![c].page = p + 1, ![c].cut = FALSE]
    BY DEF ReadCell
  <1> DEFINE j == [job[c] EXCEPT !.copy = [@ EXCEPT ![p] = got], !.page = p + 1, !.cut = FALSE]
  <1>2. job[c] \in Jobs /\ p \in Pages /\ UNCHANGED attempts
    BY DEF ReadCell, SettingsInv, SettingsTypeOK
  <1>3. got \in Values \union {Torn} /\ (~job[c].cut => got = pages[p])
    BY <1>2 DEF Yields, SettingsInv, SettingsTypeOK
  <1>4. job' = [job EXCEPT ![c] = j]
    BY <1>1 DEF SettingsInv, SettingsTypeOK, Jobs
  <1>5. /\ j \in Jobs /\ j.pc = "load" /\ j.page = p + 1 /\ ~j.cut
        /\ j.copy = [job[c].copy EXCEPT ![p] = got]
        /\ j.overlapped = job[c].overlapped /\ j.request = job[c].request
    BY <1>2, <1>3 DEF Jobs, Pages, CheckPage
  <1>6. /\ job' \in [Contexts -> Jobs] /\ job'["handler"].pc \in {"idle", "load", "save", "settle"}
        /\ job'[c] = j /\ \A d \in Contexts \ {c} : job'[d] = job[d]
        /\ \A d \in Contexts : Saving(d)' => job'[d].copy \in Settings
        /\ OverlapInv'
    <2>1. Busy(c)
      BY DEF Busy
    <2> HIDE DEF j
    <2> QED BY <1>4, <1>5, <2>1, GoOn
  <1> HIDE DEF j
  <1>7. SettingsTypeOK'
    BY <1>2, <1>6 DEF SettingsInv, SettingsTypeOK
  <1>8. Recorded(c)' /\ LoadsPromise(c)' /\ StoresTold(c)'
    <2>1. Recorded(c)' /\ StoresTold(c)'
      BY <1>5, <1>6 DEF Recorded, StoresTold, Saving
    <2>2. ASSUME ~job[c].overlapped, ~damaged
          PROVE  \A q \in Pages : q < p + 1 => j.copy[q] = promised[q]
      <3>1. ~job[c].cut /\ \A d \in Contexts : ~HalfDone(d)
        BY <2>2, CleanAlone DEF SettingsInv, OverlapInv, HalfDone, Busy
      <3>2. got = promised[p]
        BY <1>3, <2>2, <3>1 DEF SettingsInv, StoreKeepsPromises
      <3>3. \A q \in Pages : q < p => job[c].copy[q] = promised[q]
        BY <2>2 DEF SettingsInv, RequestInv, LoadsPromise
      <3> QED BY <1>2, <1>5, <3>2, <3>3 DEF Pages, Jobs
    <2> QED BY <1>5, <1>6, <2>1, <2>2 DEF LoadsPromise
  <1>9. RequestInv'
    BY <1>2, <1>6, <1>8, RequestKept DEF RequestInv
  <1>10. \A d \in Contexts : HalfDone(d)' <=> HalfDone(d)
    BY <1>5, <1>6 DEF HalfDone
  <1>11. ProgrammingInv' /\ StoreKeepsPromises' /\ CheckInv'
    BY <1>2, <1>10 DEF SettingsInv, ProgrammingInv, StoreKeepsPromises, CheckInv
  <1> QED BY <1>6, <1>7, <1>9, <1>11 DEF SettingsInv

LEMMA ReadPageStep ==
    ASSUME SettingsInv, NEW c \in Contexts, ReadPage(c)
    PROVE  SettingsInv'
  <1> USE SettingsAssumption, SettingsConstants
  <1>1. job[c].pc = "load" /\ Runs(c) /\ UNCHANGED <<eeprom, gate, held, udp, promised, damaged>>
    BY DEF ReadPage
  <1>2. CASE ReadCell(c)
    BY <1>1, <1>2, ReadCellStep
  <1>3. CASE Loaded(c, Defaults, TRUE)
    BY <1>1, <1>3, LoadedStep
  <1>4. CASE ReadCheck(c)
    <2>1. PICK sum \in Yields(c, check) :
            Loaded(c, IF ChecksOut(job[c].copy, sum) THEN job[c].copy ELSE Defaults, FALSE)
      BY <1>4 DEF ReadCheck
    <2> DEFINE config == IF ChecksOut(job[c].copy, sum) THEN job[c].copy ELSE Defaults
    <2>2. job[c].page = CheckPage /\ sum \in {check, Torn} /\ (~job[c].cut => sum = check)
      BY <1>4 DEF ReadCheck, Yields
    <2>3. job[c].copy \in [Pages -> Values \union {Torn}] /\ job[c].copy # Torn
      BY DEF SettingsInv, SettingsTypeOK, Jobs
    <2>4. config \in Settings
      BY <2>2, <2>3 DEF ChecksOut, SettingsInv, SettingsTypeOK
    <2>5. ASSUME ~job[c].overlapped, ~damaged
          PROVE  config = promised
      <3>1. ~job[c].cut /\ \A d \in Contexts : ~HalfDone(d)
        BY <1>1, <2>5, CleanAlone DEF SettingsInv, OverlapInv, HalfDone, Busy
      <3>2. sum = promised /\ promised \in [Pages -> Values]
        BY <2>2, <2>5, <3>1 DEF SettingsInv, SettingsTypeOK, StoreKeepsPromises, Settings
      <3>3. \A q \in Pages : q < CheckPage
        BY DEF Pages, CheckPage
      <3>4. \A q \in Pages : job[c].copy[q] = promised[q]
        BY <1>1, <2>2, <2>5, <3>3 DEF SettingsInv, RequestInv, LoadsPromise
      <3>5. job[c].copy = promised
        <4>1. job[c].copy = [q \in Pages |-> job[c].copy[q]]
          BY <2>3
        <4>2. promised = [q \in Pages |-> promised[q]]
          BY <3>2
        <4> QED BY <3>4, <4>1, <4>2
      <3> QED BY <3>2, <3>5 DEF ChecksOut
    <2> HIDE DEF config
    <2>6. Loaded(c, config, FALSE)
      BY <2>1 DEF config
    <2> QED BY <1>1, <2>4, <2>5, <2>6, LoadedStep
  <1> QED BY <1>2, <1>3, <1>4 DEF ReadPage

-----------------------------------------------------------------------------
(* Saving. *)

\* A save is broken off; the store may be harmed by it.
LEMMA GiveUpStep ==
    ASSUME SettingsInv, NEW c \in Contexts, Saving(c), Runs(c),
           NEW harm \in BOOLEAN, GiveUp(c, harm),
           pages' \in [Pages -> Values \union {Torn}], programming' \in 0..CheckPage,
           check' \in {check, job[c].copy},
           harm \/ (UNCHANGED <<pages, check, programming>> /\ ~HalfDone(c)),
           UNCHANGED <<gate, held, udp, promised, attempts>>
    PROVE  SettingsInv'
  <1>1. job' = [job EXCEPT ![c] = JobAt("idle")] /\ damaged' = (damaged \/ harm)
    BY DEF GiveUp
  <1>2. /\ job' \in [Contexts -> Jobs] /\ job'["handler"].pc \in {"idle", "load", "save", "settle"}
        /\ \A d \in Contexts \ {c} : job'[d] = job[d]
        /\ ~HalfDone(c)'
        /\ \A d \in Contexts : Saving(d)' => job'[d].copy \in Settings
        /\ OverlapInv'
        /\ Recorded(c)' /\ LoadsPromise(c)' /\ StoresTold(c)'
    BY <1>1, LeaveJob
  <1>3. job[c].copy \in Settings /\ job[c].copy \in attempts
    BY DEF SettingsInv, SettingsTypeOK, RequestInv, Recorded
  <1>4. SettingsTypeOK'
    BY <1>1, <1>2, <1>3 DEF SettingsInv, SettingsTypeOK
  <1>5. RequestInv'
    <2>1. \A d \in Contexts \ {c} : Saving(d) => job[d].copy \in attempts'
      BY DEF SettingsInv, RequestInv, Recorded
    <2>2. \A d \in Contexts \ {c} : Recorded(d)' /\ LoadsPromise(d)' /\ StoresTold(d)'
      BY <1>2, <2>1, SavesAlone, OverlappedKept
    <2> QED BY <1>2, <2>2 DEF RequestInv
  <1>6. \A d \in Contexts \ {c} : HalfDone(d)' <=> HalfDone(d)
    BY <1>2 DEF HalfDone
  <1>7. ProgrammingInv' /\ StoreKeepsPromises'
    BY <1>1, <1>6 DEF SettingsInv, ProgrammingInv, StoreKeepsPromises
  <1>8. CheckInv'
    BY <1>3 DEF SettingsInv, CheckInv
  <1> QED BY <1>2, <1>4, <1>5, <1>7, <1>8 DEF SettingsInv

\* What a page transfer puts into the EEPROM.
LEMMA PutType ==
    ASSUME SettingsInv, NEW c \in Contexts, Saving(c), Put(c)
    PROVE  /\ pages' \in [Pages -> Values \union {Torn}] /\ programming' \in 0..CheckPage
           /\ check' \in {check, job[c].copy}
           /\ \A p \in Pages : p # job[c].page => pages'[p] = pages[p]
           /\ \A p \in Pages : p = job[c].page => pages'[p] = job[c].copy[p]
           /\ job[c].page = CheckPage => check' = job[c].copy
  <1> USE SettingsConstants, SettingsAssumption
  <1>1. job[c].copy \in [Pages -> Values] /\ job[c].page \in 1..CheckPage
    BY DEF SettingsInv, SettingsTypeOK, Jobs, Settings
  <1>2. pages \in [Pages -> Values \union {Torn}]
    BY DEF SettingsInv, SettingsTypeOK
  <1>3. programming' = job[c].page
    BY DEF Put
  <1>4. CASE job[c].page = CheckPage
    <2>1. check' = job[c].copy /\ pages' = pages
      BY <1>4 DEF Put
    <2> QED BY <1>1, <1>2, <1>3, <1>4, <2>1 DEF CheckPage
  <1>5. CASE job[c].page # CheckPage
    <2>1. job[c].page \in Pages
      BY <1>1, <1>5
    <2>2. pages' = [pages EXCEPT ![job[c].page] = job[c].copy[job[c].page]] /\ check' = check
      BY <1>5 DEF Put
    <2> QED BY <1>1, <1>2, <1>3, <1>5, <2>1, <2>2 DEF CheckPage
  <1> QED BY <1>4, <1>5

\* A page looks written: it is, unless the transfer was cut.
LEMMA WrittenStep ==
    ASSUME SettingsInv, NEW c \in Contexts, job[c].pc = "save", Runs(c), ToSettle(c),
           Put(c) \/ (job[c].cut /\ UNCHANGED eeprom),
           UNCHANGED <<gate, held, udp, promised, attempts>>
    PROVE  SettingsInv'
  <1> DEFINE j == [job[c] EXCEPT !.pc = "settle", !.cut = FALSE]
  <1>1. job[c] \in Jobs /\ Saving(c) /\ Busy(c)
    BY DEF SettingsInv, SettingsTypeOK, Saving, Busy
  <1>2. job' = [job EXCEPT ![c] = j] /\ UNCHANGED damaged
    BY DEF ToSettle, SettingsInv, SettingsTypeOK, Jobs
  <1>3. /\ j \in Jobs /\ j.pc = "settle" /\ ~j.cut /\ j.page = job[c].page /\ j.copy = job[c].copy
        /\ j.request = job[c].request /\ j.lossy = job[c].lossy /\ j.overlapped = job[c].overlapped
    BY <1>1 DEF Jobs
  <1>4. job[c].copy \in Settings /\ job[c].copy \in attempts /\ job[c].request.kind = "set"
    BY <1>1 DEF SettingsInv, SettingsTypeOK, RequestInv, Recorded
  <1> HIDE DEF j
  <1>5. /\ job' \in [Contexts -> Jobs] /\ job'["handler"].pc \in {"idle", "load", "save", "settle"}
        /\ job'[c] = j /\ \A d \in Contexts \ {c} : job'[d] = job[d]
        /\ \A d \in Contexts : Saving(d)' => job'[d].copy \in Settings
        /\ OverlapInv'
    BY <1>1, <1>2, <1>3, <1>4, GoOn
  <1>6. /\ pages' \in [Pages -> Values \union {Torn}] /\ programming' \in 0..CheckPage
        /\ check' \in {check, job[c].copy}
    BY <1>1, PutType DEF SettingsInv, SettingsTypeOK, eeprom
  <1>7. SettingsTypeOK'
    BY <1>2, <1>4, <1>5, <1>6 DEF SettingsInv, SettingsTypeOK
  <1>8. Recorded(c)' /\ LoadsPromise(c)' /\ StoresTold(c)'
    <2>1. Recorded(c)' /\ LoadsPromise(c)'
      BY <1>3, <1>4, <1>5 DEF Recorded, LoadsPromise
    <2>2. ASSUME ~job[c].overlapped
          PROVE  Stored(c)' /\ Faithful(c)'
      <3>1. Put(c) /\ Stored(c) /\ Faithful(c)
        BY <1>1, <2>2 DEF SettingsInv, OverlapInv, RequestInv, StoresTold
      <3>2. \A p \in Pages : p < job[c].page => pages'[p] = job[c].copy[p]
        BY <1>1, <3>1, PutType, SettingsConstants DEF Stored, Pages
      <3>3. Stored(c)'
        BY <1>1, <1>3, <1>5, <3>1, <3>2, PutType DEF Stored
      <3>4. Faithful(c)'
        BY <1>2, <1>3, <1>5, <3>1 DEF Faithful
      <3> QED BY <3>3, <3>4
    <2> QED BY <1>3, <1>5, <2>1, <2>2 DEF StoresTold
  <1>9. RequestInv'
    <2>1. \A d \in Contexts \ {c} : Saving(d) => job[d].copy \in attempts'
      BY DEF SettingsInv, RequestInv, Recorded
    <2>2. \A d \in Contexts \ {c} : Recorded(d)' /\ LoadsPromise(d)' /\ StoresTold(d)'
      BY <1>1, <1>5, <2>1, SavesAlone, OverlappedKept
    <2> QED BY <1>8, <2>2 DEF RequestInv
  <1>10. HalfDone(c)'
    BY <1>3, <1>5 DEF HalfDone
  <1>11. ProgrammingInv' /\ StoreKeepsPromises' /\ CheckInv'
    BY <1>4, <1>6, <1>10 DEF SettingsInv, ProgrammingInv, StoreKeepsPromises, CheckInv
  <1> QED BY <1>5, <1>7, <1>9, <1>11 DEF SettingsInv

LEMMA WritePageStep ==
    ASSUME SettingsInv, NEW c \in Contexts, WritePage(c)
    PROVE  SettingsInv'
  <1>1. /\ job[c].pc = "save" /\ Runs(c) /\ Saving(c)
        /\ UNCHANGED <<gate, held, udp, promised, attempts>>
    BY DEF WritePage, Saving
  <1>2. CASE ToSettle(c) /\ (Put(c) \/ (job[c].cut /\ UNCHANGED eeprom))
    BY <1>1, <1>2, WrittenStep
  <1>3. CASE Put(c) /\ GiveUp(c, TRUE)
    BY <1>1, <1>3, PutType, GiveUpStep
  <1>4. CASE GiveUp(c, HalfDone(c)) /\ UNCHANGED eeprom
    <2>1. UNCHANGED <<pages, check, programming>> /\ HalfDone(c) \in BOOLEAN
      BY <1>4 DEF eeprom, HalfDone
    <2>2. pages' \in [Pages -> Values \union {Torn}] /\ programming' \in 0..CheckPage
      BY <2>1 DEF SettingsInv, SettingsTypeOK
    <2> QED BY <1>1, <1>4, <2>1, <2>2, GiveUpStep
  <1> QED BY <1>2, <1>3, <1>4 DEF WritePage

\* The EEPROM has recovered, and there is another page to write.
LEMMA NextPageStep ==
    ASSUME SettingsInv, NEW c \in Contexts, job[c].pc = "settle", Runs(c), job[c].page # CheckPage,
           job' = [job EXCEPT ![c].page = @ + 1, ![c].pc = "save", ![c].cut = FALSE],
           UNCHANGED <<eeprom, gate, held, udp, history>>
    PROVE  SettingsInv'
  <1> USE SettingsConstants DEF eeprom, history
  <1> DEFINE j == [job[c] EXCEPT !.page = @ + 1, !.pc = "save", !.cut = FALSE]
  <1>1. job[c] \in Jobs /\ Saving(c) /\ Busy(c)
    BY DEF SettingsInv, SettingsTypeOK, Saving, Busy
  <1>2. job' = [job EXCEPT ![c] = j]
    BY DEF SettingsInv, SettingsTypeOK, Jobs
  <1>3. job[c].page \in Pages /\ job[c].page + 1 \in 1..CheckPage
    BY <1>1 DEF Jobs
  <1>4. /\ j \in Jobs /\ j.pc = "save" /\ ~j.cut /\ j.page = job[c].page + 1 /\ j.copy = job[c].copy
        /\ j.request = job[c].request /\ j.lossy = job[c].lossy /\ j.overlapped = job[c].overlapped
    BY <1>1, <1>3 DEF Jobs
  <1>5. job[c].copy \in Settings /\ job[c].copy \in attempts /\ job[c].request.kind = "set"
    BY <1>1 DEF SettingsInv, SettingsTypeOK, RequestInv, Recorded
  <1> HIDE DEF j
  <1>6. /\ job' \in [Contexts -> Jobs] /\ job'["handler"].pc \in {"idle", "load", "save", "settle"}
        /\ job'[c] = j /\ \A d \in Contexts \ {c} : job'[d] = job[d]
        /\ \A d \in Contexts : Saving(d)' => job'[d].copy \in Settings
        /\ OverlapInv'
    BY <1>1, <1>2, <1>4, <1>5, GoOn
  <1>7. SettingsTypeOK'
    BY <1>6 DEF SettingsInv, SettingsTypeOK
  <1>8. Recorded(c)' /\ LoadsPromise(c)' /\ StoresTold(c)'
    <2>1. Recorded(c)' /\ LoadsPromise(c)'
      BY <1>4, <1>5, <1>6 DEF Recorded, LoadsPromise
    <2>2. ASSUME ~job[c].overlapped
          PROVE  Stored(c)' /\ Faithful(c)'
      <3>1. Stored(c) /\ Faithful(c)
        BY <1>1, <2>2 DEF SettingsInv, RequestInv, StoresTold
      <3>2. Stored(c)'
        BY <1>3, <1>4, <1>6, <3>1 DEF Stored, Pages
      <3>3. Faithful(c)'
        BY <1>4, <1>6, <3>1 DEF Faithful
      <3> QED BY <3>2, <3>3
    <2> QED BY <1>4, <1>6, <2>1, <2>2 DEF StoresTold
  <1>9. RequestInv'
    BY <1>6, <1>8, RequestKept DEF RequestInv
  <1>10. HalfDone(c)'
    BY <1>3, <1>4, <1>6 DEF HalfDone, Pages
  <1>11. ProgrammingInv' /\ StoreKeepsPromises' /\ CheckInv'
    BY <1>10 DEF SettingsInv, ProgrammingInv, StoreKeepsPromises, CheckInv
  <1> QED BY <1>6, <1>7, <1>9, <1>11 DEF SettingsInv

\* The last page is stored: the request is answered with OK.
LEMMA AcknowledgeStep ==
    ASSUME SettingsInv, NEW c \in Contexts, job[c].pc = "settle", Runs(c), job[c].page = CheckPage,
           programming = 0 \/ job[c].cut, Acknowledge(c),
           UNCHANGED <<eeprom, gate, held, udp>>
    PROVE  SettingsInv'
  <1> USE DEF eeprom
  <1>1. job' = [job EXCEPT ![c] = JobAt("idle")] /\ Saving(c) /\ Busy(c)
    BY DEF Acknowledge, Saving, Busy
  <1>2. /\ job' \in [Contexts -> Jobs] /\ job'["handler"].pc \in {"idle", "load", "save", "settle"}
        /\ \A d \in Contexts \ {c} : job'[d] = job[d]
        /\ ~HalfDone(c)' /\ ~Saving(c)'
        /\ \A d \in Contexts : Saving(d)' => job'[d].copy \in Settings
        /\ OverlapInv'
        /\ Recorded(c)' /\ LoadsPromise(c)' /\ StoresTold(c)'
    BY <1>1, LeaveJob
  <1>3. CASE job[c].overlapped
    <2>1. damaged' = TRUE /\ UNCHANGED <<promised, attempts>>
      BY <1>3 DEF Acknowledge
    <2>2. SettingsTypeOK'
      BY <1>2, <2>1 DEF SettingsInv, SettingsTypeOK
    <2>3. RequestInv'
      BY <1>2, <2>1, RequestKept DEF RequestInv
    <2>4. ProgrammingInv' /\ StoreKeepsPromises' /\ CheckInv'
      BY <2>1 DEF SettingsInv, ProgrammingInv, StoreKeepsPromises, CheckInv
    <2> QED BY <1>2, <2>2, <2>3, <2>4 DEF SettingsInv
  <1>4. CASE ~job[c].overlapped
    <2> DEFINE r == job[c].request
    <2>1. /\ damaged' = FALSE
          /\ promised' = IF damaged \/ job[c].lossy THEN job[c].copy ELSE [promised EXCEPT ![r.setting] = r.value]
          /\ attempts' = {job[x].copy : x \in {y \in Contexts \ {c} : Saving(y)}}
      BY <1>4 DEF Acknowledge
    <2>2. Stored(c) /\ Faithful(c) /\ job[c].copy \in Settings
      BY <1>1, <1>4 DEF SettingsInv, SettingsTypeOK, RequestInv, StoresTold
    <2>3. promised' = job[c].copy
      BY <2>1, <2>2 DEF Faithful
    <2>4. pages = job[c].copy /\ check = job[c].copy
      <3>1. \A p \in Pages : pages[p] = job[c].copy[p]
        BY <2>2, SettingsAssumption DEF Stored, Pages, CheckPage
      <3>2. pages \in [Pages -> Values \union {Torn}] /\ job[c].copy \in [Pages -> Values \union {Torn}]
        BY <2>2, SettingsConstants DEF SettingsInv, SettingsTypeOK
      <3>3. check = job[c].copy
        BY <2>2 DEF Stored
      <3> QED BY <3>1, <3>2, <3>3
    <2>5. \A d \in Contexts \ {c} : Saving(d) => job[d].copy \in attempts'
      BY <2>1
    <2>6. attempts' \subseteq Settings
      BY <2>1 DEF SettingsInv, SettingsTypeOK
    <2>7. SettingsTypeOK'
      BY <1>2, <2>1, <2>2, <2>3, <2>6 DEF SettingsInv, SettingsTypeOK
    <2>8. RequestInv'
      <3>1. \A d \in Contexts \ {c} : Recorded(d)' /\ LoadsPromise(d)' /\ StoresTold(d)'
        BY <1>1, <1>2, <2>5, SavesAlone, OverlappedKept
      <3> QED BY <1>2, <3>1 DEF RequestInv
    <2>9. programming = 0
      BY <1>4 DEF SettingsInv, OverlapInv
    <2>10. ProgrammingInv' /\ StoreKeepsPromises' /\ CheckInv'
      BY <2>3, <2>4, <2>9 DEF ProgrammingInv, StoreKeepsPromises, CheckInv
    <2> QED BY <1>2, <2>7, <2>8, <2>10 DEF SettingsInv
  <1> QED BY <1>3, <1>4

LEMMA SettleStep ==
    ASSUME SettingsInv, NEW c \in Contexts, Settle(c)
    PROVE  SettingsInv'
  <1>1. job[c].pc = "settle" /\ Runs(c) /\ Saving(c) /\ UNCHANGED <<eeprom, gate, held, udp>>
    BY DEF Settle, Saving
  <1>2. CASE Recovered(c) /\ job[c].page = CheckPage
    BY <1>1, <1>2, AcknowledgeStep DEF Recovered
  <1>3. CASE Recovered(c) /\ job[c].page # CheckPage
    BY <1>1, <1>3, NextPageStep DEF Recovered, history
  <1>4. CASE PollGivesUp(c)
    <2>1. GiveUp(c, TRUE) /\ UNCHANGED <<promised, attempts>>
      BY <1>4 DEF PollGivesUp
    <2>2. UNCHANGED <<pages, check, programming>>
      BY <1>1 DEF eeprom
    <2>3. pages' \in [Pages -> Values \union {Torn}] /\ programming' \in 0..CheckPage
      BY <2>2 DEF SettingsInv, SettingsTypeOK
    <2> QED BY <1>1, <2>1, <2>2, <2>3, GiveUpStep
  <1> QED BY <1>2, <1>3, <1>4 DEF Settle

-----------------------------------------------------------------------------
\* Every step of the settings keeps their invariant.
LEMMA SettingsStep == SettingsInv /\ [SettingsNext]_settingsVars => SettingsInv'
  <1> SUFFICES ASSUME SettingsInv, [SettingsNext]_settingsVars PROVE SettingsInv'
    OBVIOUS
  <1>1. ASSUME NEW c \in Contexts, NEW r \in Requests, BeginRequest(c, r)
        PROVE  SettingsInv'
    BY <1>1, BeginRequestStep
  <1>2. ASSUME NEW c \in Contexts, NEW value \in GateValues, WriteGate(c, value)
        PROVE  SettingsInv'
    BY <1>2, WriteGateStep
  <1>3. ASSUME PowerLoss \/ \E c \in Contexts : Reboot(c)
        PROVE  SettingsInv'
    BY <1>3, RestartStep
  <1>4. ASSUME NEW c \in Contexts, Serve(c)
        PROVE  SettingsInv'
    BY <1>4, ReadPageStep, WritePageStep, SettleStep DEF Serve
  <1>5. ASSUME CountTest \/ CountRead \/ CountPut \/ Boot
        PROVE  SettingsInv'
    BY <1>5, CountStep
  <1>6. CASE Programmed
    BY <1>6, ProgrammedStep
  <1>7. CASE UNCHANGED settingsVars
    <2>1. /\ UNCHANGED <<pages, check, job, history>> /\ programming' = programming
          /\ gate' \in 0..GateMax /\ held' \in 0..GateMax /\ udp' \in 0..MaxUdp
      BY <1>7 DEF settingsVars, history, SettingsInv, SettingsTypeOK
    <2> QED BY <2>1, StandStill
  <1> QED BY <1>1, <1>2, <1>3, <1>4, <1>5, <1>6, <1>7 DEF SettingsNext

\* The invariant of the settings, from which the results below follow.
LEMMA SettingsAlways == SettingsSpec => []SettingsInv
  BY SettingsInitInv, SettingsStep, PTL DEF SettingsSpec

(* The EEPROM, the gate and both contexts' requests have their types, for    *)
(* any number of settings and requests (modbus_store_reg, config_save).      *)
THEOREM SettingsTypeCorrect == SettingsSpec => []SettingsTypeOK
  <1>1. SettingsInv => SettingsTypeOK
    BY DEF SettingsInv
  <1> QED BY <1>1, SettingsAlways, PTL

(* A setting acknowledged with OK is in the EEPROM, with all the others as   *)
(* they were, unless one of the known exceptions occurred since: for any     *)
(* number of pages, requests, restarts and interruptions (config_save).      *)
THEOREM PromisesAreKept == SettingsSpec => []StoreKeepsPromises
  <1>1. SettingsInv => StoreKeepsPromises
    BY DEF SettingsInv
  <1> QED BY <1>1, SettingsAlways, PTL

(* A load finds one configuration that was saved as such, or takes the       *)
(* defaults, wherever saves were broken off (config_load).                   *)
THEOREM NoMixedSettings == SettingsSpec => []LoadsAreWhole
  <1>1. SettingsInv => LoadsAreWhole
    <2> SUFFICES ASSUME SettingsInv, pages = check
                 PROVE  pages \in {Defaults, promised} \union attempts
      BY DEF LoadsAreWhole, Loadable, ChecksOut
    <2>1. pages # Torn
      BY SettingsAssumption DEF SettingsInv, SettingsTypeOK
    <2> QED BY <2>1 DEF SettingsInv, CheckInv
  <1> QED BY <1>1, SettingsAlways, PTL

-----------------------------------------------------------------------------
(* A request is answered, whatever the EEPROM does: each step of its        *)
(* context takes one of a number of steps that its pages alone determine.   *)

\* What a request may still take, when it is one that sets something.
StepsToAnswer(c) ==
    LET rest == CheckPage - job[c].page
    IN  CASE job[c].pc = "load" -> rest + 1 + 2 * CheckPage
          [] job[c].pc = "save" -> 2 * rest + 2
          [] OTHER              -> 2 * rest + 1

AnswersAreBounded ==
    [][\A c \in Contexts : Busy(c) =>
         /\ StepsToAnswer(c) \in 1..(3 * CheckPage)
         /\ ~Busy(c)' \/ StepsToAnswer(c)' <= StepsToAnswer(c)
         /\ Serve(c) => ~Busy(c)' \/ StepsToAnswer(c)' < StepsToAnswer(c)]_settingsVars

LEMMA RequestAt ==
    ASSUME SettingsTypeOK, NEW c \in Contexts
    PROVE  job[c].page \in 1..CheckPage /\ CheckPage \in Nat
  BY SettingsAssumption DEF SettingsTypeOK, Jobs, CheckPage

\* A job that is replaced, and what a step of the request makes of it.
LEMMA Replaced ==
    ASSUME SettingsTypeOK, NEW c \in Contexts, NEW j, job' = [job EXCEPT ![c] = j]
    PROVE  job'[c] = j /\ \A d \in Contexts \ {c} : job'[d] = job[d]
  BY DEF SettingsTypeOK

LEMMA AnswerNearer ==
    ASSUME SettingsTypeOK, NEW c \in Contexts, Serve(c)
    PROVE  /\ ~Busy(c)' \/ StepsToAnswer(c)' < StepsToAnswer(c)
           /\ \A d \in Contexts \ {c} : job'[d] = job[d]
  <1>1. job[c].page \in 1..CheckPage /\ CheckPage \in Nat
    BY RequestAt
  <1>2. ASSUME job' = [job EXCEPT ![c] = JobAt("idle")]
        PROVE  ~Busy(c)' /\ \A d \in Contexts \ {c} : job'[d] = job[d]
    BY <1>2, Replaced, JobAtType DEF Busy
  <1>3. CASE ReadPage(c)
    <2>1. job[c].pc = "load"
      BY <1>3 DEF ReadPage
    <2>2. CASE ReadCell(c)
      <3>1. /\ job[c].page \in Pages
            /\ job'[c].pc = job[c].pc /\ job'[c].page = job[c].page + 1
            /\ \A d \in Contexts \ {c} : job'[d] = job[d]
        BY <2>2 DEF ReadCell, SettingsTypeOK, Jobs
      <3> QED BY <1>1, <2>1, <3>1 DEF StepsToAnswer, Pages, CheckPage
    <2>3. ASSUME NEW config, NEW failed, Loaded(c, config, failed)
          PROVE  /\ ~Busy(c)' \/ StepsToAnswer(c)' < StepsToAnswer(c)
                 /\ \A d \in Contexts \ {c} : job'[d] = job[d]
      <3>1. CASE job[c].request.kind = "get"
        BY <1>2, <2>3, <3>1 DEF Loaded
      <3>2. CASE job[c].request.kind # "get"
        <4>1. PICK new : job' = [job EXCEPT ![c] =
                                   [@ EXCEPT !.pc = "save", !.page = 1, !.copy = new,
                                             !.cut = FALSE, !.lossy = failed]]
          BY <2>3, <3>2 DEF Loaded
        <4>2. /\ job'[c].pc = "save" /\ job'[c].page = 1
              /\ \A d \in Contexts \ {c} : job'[d] = job[d]
          BY <4>1 DEF SettingsTypeOK, Jobs
        <4> QED BY <1>1, <2>1, <4>2 DEF StepsToAnswer
      <3> QED BY <3>1, <3>2
    <2> QED BY <1>3, <2>2, <2>3 DEF ReadPage, ReadCheck
  <1>4. CASE WritePage(c)
    <2>1. job[c].pc = "save"
      BY <1>4 DEF WritePage
    <2>2. CASE ToSettle(c)
      <3>1. /\ job'[c].pc = "settle" /\ job'[c].page = job[c].page
            /\ \A d \in Contexts \ {c} : job'[d] = job[d]
        BY <2>2 DEF ToSettle, SettingsTypeOK, Jobs
      <3> QED BY <1>1, <2>1, <3>1 DEF StepsToAnswer
    <2>3. ASSUME NEW harm, GiveUp(c, harm)
          PROVE  ~Busy(c)' /\ \A d \in Contexts \ {c} : job'[d] = job[d]
      BY <1>2, <2>3 DEF GiveUp
    <2> QED BY <1>4, <2>2, <2>3 DEF WritePage
  <1>5. CASE Settle(c)
    <2>1. job[c].pc = "settle"
      BY <1>5 DEF Settle
    <2>2. CASE Acknowledge(c) \/ PollGivesUp(c)
      BY <1>2, <2>2 DEF Acknowledge, PollGivesUp, GiveUp
    <2>3. CASE job[c].page # CheckPage /\ Recovered(c)
      <3>1. /\ job'[c].pc = "save" /\ job'[c].page = job[c].page + 1
            /\ \A d \in Contexts \ {c} : job'[d] = job[d]
        BY <2>3 DEF Recovered, SettingsTypeOK, Jobs
      <3> QED BY <1>1, <2>1, <3>1 DEF StepsToAnswer
    <2> QED BY <1>5, <2>2, <2>3 DEF Settle, Recovered
  <1> QED BY <1>3, <1>4, <1>5 DEF Serve

\* All else ends a request or leaves it where it is.
LEMMA AnswerNotFarther ==
    ASSUME SettingsTypeOK, [SettingsNext]_settingsVars, NEW c \in Contexts, Busy(c)
    PROVE  \/ ~Busy(c)'
           \/ Serve(c)
           \/ job'[c].pc = job[c].pc /\ job'[c].page = job[c].page
  <1>1. ASSUME NEW d \in Contexts, NEW r \in Requests, BeginRequest(d, r)
        PROVE  job'[c].pc = job[c].pc /\ job'[c].page = job[c].page
    <2>1. c # d
      BY <1>1 DEF BeginRequest, Receives, Busy
    <2>2. job \in [Contexts -> Jobs]
      BY DEF SettingsTypeOK
    <2> QED BY <1>1, <2>1, <2>2 DEF BeginRequest, Jobs
  <1>2. CASE \E d \in Contexts : Serve(d)
    BY <1>2, AnswerNearer
  <1>3. ASSUME Down
        PROVE  ~Busy(c)'
    <2>1. job'[c] \in {JobAt("boot"), JobAt("idle")}
      BY <1>3 DEF Down
    <2> QED BY <2>1, JobAtType DEF Busy
  <1>4. ASSUME NEW next \in {"idle", "reread", "put"}, job' = [job EXCEPT !["loop"] = JobAt(next)]
        PROVE  ~Busy(c)' \/ job'[c] = job[c]
    <2>1. JobAt(next).pc = next
      BY JobAtType
    <2> QED BY <1>4, <2>1 DEF Busy, SettingsTypeOK, Contexts
  <1>5. CASE CountTest \/ CountRead \/ CountPut \/ Boot
    BY <1>4, <1>5 DEF CountTest, CountRead, CountPut, LoopAt, Boot
  <1>6. CASE \/ \E d \in Contexts, value \in GateValues : WriteGate(d, value)
             \/ Programmed
             \/ UNCHANGED settingsVars
    BY <1>6 DEF WriteGate, Programmed, settingsVars
  <1>7. CASE PowerLoss \/ \E d \in Contexts : Reboot(d)
    BY <1>3, <1>7 DEF PowerLoss, Reboot
  <1> QED BY <1>1, <1>2, <1>5, <1>6, <1>7 DEF SettingsNext

(* Every request is answered after at most three transfers or waits for      *)
(* each page of the settings, also when the EEPROM never gets ready and      *)
(* whatever else arrives (modbus_get_reg, modbus_store_reg, config_save).    *)
THEOREM RequestsEndInTime == SettingsSpec => AnswersAreBounded
  <1> DEFINE Bounded == \A c \in Contexts : Busy(c) =>
               /\ StepsToAnswer(c) \in 1..(3 * CheckPage)
               /\ ~Busy(c)' \/ StepsToAnswer(c)' <= StepsToAnswer(c)
               /\ Serve(c) => ~Busy(c)' \/ StepsToAnswer(c)' < StepsToAnswer(c)
  <1>1. SettingsTypeOK /\ SettingsTypeOK' /\ [SettingsNext]_settingsVars => Bounded
    <2> SUFFICES ASSUME SettingsTypeOK, SettingsTypeOK', [SettingsNext]_settingsVars, NEW c \in Contexts, Busy(c)
                 PROVE  /\ StepsToAnswer(c) \in 1..(3 * CheckPage)
                        /\ ~Busy(c)' \/ StepsToAnswer(c)' <= StepsToAnswer(c)
                        /\ Serve(c) => ~Busy(c)' \/ StepsToAnswer(c)' < StepsToAnswer(c)
      OBVIOUS
    <2>1. job[c].page \in 1..CheckPage /\ CheckPage \in Nat /\ CheckPage' = CheckPage
      BY RequestAt DEF CheckPage
    <2>2. StepsToAnswer(c) \in 1..(3 * CheckPage)
      BY <2>1 DEF StepsToAnswer, Busy
    <2>3. Serve(c) => ~Busy(c)' \/ StepsToAnswer(c)' < StepsToAnswer(c)
      BY AnswerNearer
    <2>4. job'[c].pc = job[c].pc /\ job'[c].page = job[c].page => StepsToAnswer(c)' = StepsToAnswer(c)
      BY <2>1 DEF StepsToAnswer
    <2>5. ~Busy(c)' \/ StepsToAnswer(c)' < StepsToAnswer(c) \/ StepsToAnswer(c)' = StepsToAnswer(c)
      BY <2>3, <2>4, AnswerNotFarther
    <2>6. StepsToAnswer(c) \in Int /\ StepsToAnswer(c)' \in Int
      <3>1. job'[c].page \in Int
        BY <2>1 DEF SettingsTypeOK, Jobs
      <3> QED BY <2>1, <3>1 DEF StepsToAnswer
    <2> QED BY <2>2, <2>3, <2>5, <2>6
  <1>2. SettingsTypeOK /\ SettingsTypeOK' /\ [SettingsNext]_settingsVars => [Bounded]_settingsVars
    BY <1>1
  <1> QED BY <1>2, SettingsTypeCorrect, PTL DEF SettingsSpec, AnswersAreBounded
=============================================================================
