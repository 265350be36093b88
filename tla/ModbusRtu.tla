----------------------------- MODULE ModbusRtu ------------------------------
(***************************************************************************)
(* The Modbus RTU receiver: the UART's interrupt appends bytes to a buffer *)
(* and notes the time; the event loop takes what is in the buffer for a    *)
(* request once the line has been silent for MODBUS_RX_DELAY_US, and       *)
(* answers it.                                                             *)
(*                                                                         *)
(* The bytes on the line are numbered 1, 2, ...; a message is a run of     *)
(* them.  Its bytes follow each other, and are read by the handler, within *)
(* less than the delay; two messages are at least the delay apart.  A      *)
(* message that lost bytes on the way is a shorter message.                *)
(*                                                                         *)
(* The handler runs to its end before the loop goes on, so it is one step; *)
(* the loop's steps are its accesses to what the handler changes.          *)
(***************************************************************************)
EXTENDS Integers

CONSTANTS Size,         \* MODBUS_RX_BUF_SIZE
          TxSize,       \* MODBUS_TX_BUF_SIZE
          Shortest,     \* the 5 bytes below which modbus_recv() refuses
          Delay,        \* MODBUS_RX_DELAY_US, in ticks
          FifoDepth,    \* receive FIFO of UART1
          Word,         \* 2^32 and 2^64: numbers of an unsigned type
          MaxLength,    \* bound on a message's length
          MaxMessages   \* bound on the number of messages

ASSUME RtuAssumption ==
    /\ Size \in Nat \ {0} /\ TxSize \in Nat \ {0}
    /\ Shortest \in Nat \ {0}
    /\ Delay \in Nat \ {0}
    /\ FifoDepth \in 1..Size
    /\ Word \in Nat /\ Word > TxSize + 1 /\ Word > Delay + 1
    /\ MaxLength \in Nat \ {0} /\ MaxMessages \in Nat

Slots == 0..(Size - 1)

VARIABLES sent,       \* bytes sent on the line so far
          begin,      \* number of the last byte before the current message
          end,        \* number of its last byte
          messages,   \* messages so far
          fifo,       \* bytes in the receive FIFO of UART1
          cells,      \* modbus_rtu_rx_buf
          len,        \* modbus_rtu_rx_len
          age,        \* time since modbus_rtu_rx_timestamp; Delay means Delay or more
          flag,       \* events_modbus_rtu_poll
          mie,        \* mstatus.MIE
          poll,       \* modbus_rtu_poll(): [at, elapsed, rx_len, tx_len]
          rx_buf,     \* its copy of the buffer
          settled,    \* history: number of the last byte taken or thrown away
          raced,      \* history: an interrupt came since the poll read its first operand
          split       \* history: the last request taken ended within a message

line == <<sent, begin, end, messages>>
vars == <<line, fifo, cells, len, age, flag, mie, poll, rx_buf, settled, raced, split>>

Received == sent - fifo

Points == {"idle", "clock_read", "stamp_read", "lock", "copy", "reset", "unlock",
           "recv", "reply"}

TypeOK ==
    /\ sent \in Nat /\ begin \in Nat /\ end \in Nat /\ messages \in 0..MaxMessages
    /\ fifo \in 0..FifoDepth
    /\ cells \in [Slots -> Nat] /\ len \in Slots
    /\ age \in 0..Delay
    /\ flag \in BOOLEAN /\ mie \in BOOLEAN
    /\ poll \in [at: Points, elapsed: -1..Delay, rx_len: Slots,
                 tx_len: 0..(Word - 1)]
    /\ rx_buf \in [Slots -> Nat]
    /\ settled \in Nat /\ raced \in BOOLEAN /\ split \in BOOLEAN

Init ==
    /\ sent = 0 /\ begin = 0 /\ end = 0 /\ messages = 0
    /\ fifo = 0
    /\ cells = [i \in Slots |-> 0] /\ len = 0 /\ age = Delay
    /\ flag = FALSE /\ mie = TRUE
    /\ poll = [at |-> "idle", elapsed |-> 0, rx_len |-> 0, tx_len |-> 0]
    /\ rx_buf = [i \in Slots |-> 0]
    /\ settled = 0 /\ raced = FALSE /\ split = FALSE

-----------------------------------------------------------------------------
(* The line and the time. *)

Begin(n) ==
    /\ messages < MaxMessages
    /\ sent = end /\ fifo = 0 /\ age = Delay
    /\ begin' = end /\ end' = end + n
    /\ messages' = messages + 1
    /\ UNCHANGED <<sent, fifo, cells, len, age, flag, mie, poll, rx_buf, settled, raced, split>>

Send ==
    /\ sent < end /\ fifo < FifoDepth
    /\ sent' = sent + 1 /\ fifo' = fifo + 1
    /\ UNCHANGED <<begin, end, messages, cells, len, age, flag, mie, poll, rx_buf, settled,
                   raced, split>>

Older(a) == IF a < Delay THEN a + 1 ELSE Delay

Tick ==
    /\ fifo = 0
    /\ begin < sent /\ sent < end => age + 1 < Delay
    /\ age' = Older(age)
    /\ poll' = IF poll.at = "stamp_read" THEN [poll EXCEPT !.elapsed = Older(@)] ELSE poll
    /\ UNCHANGED <<line, fifo, cells, len, flag, mie, rx_buf, settled, raced, split>>

-----------------------------------------------------------------------------
(* The interrupt handler. *)

\* A bug: the buffer's end is noticed one byte late.
PushedLate(n) == IF len + n > Size THEN len + n - Size ELSE len + n

\* The length after n more bytes: zero again when the buffer is full.
Pushed(n) == IF len + n >= Size THEN len + n - Size ELSE len + n

\* The n bytes received go to the cells behind the length, and round.
Filled(n) ==
    [i \in Slots |-> IF len <= i /\ i < len + n THEN Received + 1 + (i - len)
                     ELSE IF i + Size < len + n THEN Received + 1 + (i + Size - len)
                     ELSE cells[i]]

\* A poll that holds a clock value is overtaken by the new time stamp; the
\* operand read first is not read again.
Overtaken ==
    IF poll.at \in {"clock_read", "stamp_read", "lock"}
      THEN /\ raced' = TRUE
           /\ IF poll.at = "clock_read"
                THEN \E e \in {0, -1} : poll' = [poll EXCEPT !.elapsed = e]
                ELSE UNCHANGED poll
      ELSE UNCHANGED <<poll, raced>>

\* A bug: the time stamp is that of the first byte in the buffer.
modbus_rtu_rx_stamps_first ==
    /\ mie /\ fifo > 0
    /\ cells' = Filled(fifo)
    /\ len' = Pushed(fifo)
    /\ settled' = IF len + fifo >= Size THEN settled + Size ELSE settled
    /\ fifo' = 0
    /\ IF len = 0 THEN age' = 0 /\ Overtaken ELSE UNCHANGED <<age, poll, raced>>
    /\ flag' = TRUE
    /\ UNCHANGED <<line, mie, rx_buf, split>>

\* UART1's branch of externalInterrupt(): modbus_rtu_rx() reads all there is,
\* stamps, and the event is raised.
modbus_rtu_rx ==
    /\ mie /\ fifo > 0
    /\ cells' = Filled(fifo)
    /\ len' = Pushed(fifo)
    /\ settled' = IF len + fifo >= Size THEN settled + Size ELSE settled
    /\ fifo' = 0
    /\ age' = 0 /\ Overtaken
    /\ flag' = TRUE
    /\ UNCHANGED <<line, mie, rx_buf, split>>

\* A bug: the 50 ms timer does not raise the event.
Timer1Silent == mie /\ UNCHANGED vars

\* TIMER1's branch.
Timer1 ==
    /\ mie
    /\ flag' = TRUE
    /\ UNCHANGED <<line, fifo, cells, len, age, mie, poll, rx_buf, settled, raced, split>>

-----------------------------------------------------------------------------
(* The event loop. *)

\* The event is taken down; then modbus_rtu_poll() looks at the length and
\* reads the clock and the time stamp, in the order the compiler chose.
CheckFlag ==
    /\ poll.at = "idle" /\ flag
    /\ flag' = FALSE
    /\ IF len > 0
         THEN /\ raced' = FALSE
              /\ \E first \in {"clock_read", "stamp_read"} :
                   poll' = [poll EXCEPT !.at = first, !.elapsed = age]
         ELSE UNCHANGED <<poll, raced>>
    /\ UNCHANGED <<line, fifo, cells, len, age, mie, rx_buf, settled, split>>

\* The difference of two unsigned numbers.
Unsigned(d) == IF d < 0 THEN d + Word ELSE d
Elapsed == Unsigned(poll.elapsed)

\* The other operand is read and the difference compared.
Compare ==
    /\ poll.at \in {"clock_read", "stamp_read"}
    /\ poll' = [poll EXCEPT !.at = IF Elapsed >= Delay THEN "lock" ELSE "idle"]
    /\ UNCHANGED <<line, fifo, cells, len, age, flag, mie, rx_buf, settled, raced, split>>

\* A bug: the interrupts stay on.
LockMissing ==
    /\ poll.at = "lock"
    /\ poll' = [poll EXCEPT !.at = "copy"]
    /\ UNCHANGED <<line, fifo, cells, len, age, flag, mie, rx_buf, settled, raced, split>>

Lock ==
    /\ poll.at = "lock"
    /\ mie' = FALSE
    /\ poll' = [poll EXCEPT !.at = "copy"]
    /\ UNCHANGED <<line, fifo, cells, len, age, flag, rx_buf, settled, raced, split>>

Copy ==
    /\ poll.at = "copy"
    /\ poll' = [poll EXCEPT !.at = "reset", !.rx_len = len]
    /\ rx_buf' = [i \in Slots |-> IF i < len THEN cells[i] ELSE rx_buf[i]]
    /\ split' = (Received \notin {begin, end})
    /\ UNCHANGED <<line, fifo, cells, len, age, flag, mie, settled, raced>>

Reset ==
    /\ poll.at = "reset"
    /\ len' = 0
    /\ settled' = settled + poll.rx_len
    /\ poll' = [poll EXCEPT !.at = "unlock"]
    /\ UNCHANGED <<line, fifo, cells, age, flag, mie, rx_buf, raced, split>>

Unlock ==
    /\ poll.at = "unlock"
    /\ mie' = TRUE
    /\ poll' = [poll EXCEPT !.at = "recv"]
    /\ UNCHANGED <<line, fifo, cells, len, age, flag, rx_buf, settled, raced, split>>

-----------------------------------------------------------------------------
(* modbus_recv() answers what has a right check-sum and is for this device, *)
(* and anything else not at all (length 0); what is too short it refuses   *)
(* with -1, which becomes an unsigned length.                              *)

ReplyLengths == IF poll.rx_len < Shortest THEN {Unsigned(-1)} ELSE {0, TxSize}

modbus_recv ==
    /\ poll.at = "recv"
    /\ \E n \in ReplyLengths : poll' = [poll EXCEPT !.at = "reply", !.tx_len = n]
    /\ UNCHANGED <<line, fifo, cells, len, age, flag, mie, rx_buf, settled, raced, split>>

\* The reply goes out; one that is longer than its buffer does not end.
Reply ==
    /\ poll.at = "reply" /\ poll.tx_len <= TxSize
    /\ poll' = [poll EXCEPT !.at = "idle"]
    /\ UNCHANGED <<line, fifo, cells, len, age, flag, mie, rx_buf, settled, raced, split>>

-----------------------------------------------------------------------------
Handler == modbus_rtu_rx \/ Timer1
Loop == CheckFlag \/ Compare \/ Lock \/ Copy \/ Reset \/ Unlock \/ modbus_recv \/ Reply
Line == (\E n \in 1..MaxLength : Begin(n)) \/ Send \/ Tick

Next == Handler \/ Loop \/ Line

Spec == Init /\ [][Next]_vars

(* The processor runs; TIMER1 is started again by its handler and expires   *)
(* every 50 ms, with interrupts off only within the critical section; time  *)
(* passes.  The line need not ever send anything.                          *)
Fairness == WF_vars(modbus_rtu_rx) /\ SF_vars(Timer1) /\ WF_vars(Loop) /\ WF_vars(Tick)
FairSpec == Spec /\ Fairness

-----------------------------------------------------------------------------
\* No byte is lost, repeated or put out of place between the handler and the
\* loop: the buffer holds the bytes received since the last one taken or
\* thrown away, and a request taken holds those up to that one.
\* (modbus_rtu_rx() appends while modbus_rtu_poll() copies and empties.)
BytesInOrder ==
    /\ settled + len = Received
    /\ \A i \in Slots : i < len => cells[i] = settled + 1 + i
    /\ poll.at \in {"unlock", "recv"} =>
         \A i \in Slots : i < poll.rx_len => rx_buf[i] = rx_buf[0] + i

\* A message is not cut in two: what is taken ends with a message, unless the
\* interrupt came between the reads of clock and time stamp or before the
\* critical section.  (The delay that modbus_rtu_poll() waits for.)
MessagesNotSplit ==
    poll.at \in {"reset", "unlock", "recv"} /\ ~raced => ~split

\* A request is taken after the silence: the delay has passed since its last
\* byte was received.  (modbus.h: "10ms delay before RX complete".)
SilenceBeforeRequest ==
    poll.at \in {"copy", "reset"} => age >= Delay

\* A message that stands alone in the buffer is taken, unless the next one
\* comes first or the loop is caught in a reply, though the event its last
\* byte raised is used up before the line has been silent.
\* (main.c: TIMER1 raises it again.)
Caught == poll.at = "reply" /\ poll.tx_len > TxSize
Alone  == begin < end /\ Received = end /\ settled = begin /\ len > 0

MessageTaken == Alone /\ ~Caught ~> ~Alone \/ Caught
=============================================================================
