----------------------------- MODULE MonitorIrq -----------------------------
(***************************************************************************)
(* The monitor firmware's event core: device lines, the MicroPLIC, the     *)
(* interrupt handler that clears PENDING by read-modify-write, the event   *)
(* flags it raises and the loop process_and_wait() that consumes them.     *)
(*                                                                         *)
(* UART0, UART1 and MAC request by level: the line is high while their     *)
(* receive FIFO holds something.  TIMER0 and TIMER1 request by edge: an    *)
(* expired timer pulses its line once per prescaler period until           *)
(* timer_run() restarts it.  I2C, CGA and USB1 have handlers that only     *)
(* clear their bit (I2C and CGA are not enabled); USB1 stands for them.    *)
(*                                                                         *)
(* A FIFO is the number of bytes (frames for MAC) in it; what the bytes    *)
(* say belongs to other modules.  One step is one access to a register or  *)
(* to a variable that both the handler and the loop use.                   *)
(***************************************************************************)
EXTENDS Integers

CONSTANTS FifoDepth,     \* receive FIFO of a UART or of the MAC
          ConsoleSize,   \* CONSOLE_RX_BUF_SIZE
          ModbusSize,    \* MODBUS_RX_BUF_SIZE
          MaxArrivals    \* bound on the bytes and frames that ever arrive

ASSUME MonitorAssumption ==
    /\ FifoDepth \in Nat \ {0}
    /\ ConsoleSize \in Nat \ {0}
    /\ ModbusSize \in Nat \ {0}
    /\ MaxArrivals \in Nat

Level  == {"UART0", "UART1", "MAC"}
Timers == {"TIMER0", "TIMER1"}
Edge   == Timers \cup {"USB1"}
Lines  == Level \cup Edge
Events == {"console", "modbus", "mac"}

VARIABLES fifo,      \* [Level -> Nat]: what waits in each receive FIFO
          expired,   \* [Timers -> BOOLEAN]: timer_counter = timer_limit
          pending,   \* PLIC->PENDING
          isr,       \* the handler: [at, line, reg]
          flag,      \* events_console_poll, events_modbus_rtu_poll, events_mac_poll
          console,   \* console_rx_buf_len
          modbus,    \* modbus_rtu_rx_len
          quiet,     \* MODBUS_RX_DELAY_US passed since modbus_rtu_rx_timestamp
          loop,      \* where process_and_wait() is
          arrivals   \* bytes and frames so far

vars == <<fifo, expired, pending, isr, flag, console, modbus, quiet, loop, arrivals>>

IsrPoints  == {"off", "test", "serve", "drain", "raise", "read", "write"}
LoopPoints == {"console", "console_poll", "modbus", "modbus_poll", "modbus_take",
               "mac", "mac_poll", "mac_pop", "work"}

TypeOK ==
    /\ fifo \in [Level -> 0..FifoDepth]
    /\ expired \in [Timers -> BOOLEAN]
    /\ pending \in SUBSET Lines
    /\ isr \in [at: IsrPoints, line: Lines, reg: SUBSET Lines]
    /\ flag \in [Events -> BOOLEAN]
    /\ console \in 0..ConsoleSize
    /\ modbus \in 0..(ModbusSize - 1)   \* the next byte's place in the buffer
    /\ quiet \in BOOLEAN
    /\ loop \in LoopPoints
    /\ arrivals \in 0..MaxArrivals

Init ==
    /\ fifo = [l \in Level |-> 0]
    /\ expired = [t \in Timers |-> FALSE]
    /\ pending = {}
    /\ isr = [at |-> "off", line |-> "UART0", reg |-> {}]
    /\ flag = [e \in Events |-> FALSE]
    /\ console = 0
    /\ modbus = 0
    /\ quiet = TRUE
    /\ loop = "console"
    /\ arrivals = 0

-----------------------------------------------------------------------------
(* The interrupt controller.  After a step that leaves `kept` in PENDING,  *)
(* the next clock sets again every level line that is high; an edge is     *)
(* only there in the step that makes it, and the loop's or the handler's   *)
(* own write to PENDING wins over an edge that comes with it.              *)

\* Faulty variant: the receivers' lines are edge-sensitive as well.
LatchArrivals(kept) == pending' = kept \cup {l \in Level : fifo'[l] > fifo[l]}

Latch(kept) == pending' = kept \cup {l \in Level : fifo'[l] > 0}

(* A byte or frame arrives at a receiver that has room for it. *)
Arrive(l) ==
    /\ arrivals < MaxArrivals
    /\ fifo[l] < FifoDepth
    /\ fifo' = [fifo EXCEPT ![l] = @ + 1]
    /\ arrivals' = arrivals + 1
    /\ UNCHANGED <<expired, isr, flag, console, modbus, quiet, loop>>
    /\ Latch(pending)

(* A timer reaches its limit and stays there. *)
Expire(t) ==
    /\ ~expired[t]
    /\ expired' = [expired EXCEPT ![t] = TRUE]
    /\ UNCHANGED <<fifo, isr, flag, console, modbus, quiet, loop, arrivals>>
    /\ Latch(pending \cup {t})

(* An expired timer pulses once more: its prescaler has run down again. *)

\* Faulty variant: the counter runs past its limit, so the line pulses once.
NoFurtherPulse(t) == FALSE /\ UNCHANGED vars

Pulse(t) ==
    /\ expired[t]
    /\ UNCHANGED <<fifo, expired, isr, flag, console, modbus, quiet, loop, arrivals>>
    /\ Latch(pending \cup {t})

(* The USB controller's interrupt: a rising edge at any time. *)
UsbEdge ==
    /\ UNCHANGED <<fifo, expired, isr, flag, console, modbus, quiet, loop, arrivals>>
    /\ Latch(pending \cup {"USB1"})

(* No byte on the Modbus line for MODBUS_RX_DELAY_US. *)
Silence ==
    /\ ~quiet
    /\ quiet' = TRUE
    /\ UNCHANGED <<fifo, expired, isr, flag, console, modbus, loop, arrivals>>
    /\ Latch(pending)

-----------------------------------------------------------------------------
(* externalInterrupt().  For each source in turn: test its bit, serve it,  *)
(* clear the bit with PENDING &= ~bit, which is a read and a later write.  *)

Next_line == [UART0 |-> "UART1", UART1 |-> "MAC", MAC |-> "TIMER0",
              TIMER0 |-> "TIMER1", TIMER1 |-> "USB1", USB1 |-> "USB1"]

\* The trap: the PLIC asserts the interrupt while any bit is pending.
Trap ==
    /\ isr.at = "off"
    /\ pending # {}
    /\ isr' = [isr EXCEPT !.at = "test"]
    /\ UNCHANGED <<fifo, expired, flag, console, modbus, quiet, loop, arrivals>>
    /\ Latch(pending)

\* On to the next source, or mret after the last.
Advance == IF isr.line = "USB1"
             THEN isr' = [at |-> "off", line |-> "UART0", reg |-> {}]
             ELSE isr' = [at |-> "test", line |-> Next_line[isr.line], reg |-> {}]

Test ==
    /\ isr.at = "test"
    /\ IF isr.line \in pending
         THEN isr' = [isr EXCEPT !.at = "serve"]
         ELSE Advance
    /\ UNCHANGED <<fifo, expired, flag, console, modbus, quiet, loop, arrivals>>
    /\ Latch(pending)

\* One read of a receive FIFO's data register.  Reading it empty yields a
\* byte that nobody sent and leaves it empty.
Read1(l) == fifo' = [fifo EXCEPT ![l] = IF @ > 0 THEN @ - 1 ELSE 0]

\* modbus_rtu_rx_buf[modbus_rtu_rx_len++]: the length goes back to zero when
\* the buffer is full.
ModbusPush == modbus' = IF modbus + 1 >= ModbusSize THEN 0 ELSE modbus + 1

\* console_rx(): while there is occupancy, read; drop when the buffer is full.
console_rx ==
    /\ isr.at = "serve" /\ isr.line = "UART0"
    /\ IF fifo["UART0"] > 0
         THEN /\ Read1("UART0")
              /\ console' = IF console >= ConsoleSize THEN console ELSE console + 1
              /\ UNCHANGED isr
         ELSE /\ isr' = [isr EXCEPT !.at = "raise"]
              /\ UNCHANGED <<fifo, console>>
    /\ UNCHANGED <<expired, flag, modbus, quiet, loop, arrivals>>
    /\ Latch(pending)

\* modbus_rtu_rx(): its first read asks no one whether there is a byte, ...
modbus_rtu_rx_first ==
    /\ isr.at = "serve" /\ isr.line = "UART1"
    /\ Read1("UART1")
    /\ ModbusPush
    /\ isr' = [isr EXCEPT !.at = "drain"]
    /\ UNCHANGED <<expired, flag, console, quiet, loop, arrivals>>
    /\ Latch(pending)

\* ... the others do, and then the timestamp is taken.
modbus_rtu_rx_rest ==
    /\ isr.at = "drain"
    /\ IF fifo["UART1"] > 0
         THEN /\ Read1("UART1")
              /\ ModbusPush
              /\ UNCHANGED <<isr, quiet>>
         ELSE /\ isr' = [isr EXCEPT !.at = "raise"]
              /\ quiet' = FALSE
              /\ UNCHANGED <<fifo, modbus>>
    /\ UNCHANGED <<expired, flag, console, loop, arrivals>>
    /\ Latch(pending)

\* mac_rx() in the handler: frame after frame until none is pending.
mac_rx ==
    /\ isr.at = "serve" /\ isr.line = "MAC"
    /\ IF fifo["MAC"] > 0
         THEN Read1("MAC") /\ UNCHANGED isr
         ELSE isr' = [isr EXCEPT !.at = "read"] /\ UNCHANGED fifo
    /\ UNCHANGED <<expired, flag, console, modbus, quiet, loop, arrivals>>
    /\ Latch(pending)

\* timer_run(): the counter starts again from zero.
TimerRun ==
    /\ isr.at = "serve" /\ isr.line \in Timers
    /\ expired' = [expired EXCEPT ![isr.line] = FALSE]
    /\ isr' = [isr EXCEPT !.at = "raise"]
    /\ UNCHANGED <<fifo, flag, console, modbus, quiet, loop, arrivals>>
    /\ Latch(pending)

\* The USB1 branch does nothing before it clears its bit.
UsbBranch ==
    /\ isr.at = "serve" /\ isr.line = "USB1"
    /\ isr' = [isr EXCEPT !.at = "read"]
    /\ UNCHANGED <<fifo, expired, flag, console, modbus, quiet, loop, arrivals>>
    /\ Latch(pending)

EventOf == [UART0 |-> "console", UART1 |-> "modbus", MAC |-> "mac",
            TIMER0 |-> "mac", TIMER1 |-> "modbus", USB1 |-> "mac"]

Raise ==
    /\ isr.at = "raise"
    /\ flag' = [flag EXCEPT ![EventOf[isr.line]] = TRUE]
    /\ isr' = [isr EXCEPT !.at = "read"]
    /\ UNCHANGED <<fifo, expired, console, modbus, quiet, loop, arrivals>>
    /\ Latch(pending)

ClearRead ==
    /\ isr.at = "read"
    /\ isr' = [isr EXCEPT !.at = "write", !.reg = pending]
    /\ UNCHANGED <<fifo, expired, flag, console, modbus, quiet, loop, arrivals>>
    /\ Latch(pending)

\* Faulty variant: the handler returns with its own bit still set in the mask.
WrittenKeepsBit == isr.reg

\* What PENDING &= ~bit puts back.
Written == isr.reg \ {isr.line}

ClearWrite ==
    /\ isr.at = "write"
    /\ Advance
    /\ UNCHANGED <<fifo, expired, flag, console, modbus, quiet, loop, arrivals>>
    /\ Latch(Written)

-----------------------------------------------------------------------------
(* process_and_wait(), which runs while no handler does: it takes a flag   *)
(* down and then polls.  "work" is the rest of the main loop.              *)

AfterFlag == [console |-> "modbus", modbus |-> "mac", mac |-> "work"]
PollOf    == [console |-> "console_poll", modbus |-> "modbus_poll", mac |-> "mac_poll"]

\* Faulty variant: one write takes all the flags down.
CheckFlagAll(e) ==
    /\ isr.at = "off" /\ loop = e
    /\ IF flag[e]
         THEN /\ flag' = [f \in Events |-> FALSE]
              /\ loop' = PollOf[e]
         ELSE /\ loop' = AfterFlag[e]
              /\ UNCHANGED flag
    /\ UNCHANGED <<fifo, expired, isr, console, modbus, quiet, arrivals>>
    /\ Latch(pending)

CheckFlag(e) ==
    /\ isr.at = "off" /\ loop = e
    /\ IF flag[e]
         THEN /\ flag' = [flag EXCEPT ![e] = FALSE]
              /\ loop' = PollOf[e]
         ELSE /\ loop' = AfterFlag[e]
              /\ UNCHANGED flag
    /\ UNCHANGED <<fifo, expired, isr, console, modbus, quiet, arrivals>>
    /\ Latch(pending)

\* console_poll(): copies the buffer and empties it with interrupts off, so
\* the two are one step; the length it tests first only grows meanwhile.
console_poll ==
    /\ isr.at = "off" /\ loop = "console_poll"
    /\ console' = 0
    /\ loop' = AfterFlag["console"]
    /\ UNCHANGED <<fifo, expired, isr, flag, modbus, quiet, arrivals>>
    /\ Latch(pending)

\* modbus_rtu_poll(): the test of length and silence, with interrupts on, ...
modbus_rtu_poll ==
    /\ isr.at = "off" /\ loop = "modbus_poll"
    /\ loop' = IF modbus > 0 /\ quiet THEN "modbus_take" ELSE AfterFlag["modbus"]
    /\ UNCHANGED <<fifo, expired, isr, flag, console, modbus, quiet, arrivals>>
    /\ Latch(pending)

\* ... and the critical section, after which the request is answered.
modbus_rtu_take ==
    /\ isr.at = "off" /\ loop = "modbus_take"
    /\ modbus' = 0
    /\ loop' = AfterFlag["modbus"]
    /\ UNCHANGED <<fifo, expired, isr, flag, console, quiet, arrivals>>
    /\ Latch(pending)

\* mac_poll(): a frame the handler has not seen is received from the loop,
\* where mac_rx() tests and pops with interrupts on.
mac_poll ==
    /\ isr.at = "off" /\ loop = "mac_poll"
    /\ loop' = IF fifo["MAC"] > 0 THEN "mac_pop" ELSE AfterFlag["mac"]
    /\ UNCHANGED <<fifo, expired, isr, flag, console, modbus, quiet, arrivals>>
    /\ Latch(pending)

mac_pop ==
    /\ isr.at = "off" /\ loop = "mac_pop"
    /\ Read1("MAC")
    /\ loop' = "mac_poll"
    /\ UNCHANGED <<expired, isr, flag, console, modbus, quiet, arrivals>>
    /\ Latch(pending)

Work ==
    /\ isr.at = "off" /\ loop = "work"
    /\ loop' = "console"
    /\ UNCHANGED <<fifo, expired, isr, flag, console, modbus, quiet, arrivals>>
    /\ Latch(pending)

-----------------------------------------------------------------------------
Serve == console_rx \/ modbus_rtu_rx_first \/ modbus_rtu_rx_rest \/ mac_rx
         \/ TimerRun \/ UsbBranch
Handler == Trap \/ Test \/ Serve \/ Raise \/ ClearRead \/ ClearWrite
Main == (\E e \in Events : CheckFlag(e)) \/ console_poll \/ modbus_rtu_poll
        \/ modbus_rtu_take \/ mac_poll \/ mac_pop \/ Work
Devices == (\E l \in Level : Arrive(l)) \/ (\E t \in Timers : Expire(t) \/ Pulse(t))
           \/ UsbEdge \/ Silence

Next == Handler \/ Main \/ Devices

(* The clock drives the processor and the timers.  Between two pulses of   *)
(* an expired timer there is a prescaler period, longer than a handler's   *)
(* read-modify-write, so pulses cannot fall into such a window for ever:   *)
(* a pulse outside of it is strongly fair.  Silence is the passing of time.*)
(* Interrupts come from finite traffic and from timers that are served, so *)
(* they leave the loop time to run: it is strongly fair against the trap.  *)
PulseSeen(t) == isr.at # "write" /\ Pulse(t)

Fairness ==
    /\ WF_vars(Handler)
    /\ SF_vars(Main)
    /\ \A t \in Timers : WF_vars(Expire(t)) /\ SF_vars(PulseSeen(t))
    /\ WF_vars(Silence)

Spec == Init /\ [][Next]_vars /\ Fairness

-----------------------------------------------------------------------------
\* No wake-up is lost: while console_rx_buf holds a byte, the console's flag
\* is up, or the handler is about to raise it, or the loop is about to poll.
\* (main.c takes the flag down before the poll and console_rx fills first.)
NoLostWakeup ==
    console > 0 =>
        \/ flag["console"]
        \/ loop = "console_poll"
        \/ isr.line = "UART0" /\ isr.at \in {"serve", "raise"}

\* modbus_rtu_rx reads UART1->DATA once before it looks at the occupancy: the
\* PENDING bit it was called for must stand for a byte that is really there,
\* whatever the other handlers' read-modify-writes have put back.
NoEmptyRead ==
    isr.at = "serve" /\ isr.line = "UART1" => fifo["UART1"] > 0

\* Clearing PENDING by read-modify-write loses no receiver's request: what
\* arrives is read sooner or later.
ReceiversServed == \A l \in Level : fifo[l] > 0 ~> fifo[l] = 0

\* A Modbus request is taken from its buffer, though the flag that UART1
\* raised is used up while the line was not yet silent: TIMER1 raises it again,
\* although another handler's write may wipe out any pulse of a timer.
RequestTaken == modbus > 0 ~> modbus = 0
=============================================================================
