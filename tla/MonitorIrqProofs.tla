-------------------------- MODULE MonitorIrqProofs --------------------------
(***************************************************************************)
(* Proofs about MonitorIrq for FIFOs and buffers of every size and for any *)
(* amount of traffic.                                                      *)
(***************************************************************************)
EXTENDS MonitorIrq, TLAPS

\* The tables of the handler and of the loop stay within their types.
LEMMA Tables ==
    /\ \A l \in Lines : Next_line[l] \in Lines /\ EventOf[l] \in Events
    /\ \A e \in Events : AfterFlag[e] \in LoopPoints /\ PollOf[e] \in LoopPoints
    /\ AfterFlag["console"] \in LoopPoints
    /\ AfterFlag["modbus"] \in LoopPoints
    /\ AfterFlag["mac"] \in LoopPoints
    /\ EventOf["UART0"] = "console"
    /\ PollOf["console"] = "console_poll"
  BY DEF Next_line, EventOf, AfterFlag, PollOf, Lines, Level, Edge, Timers, Events, LoopPoints

\* Whatever step latches, PENDING remains a set of lines.
LEMMA LatchType ==
    ASSUME NEW kept \in SUBSET Lines, Latch(kept)
    PROVE  pending' \in SUBSET Lines
  BY DEF Latch, Lines

\* A pop leaves a FIFO within its depth and touches no other FIFO.
LEMMA Read1Type ==
    ASSUME fifo \in [Level -> 0..FifoDepth], NEW l \in Level, Read1(l)
    PROVE  /\ fifo' \in [Level -> 0..FifoDepth]
           /\ \A k \in Level \ {l} : fifo'[k] = fifo[k]
  BY MonitorAssumption DEF Read1

\* The Modbus receive index is a valid place in the buffer after each byte.
LEMMA ModbusPushType ==
    ASSUME modbus \in 0..(ModbusSize - 1), ModbusPush
    PROVE  modbus' \in 0..(ModbusSize - 1)
  BY MonitorAssumption DEF ModbusPush

\* Going on to the next source, or leaving the handler, is well-typed and
\* ends at "test" or "off".
LEMMA AdvanceType ==
    ASSUME isr \in [at: IsrPoints, line: Lines, reg: SUBSET Lines], Advance
    PROVE  /\ isr' \in [at: IsrPoints, line: Lines, reg: SUBSET Lines]
           /\ isr'.at \in {"test", "off"}
           /\ isr'.reg = {}
  <1>1. isr.line \in Lines /\ Next_line[isr.line] \in Lines
    BY Tables
  <1>2. "UART0" \in Lines
    BY DEF Lines, Level
  <1> QED BY <1>1, <1>2 DEF Advance, IsrPoints

-----------------------------------------------------------------------------
LEMMA TypeInit == Init => TypeOK
  BY MonitorAssumption DEF Init, TypeOK, Lines, Level, IsrPoints, LoopPoints

LEMMA TypeStep == TypeOK /\ [Next]_vars => TypeOK'
  <1> SUFFICES ASSUME TypeOK, [Next]_vars PROVE TypeOK'
    OBVIOUS
  <1> USE DEF TypeOK
  <1>1. ASSUME NEW l \in Level, Arrive(l) PROVE TypeOK'
    <2>1. pending' \in SUBSET Lines
      BY <1>1, LatchType DEF Arrive
    <2>2. fifo' \in [Level -> 0..FifoDepth] /\ arrivals' \in 0..MaxArrivals
      BY <1>1, MonitorAssumption DEF Arrive
    <2> QED BY <1>1, <2>1, <2>2 DEF Arrive
  <1>2. ASSUME NEW t \in Timers, Expire(t) PROVE TypeOK'
    <2>1. pending' \in SUBSET Lines
      BY <1>2, LatchType DEF Expire, Lines, Edge
    <2> QED BY <1>2, <2>1 DEF Expire
  <1>3. ASSUME NEW t \in Timers, Pulse(t) PROVE TypeOK'
    <2>1. pending' \in SUBSET Lines
      BY <1>3, LatchType DEF Pulse, Lines, Edge
    <2> QED BY <1>3, <2>1 DEF Pulse
  <1>4. CASE UsbEdge
    <2>1. pending' \in SUBSET Lines
      BY <1>4, LatchType DEF UsbEdge, Lines, Edge
    <2> QED BY <1>4, <2>1 DEF UsbEdge
  <1>5. CASE Silence
    BY <1>5, LatchType DEF Silence
  <1>6. CASE Trap
    BY <1>6, LatchType DEF Trap, IsrPoints
  <1>7. CASE Test
    <2>1. isr' \in [at: IsrPoints, line: Lines, reg: SUBSET Lines]
      BY <1>7, AdvanceType DEF Test, IsrPoints
    <2> QED BY <1>7, <2>1, LatchType DEF Test
  <1>8. CASE console_rx
    <2>1. fifo' \in [Level -> 0..FifoDepth]
      BY <1>8, Read1Type DEF console_rx, Level
    <2>2. console' \in 0..ConsoleSize
      BY <1>8, MonitorAssumption DEF console_rx
    <2>3. isr' \in [at: IsrPoints, line: Lines, reg: SUBSET Lines]
      BY <1>8 DEF console_rx, IsrPoints
    <2> QED BY <1>8, <2>1, <2>2, <2>3, LatchType DEF console_rx
  <1>9. CASE modbus_rtu_rx_first
    <2>1. fifo' \in [Level -> 0..FifoDepth]
      BY <1>9, Read1Type DEF modbus_rtu_rx_first, Level
    <2> QED BY <1>9, <2>1, LatchType, ModbusPushType DEF modbus_rtu_rx_first, IsrPoints
  <1>10. CASE modbus_rtu_rx_rest
    <2>1. fifo' \in [Level -> 0..FifoDepth]
      BY <1>10, Read1Type DEF modbus_rtu_rx_rest, Level
    <2>2. modbus' \in 0..(ModbusSize - 1)
      BY <1>10, ModbusPushType DEF modbus_rtu_rx_rest
    <2>3. isr' \in [at: IsrPoints, line: Lines, reg: SUBSET Lines] /\ quiet' \in BOOLEAN
      BY <1>10 DEF modbus_rtu_rx_rest, IsrPoints
    <2> QED BY <1>10, <2>1, <2>2, <2>3, LatchType DEF modbus_rtu_rx_rest
  <1>11. CASE mac_rx
    <2>1. fifo' \in [Level -> 0..FifoDepth]
      BY <1>11, Read1Type DEF mac_rx, Level
    <2>2. isr' \in [at: IsrPoints, line: Lines, reg: SUBSET Lines]
      BY <1>11 DEF mac_rx, IsrPoints
    <2> QED BY <1>11, <2>1, <2>2, LatchType DEF mac_rx
  <1>12. CASE TimerRun
    BY <1>12, LatchType DEF TimerRun, IsrPoints
  <1>13. CASE UsbBranch
    BY <1>13, LatchType DEF UsbBranch, IsrPoints
  <1>14. CASE Raise
    <2>1. flag' \in [Events -> BOOLEAN]
      BY <1>14, Tables DEF Raise
    <2> QED BY <1>14, <2>1, LatchType DEF Raise, IsrPoints
  <1>15. CASE ClearRead
    BY <1>15, LatchType DEF ClearRead, IsrPoints
  <1>16. CASE ClearWrite
    <2>1. Written \in SUBSET Lines
      BY DEF Written
    <2>2. pending' \in SUBSET Lines
      BY <1>16, <2>1, LatchType DEF ClearWrite
    <2> QED BY <1>16, <2>2, AdvanceType DEF ClearWrite
  <1>17. ASSUME NEW e \in Events, CheckFlag(e) PROVE TypeOK'
    <2>1. flag' \in [Events -> BOOLEAN] /\ loop' \in LoopPoints
      BY <1>17, Tables DEF CheckFlag
    <2> QED BY <1>17, <2>1, LatchType DEF CheckFlag
  <1>18. CASE console_poll
    BY <1>18, LatchType, Tables, MonitorAssumption DEF console_poll
  <1>19. CASE modbus_rtu_poll
    <2>1. loop' \in LoopPoints
      BY <1>19, Tables DEF modbus_rtu_poll, LoopPoints
    <2> QED BY <1>19, <2>1, LatchType DEF modbus_rtu_poll
  <1>20. CASE modbus_rtu_take
    BY <1>20, LatchType, Tables, MonitorAssumption DEF modbus_rtu_take
  <1>21. CASE mac_poll
    <2>1. loop' \in LoopPoints
      BY <1>21, Tables DEF mac_poll, LoopPoints
    <2> QED BY <1>21, <2>1, LatchType DEF mac_poll
  <1>22. CASE mac_pop
    <2>1. fifo' \in [Level -> 0..FifoDepth]
      BY <1>22, Read1Type DEF mac_pop, Level
    <2> QED BY <1>22, <2>1, LatchType DEF mac_pop, LoopPoints
  <1>23. CASE Work
    BY <1>23, LatchType DEF Work, LoopPoints
  <1>24. CASE UNCHANGED vars
    BY <1>24 DEF vars
  <1> QED
    BY <1>1, <1>2, <1>3, <1>4, <1>5, <1>6, <1>7, <1>8, <1>9, <1>10, <1>11, <1>12, <1>13,
       <1>14, <1>15, <1>16, <1>17, <1>18, <1>19, <1>20, <1>21, <1>22, <1>23, <1>24
    DEF Next, Handler, Serve, Main, Devices

\* Every state of the event core is well-typed; in particular neither receive
\* index ever leaves its buffer.
THEOREM TypeCorrect == Spec => []TypeOK
  BY TypeInit, TypeStep, PTL DEF Spec

-----------------------------------------------------------------------------
(* What makes the unconditional read of UART1 safe: wherever a 1 of its    *)
(* PENDING bit is kept, in PENDING or in the copy another source's clear   *)
(* is about to write back, a byte waits or UART1's own handler is past its *)
(* test and will clear the bit.                                            *)
Serving1 == isr.line = "UART1" /\ isr.at \in {"drain", "raise", "read", "write"}

PendingStands ==
    /\ "UART1" \in pending => fifo["UART1"] > 0 \/ Serving1
    /\ isr.at = "write" /\ "UART1" \in isr.reg => fifo["UART1"] > 0 \/ Serving1

DrainIsUart1 == isr.at = "drain" => isr.line = "UART1"

ReadInv == TypeOK /\ PendingStands /\ DrainIsUart1 /\ NoEmptyRead

\* A step that neither reads UART1 nor moves the handler keeps the invariant.
LEMMA Bystander ==
    ASSUME ReadInv, isr' = isr, fifo'["UART1"] >= fifo["UART1"], TypeOK',
           NEW kept \in SUBSET Lines, Latch(kept), "UART1" \in kept => "UART1" \in pending
    PROVE  PendingStands' /\ DrainIsUart1' /\ NoEmptyRead'
  <1>1. fifo["UART1"] \in Int /\ fifo'["UART1"] \in Int
    BY DEF ReadInv, TypeOK, Level
  <1>2. "UART1" \in pending' => "UART1" \in pending \/ fifo'["UART1"] > 0
    BY DEF Latch
  <1>3. fifo["UART1"] > 0 => fifo'["UART1"] > 0
    BY <1>1
  <1> QED BY <1>2, <1>3 DEF ReadInv, PendingStands, DrainIsUart1, NoEmptyRead, Serving1

\* A step that moves the handler from one source's work to its next point,
\* away from the three critical ones, keeps the invariant.
LEMMA HandlerMove ==
    ASSUME ReadInv, TypeOK', fifo'["UART1"] = fifo["UART1"], Latch(pending),
           isr'.line = isr.line,
           Serving1 => Serving1',
           isr'.at \in {"raise", "read"}
    PROVE  PendingStands' /\ DrainIsUart1' /\ NoEmptyRead'
  <1>1. "UART1" \in pending' => "UART1" \in pending \/ fifo'["UART1"] > 0
    BY DEF Latch
  <1> QED BY <1>1 DEF ReadInv, PendingStands, DrainIsUart1, NoEmptyRead

LEMMA ReadStep == ReadInv /\ [Next]_vars => ReadInv'
  <1> SUFFICES ASSUME ReadInv, [Next]_vars
               PROVE  PendingStands' /\ DrainIsUart1' /\ NoEmptyRead'
    BY TypeStep DEF ReadInv
  <1>0. TypeOK /\ TypeOK'
    BY TypeStep DEF ReadInv
  <1>a. /\ fifo \in [Level -> 0..FifoDepth] /\ fifo' \in [Level -> 0..FifoDepth]
        /\ fifo["UART1"] \in Int /\ fifo'["UART1"] \in Int
        /\ isr \in [at: IsrPoints, line: Lines, reg: SUBSET Lines]
        /\ pending \in SUBSET Lines
        /\ "UART1" \in Level
    BY <1>0 DEF TypeOK, Level
  <1>1. ASSUME NEW l \in Level, Arrive(l) PROVE PendingStands' /\ DrainIsUart1' /\ NoEmptyRead'
    <2>1. fifo'["UART1"] >= fifo["UART1"] /\ isr' = isr /\ Latch(pending)
      BY <1>1, <1>a DEF Arrive
    <2> QED BY <2>1, <1>0, <1>a, Bystander
  <1>2. ASSUME NEW t \in Timers, Expire(t) \/ Pulse(t)
        PROVE PendingStands' /\ DrainIsUart1' /\ NoEmptyRead'
    <2>1. pending \cup {t} \in SUBSET Lines /\ t # "UART1"
      BY <1>a DEF Timers, Lines, Edge
    <2>2. fifo'["UART1"] >= fifo["UART1"] /\ isr' = isr /\ Latch(pending \cup {t})
      BY <1>2, <1>a DEF Expire, Pulse
    <2>3. "UART1" \in pending \cup {t} => "UART1" \in pending
      BY <2>1
    <2> QED BY <2>1, <2>2, <2>3, <1>0, <1>a, Bystander
  <1>3. CASE UsbEdge
    <2>1. pending \cup {"USB1"} \in SUBSET Lines
      BY <1>a DEF Lines, Edge
    <2>2. fifo'["UART1"] >= fifo["UART1"] /\ isr' = isr /\ Latch(pending \cup {"USB1"})
      BY <1>3, <1>a DEF UsbEdge
    <2> QED BY <2>1, <2>2, <1>0, <1>a, Bystander
  <1>4. CASE Silence \/ console_poll \/ modbus_rtu_poll \/ modbus_rtu_take \/ mac_poll \/ Work
    <2>1. fifo'["UART1"] >= fifo["UART1"] /\ isr' = isr /\ Latch(pending)
      BY <1>4, <1>a DEF Silence, console_poll, modbus_rtu_poll, modbus_rtu_take, mac_poll, Work
    <2> QED BY <2>1, <1>0, <1>a, Bystander
  <1>5. ASSUME NEW e \in Events, CheckFlag(e) PROVE PendingStands' /\ DrainIsUart1' /\ NoEmptyRead'
    <2>1. fifo'["UART1"] >= fifo["UART1"] /\ isr' = isr /\ Latch(pending)
      BY <1>5, <1>a DEF CheckFlag
    <2> QED BY <2>1, <1>0, <1>a, Bystander
  <1>6. CASE mac_pop
    <2>1. fifo'["UART1"] = fifo["UART1"]
      BY <1>6, <1>a, Read1Type DEF mac_pop, Level
    <2>2. isr' = isr /\ Latch(pending)
      BY <1>6 DEF mac_pop
    <2> QED BY <2>1, <2>2, <1>0, <1>a, Bystander
  <1>7. CASE Trap
    BY <1>7, <1>a DEF Trap, Latch, ReadInv, PendingStands, DrainIsUart1, NoEmptyRead, Serving1
  <1>8. CASE Test
    <2>1. Latch(pending) /\ fifo' = fifo /\ isr.at = "test"
      BY <1>8 DEF Test
    <2>2. "UART1" \in pending' => fifo'["UART1"] > 0
      BY <2>1 DEF Latch, ReadInv, PendingStands, Serving1
    <2>3. CASE isr.line \in pending
      <3>1. isr' = [isr EXCEPT !.at = "serve"]
        BY <1>8, <2>3 DEF Test
      <3>2. isr'.at = "serve" /\ isr'.line = isr.line
        BY <3>1, <1>a
      <3> QED BY <2>1, <2>2, <2>3, <3>2, <1>a
              DEF ReadInv, PendingStands, DrainIsUart1, NoEmptyRead, Serving1
    <2>4. CASE isr.line \notin pending
      BY <1>8, <2>2, <2>4, <1>a, AdvanceType DEF Test, PendingStands, DrainIsUart1, NoEmptyRead
    <2> QED BY <2>3, <2>4
  <1>9. CASE console_rx
    <2>1. fifo'["UART1"] = fifo["UART1"]
      BY <1>9, <1>a, Read1Type DEF console_rx, Level
    <2>2. isr.line = "UART0" /\ isr.at = "serve" /\ Latch(pending)
      BY <1>9 DEF console_rx
    <2>3. CASE isr' = isr
      BY <2>1, <2>2, <2>3, <1>0, <1>a, Bystander
    <2>4. CASE isr' = [isr EXCEPT !.at = "raise"]
      BY <2>1, <2>2, <2>4, <1>0, <1>a, HandlerMove DEF Serving1
    <2> QED BY <1>9, <2>3, <2>4 DEF console_rx
  <1>10. CASE modbus_rtu_rx_first
    <2>1. isr.line = "UART1" /\ isr' = [isr EXCEPT !.at = "drain"]
      BY <1>10 DEF modbus_rtu_rx_first
    <2> QED BY <2>1, <1>a DEF PendingStands, DrainIsUart1, NoEmptyRead, Serving1
  <1>11. CASE modbus_rtu_rx_rest
    <2>1. isr.line = "UART1" /\ isr.at = "drain"
      BY <1>11 DEF modbus_rtu_rx_rest, ReadInv, DrainIsUart1
    <2>2. isr' = isr \/ isr' = [isr EXCEPT !.at = "raise"]
      BY <1>11 DEF modbus_rtu_rx_rest
    <2>3. isr'.line = "UART1" /\ isr'.at \in {"drain", "raise"}
      BY <2>1, <2>2, <1>a
    <2> QED BY <2>3 DEF PendingStands, DrainIsUart1, NoEmptyRead, Serving1
  <1>12. CASE mac_rx
    <2>1. fifo'["UART1"] = fifo["UART1"]
      BY <1>12, <1>a, Read1Type DEF mac_rx, Level
    <2>2. isr.line = "MAC" /\ isr.at = "serve" /\ Latch(pending)
      BY <1>12 DEF mac_rx
    <2>3. CASE isr' = isr
      BY <2>1, <2>2, <2>3, <1>0, <1>a, Bystander
    <2>4. CASE isr' = [isr EXCEPT !.at = "read"]
      BY <2>1, <2>2, <2>4, <1>0, <1>a, HandlerMove DEF Serving1
    <2> QED BY <1>12, <2>3, <2>4 DEF mac_rx
  <1>13. CASE TimerRun \/ UsbBranch \/ Raise
    <2>1. fifo' = fifo /\ Latch(pending)
      BY <1>13 DEF TimerRun, UsbBranch, Raise
    <2>2. isr' = [isr EXCEPT !.at = "raise"] \/ isr' = [isr EXCEPT !.at = "read"]
      BY <1>13 DEF TimerRun, UsbBranch, Raise
    <2>3. isr'.line = isr.line /\ isr'.at \in {"raise", "read"}
      BY <2>2, <1>a
    <2>4. Serving1 => Serving1'
      BY <2>3 DEF Serving1
    <2> QED BY <2>1, <2>3, <2>4, <1>0, HandlerMove
  <1>14. CASE ClearRead
    <2>1. fifo' = fifo /\ Latch(pending) /\ isr.at = "read"
      BY <1>14 DEF ClearRead
    <2>2. isr'.at = "write" /\ isr'.line = isr.line /\ isr'.reg = pending
      BY <1>14, <1>a DEF ClearRead
    <2>3. "UART1" \in pending' => "UART1" \in pending \/ fifo'["UART1"] > 0
      BY <2>1 DEF Latch
    <2> QED BY <2>1, <2>2, <2>3 DEF ReadInv, PendingStands, DrainIsUart1, NoEmptyRead, Serving1
  <1>15. CASE ClearWrite
    <2>1. fifo' = fifo /\ Latch(Written) /\ isr.at = "write"
      BY <1>15 DEF ClearWrite
    <2>2. "UART1" \in Written => fifo["UART1"] > 0
      BY <2>1 DEF Written, ReadInv, PendingStands, Serving1
    <2>3. "UART1" \in pending' => fifo'["UART1"] > 0
      BY <2>1, <2>2 DEF Latch
    <2> QED BY <1>15, <2>3, <1>a, AdvanceType DEF ClearWrite, PendingStands, DrainIsUart1, NoEmptyRead
  <1>16. CASE UNCHANGED vars
    BY <1>16 DEF vars, ReadInv, PendingStands, DrainIsUart1, NoEmptyRead, Serving1
  <1> QED
    BY <1>1, <1>2, <1>3, <1>4, <1>5, <1>6, <1>7, <1>8, <1>9, <1>10, <1>11, <1>12, <1>13,
       <1>14, <1>15, <1>16
    DEF Next, Handler, Serve, Main, Devices

\* The handler never reads UART1->DATA while its FIFO is empty: whatever other
\* handlers write back to PENDING, UART1's bit always stands for a byte.
THEOREM NeverReadsEmpty == Spec => []NoEmptyRead
  <1>1. Init => ReadInv
    <2>1. Init => PendingStands /\ DrainIsUart1 /\ NoEmptyRead
      BY DEF Init, PendingStands, DrainIsUart1, NoEmptyRead
    <2> QED BY <2>1, TypeInit DEF ReadInv
  <1>2. ReadInv => NoEmptyRead
    BY DEF ReadInv
  <1> QED BY <1>1, <1>2, ReadStep, PTL DEF Spec

-----------------------------------------------------------------------------
LEMMA WakeupStep == TypeOK /\ NoLostWakeup /\ [Next]_vars => NoLostWakeup'
  <1> SUFFICES ASSUME TypeOK, NoLostWakeup, [Next]_vars PROVE NoLostWakeup'
    OBVIOUS
  <1>a. /\ isr \in [at: IsrPoints, line: Lines, reg: SUBSET Lines]
        /\ flag \in [Events -> BOOLEAN]
        /\ console \in Int
        /\ "console" \in Events
    BY DEF TypeOK, Events
  <1>1. ASSUME NEW l \in Level, Arrive(l) PROVE NoLostWakeup'
    BY <1>1 DEF Arrive, NoLostWakeup
  <1>2. ASSUME NEW t \in Timers, Expire(t) \/ Pulse(t) PROVE NoLostWakeup'
    BY <1>2 DEF Expire, Pulse, NoLostWakeup
  <1>3. CASE UsbEdge \/ Silence
    BY <1>3 DEF UsbEdge, Silence, NoLostWakeup
  <1>4. CASE Trap
    BY <1>4 DEF Trap, NoLostWakeup
  <1>5. CASE Test
    BY <1>5, <1>a DEF Test, Advance, NoLostWakeup
  <1>6. CASE console_rx
    <2>1. isr.line = "UART0" /\ isr'.line = "UART0" /\ isr'.at \in {"serve", "raise"}
      BY <1>6, <1>a DEF console_rx
    <2> QED BY <2>1 DEF NoLostWakeup
  <1>7. CASE modbus_rtu_rx_first \/ modbus_rtu_rx_rest \/ mac_rx \/ UsbBranch \/ TimerRun
    <2>1. console' = console /\ flag' = flag /\ loop' = loop
      BY <1>7 DEF modbus_rtu_rx_first, modbus_rtu_rx_rest, mac_rx, UsbBranch, TimerRun
    <2>2. isr.at = "drain" \/ isr.line # "UART0"
      BY <1>7 DEF modbus_rtu_rx_first, modbus_rtu_rx_rest, mac_rx, UsbBranch, TimerRun, Timers
    <2> QED BY <2>1, <2>2 DEF NoLostWakeup
  <1>8. CASE Raise
    <2>1. console' = console /\ loop' = loop /\ isr.at = "raise"
      BY <1>8 DEF Raise
    <2>2. isr.line = "UART0" => flag'["console"]
      BY <1>8, <1>a, Tables DEF Raise
    <2>3. EventOf[isr.line] \in Events
      BY <1>a, Tables
    <2>4. flag["console"] => flag'["console"]
      BY <1>8, <1>a, <2>3 DEF Raise
    <2> QED BY <2>1, <2>2, <2>4 DEF NoLostWakeup
  <1>9. CASE ClearRead \/ ClearWrite
    BY <1>9, <1>a DEF ClearRead, ClearWrite, NoLostWakeup
  <1>10. ASSUME NEW e \in Events, CheckFlag(e) PROVE NoLostWakeup'
    <2>1. console' = console /\ isr.at = "off" /\ loop = e /\ isr' = isr
      BY <1>10 DEF CheckFlag
    <2>2. loop # "console_poll"
      BY <2>1 DEF Events
    <2>3. CASE flag[e] /\ e = "console"
      BY <1>10, <2>3, Tables DEF CheckFlag, NoLostWakeup
    <2>4. CASE flag[e] /\ e # "console"
      <3>1. flag'["console"] = flag["console"]
        BY <1>10, <1>a, <2>4 DEF CheckFlag
      <3> QED BY <2>1, <2>2, <3>1 DEF NoLostWakeup
    <2>5. CASE ~flag[e]
      BY <1>10, <2>1, <2>2, <2>5 DEF CheckFlag, NoLostWakeup
    <2> QED BY <2>3, <2>4, <2>5
  <1>11. CASE console_poll
    BY <1>11 DEF console_poll, NoLostWakeup
  <1>12. CASE modbus_rtu_poll \/ modbus_rtu_take \/ mac_poll \/ mac_pop \/ Work
    BY <1>12 DEF modbus_rtu_poll, modbus_rtu_take, mac_poll, mac_pop, Work, NoLostWakeup
  <1>13. CASE UNCHANGED vars
    BY <1>13 DEF vars, NoLostWakeup
  <1> QED
    BY <1>1, <1>2, <1>3, <1>4, <1>5, <1>6, <1>7, <1>8, <1>9, <1>10, <1>11, <1>12, <1>13
    DEF Next, Handler, Serve, Main, Devices

\* No byte is left in the console buffer with nothing due to look at it.
THEOREM ConsoleIsWoken == Spec => []NoLostWakeup
  <1>1. Init => NoLostWakeup
    BY DEF Init, NoLostWakeup
  <1> QED BY <1>1, WakeupStep, TypeInit, TypeStep, PTL DEF Spec
=============================================================================
