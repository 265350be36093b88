---------------------------- MODULE SdBlocksProofs ----------------------------
(***************************************************************************)
(* Proofs about SdBlocks for every size of card, number of retries, calls  *)
(* and faults: the types, and that the driver implements BlockDevice.  The *)
(* argument follows the card's position: unless they are astray, a card in *)
(* a transfer is at the block the driver believes it is at, and the blocks *)
(* before it are stored or in the buffer.  Then, for three retries and     *)
(* more, that a call survives one fault: the card is where the attempt     *)
(* expects it, or the attempt after the fault stumbles over a busy card.   *)
(* Last, that the steps of a call are bounded, whatever the card does.     *)
(***************************************************************************)
EXTENDS SdBlocks, TLAPS

\* The blocks of a call that has passed the range check are those of the card,
\* or all behind its end.
OnCard == first + count <= Blocks

\* Where the control is.
FlowInv ==
    /\ pc = "idle" <=> op = "none"
    /\ op # "none" => count \in 1..MaxCount /\ (OnCard \/ Blocks <= first) /\ retry < Retries
    /\ pc \in {"rx", "stop", "settle", "again2"} => op = "read"
    /\ pc \in {"tx", "response", "written", "token", "final"} => op = "write"
    /\ pc \in {"rx", "tx"} => done < count
    /\ pc = "written" => done <= count
    /\ pc \in {"stop", "settle", "token", "final"} => done = count
    /\ pc = "response" \/ (pc = "again" /\ op = "write") => ret # "ok"

BaseInv == TypeOK /\ FlowInv

LEMMA FaultType ==
    ASSUME TypeOK, NEW kind, Fault(kind)
    PROVE  mishaps' \in 0..2 /\ faults' \in 0..MaxFaults
  BY SdAssumption DEF TypeOK, Fault

LEMMA NoFaultType ==
    ASSUME TypeOK, NoFault
    PROVE  mishaps' \in 0..2 /\ faults' \in 0..MaxFaults
  BY DEF TypeOK, NoFault

Modes == {"idle", "read1", "reading", "write1", "writing"}
Cards == [mode: Modes, at: 0..Blocks, busy: BOOLEAN]

LEMMA CardTypes ==
    ASSUME TypeOK
    PROVE  /\ card \in Cards
           /\ Stopped \in Cards
           /\ [card EXCEPT !.busy = FALSE] \in Cards
           /\ \A m \in Modes : [card EXCEPT !.mode = m] \in Cards
           /\ Address < Blocks => Started \in Cards
           /\ card.at < Blocks => /\ Advanced(TRUE) \in Cards
                                  /\ Advanced(FALSE) \in Cards
                                  /\ [Advanced(FALSE) EXCEPT !.at = card.at] \in Cards
<1> USE SdAssumption DEF TypeOK, Cards, Modes
<1>1. card \in Cards OBVIOUS
<1>2. Stopped \in Cards BY DEF Stopped
<1>3. [card EXCEPT !.busy = FALSE] \in Cards OBVIOUS
<1>4. \A m \in Modes : [card EXCEPT !.mode = m] \in Cards OBVIOUS
<1>5. Address \in Nat BY DEF Address
<1>6. Address < Blocks => Started \in Cards
  <2> SUFFICES ASSUME Address < Blocks PROVE Started \in Cards OBVIOUS
  <2> DEFINE mode == IF op = "read" THEN IF Multi THEN "reading" ELSE "read1"
                                    ELSE IF Multi THEN "writing" ELSE "write1"
  <2>1. mode \in Modes OBVIOUS
  <2>2. Address \in 0..Blocks BY <1>5
  <2>3. Started = [card EXCEPT !.at = Address, !.mode = mode] BY DEF Started
  <2> HIDE DEF mode
  <2> QED BY <2>1, <2>2, <2>3
<1>7. card.at < Blocks => Advanced(TRUE) \in Cards /\ Advanced(FALSE) \in Cards
  BY DEF Advanced
<1>8. card.at < Blocks => [Advanced(FALSE) EXCEPT !.at = card.at] \in Cards
  BY DEF Advanced
<1> QED BY <1>1, <1>2, <1>3, <1>4, <1>6, <1>7, <1>8

LEMMA InitBase == Init => BaseInv
<1> SUFFICES ASSUME Init PROVE BaseInv OBVIOUS
<1> USE SdAssumption DEF Init
<1>1. disk \in [AllBlocks -> Content]
  BY DEF Content, AllBlocks
<1>2. card \in Cards BY DEF Cards, Modes
<1>3. buf \in Seq(Content) OBVIOUS
<1>6. /\ first \in 0..Word /\ count \in 0..MaxCount /\ done \in 0..MaxCount
      /\ retry \in 0..Retries /\ blocks \in {0, Blocks} /\ calls \in 0..MaxCalls
      /\ mishaps \in 0..2 /\ faults \in 0..MaxFaults
  OBVIOUS
<1>7. astray \in BOOLEAN /\ tidy \in BOOLEAN OBVIOUS
<1>4. TypeOK BY <1>1, <1>2, <1>3, <1>6, <1>7 DEF TypeOK, Cards, Modes
<1>5. FlowInv BY DEF FlowInv
<1> QED BY <1>4, <1>5 DEF BaseInv

LEMMA CallBase ==
    ASSUME BaseInv, NEW o \in {"read", "write"}, NEW f \in BlockNumbers,
           NEW c \in 1..MaxCount, Call(o, f, c)
    PROVE  BaseInv'
<1> USE SdAssumption
<1>1. f \in 0..Word /\ (f + c <= Blocks \/ Blocks <= f)
  BY DEF BlockNumbers, AllBlocks, Call, Sum32, BaseInv, TypeOK
<1>2. TypeOK' BY <1>1 DEF BaseInv, TypeOK, Call
<1>3. FlowInv' BY <1>1 DEF BaseInv, FlowInv, OnCard, Call
<1> QED BY <1>2, <1>3 DEF BaseInv

LEMMA IdleBase ==
    ASSUME BaseInv, Mount \/ CardReady
    PROVE  BaseInv'
<1>1. card' \in Cards
  BY CardTypes DEF BaseInv, Mount, CardReady, Modes
<1>2. mishaps' \in 0..2 /\ faults' \in 0..MaxFaults
  BY FaultType, NoFaultType DEF BaseInv, TypeOK, Mount, CardReady
<1>3. /\ UNCHANGED <<disk, op, first, count, calls, tidy, done, retry, pc, ret, buf>>
      /\ type' \in {"none", "hc"} /\ blocks' \in {0, Blocks}
      /\ astray' \in BOOLEAN
  BY DEF BaseInv, TypeOK, Mount, CardReady, call
<1>5. TypeOK'
  BY <1>1, <1>2, <1>3 DEF BaseInv, TypeOK, Cards, Modes
<1>4. FlowInv'
  BY DEF BaseInv, FlowInv, OnCard, Mount, CardReady, call
<1> QED BY <1>5, <1>4 DEF BaseInv

LEMMA WaitedType ==
    ASSUME TypeOK, Waited
    PROVE  mishaps' \in 0..2 /\ faults' \in 0..MaxFaults
  BY FaultType, NoFaultType DEF Waited

LEMMA SendCmdBase == ASSUME BaseInv, SendCmd PROVE BaseInv'
<1> USE DEF BaseInv
<1>1. card' \in Cards
  BY CardTypes DEF SendCmd
<1>2. mishaps' \in 0..2 /\ faults' \in 0..MaxFaults
  BY FaultType, NoFaultType DEF SendCmd
<1>3. /\ UNCHANGED <<disk, type, blocks, op, first, count, calls, tidy, retry>>
      /\ done' = 0 /\ buf' = <<>>
  BY DEF SendCmd, Rewind, Goto, call
<1>4. ret' \in {"ok", "r1", "error"} BY DEF SendCmd, TypeOK
<1>5. astray' \in BOOLEAN BY DEF SendCmd, TypeOK
<1>6. pc = "cmd" /\ pc' = IF ret' # "ok" THEN Failed ELSE IF op = "read" THEN "rx" ELSE "tx"
  BY DEF SendCmd, Goto
<1>7. /\ op = "read" => pc' \in {"again", "again2", "rx"}
      /\ op = "write" => pc' = "tx" \/ (pc' = "again" /\ ret' # "ok")
  BY <1>6 DEF Failed
<1>8. op \in {"read", "write"} BY <1>6 DEF TypeOK, FlowInv
<1>9. buf' \in Seq(Content) BY <1>3
<1>10. done' \in 0..MaxCount BY <1>3, SdAssumption
<1>12. pc' \in {"again", "again2", "rx", "tx"} BY <1>7, <1>8
<1>13. TypeOK'
  BY <1>1, <1>2, <1>3, <1>4, <1>5, <1>9, <1>10, <1>12 DEF TypeOK, Cards, Modes
<1>11. FlowInv'
  BY <1>3, <1>6, <1>7, <1>8 DEF FlowInv, OnCard, TypeOK
<1> QED BY <1>13, <1>11

LEMMA RxBase == ASSUME BaseInv, Rx PROVE BaseInv'
<1> USE DEF BaseInv
<1>1. card' \in Cards
  <2>1. CASE Received BY <2>1, CardTypes DEF Received
  <2>2. CASE NotReceived
    <3>1. \/ card.at < Blocks /\ card' = Advanced(FALSE)
          \/ card' = [card EXCEPT !.mode = "idle"]
          \/ card' = card
      BY <2>2 DEF NotReceived
    <3>2. [card EXCEPT !.mode = "idle"] \in Cards
      BY CardTypes DEF Modes
    <3> QED BY <3>1, <3>2, CardTypes
  <2> QED BY <2>1, <2>2 DEF Rx
<1>2. mishaps' \in 0..2 /\ faults' \in 0..MaxFaults
  BY FaultType, NoFaultType DEF Rx, Received, NotReceived
<1>3. /\ UNCHANGED <<disk, type, blocks, first, count, calls, tidy, retry, astray>>
      /\ pc = "rx" /\ op = "read" /\ done < count
  BY DEF Rx, Received, NotReceived, Goto, call, Return, FlowInv
<1>4. CASE Received
  <2>1. buf' = Append(buf, disk[card.at]) /\ done' = done + 1 /\ ret' = "ok"
    BY <1>4 DEF Received, Return
  <2>2. card.at \in AllBlocks
    BY <1>4, SdAssumption, CardTypes DEF Received, AllBlocks, Cards
  <2>3. disk[card.at] \in Content
    BY <2>2 DEF TypeOK
  <2>4. buf' \in Seq(Content) BY <2>1, <2>3 DEF TypeOK
  <2>5. \/ done + 1 < count /\ pc' = "rx" /\ op' = op
        \/ ~(done + 1 < count) /\ pc' = "stop" /\ op' = op
        \/ pc' = "idle" /\ op' = "none"
    BY <1>4 DEF Received, Goto, call, Return
  <2>6. done' \in 0..MaxCount BY <1>3, <2>1, SdAssumption DEF TypeOK
  <2>7. TypeOK'
    BY <1>1, <1>2, <1>3, <2>1, <2>4, <2>5, <2>6 DEF TypeOK, Cards, Modes
  <2>8. FlowInv'
    BY <1>3, <2>1, <2>5, SdAssumption DEF FlowInv, OnCard, TypeOK
  <2> QED BY <2>7, <2>8
<1>5. CASE NotReceived
  <2>1. /\ UNCHANGED <<buf, done, op>> /\ ret' = "error"
        /\ pc' \in {"again", "again2"}
    BY <1>5 DEF NotReceived, Goto, call, Failed
  <2>2. TypeOK' BY <1>1, <1>2, <1>3, <2>1 DEF TypeOK, Cards, Modes
  <2>3. FlowInv' BY <1>3, <2>1 DEF FlowInv, OnCard, TypeOK
  <2> QED BY <2>2, <2>3
<1> QED BY <1>4, <1>5 DEF Rx

LEMMA Cmd12Type ==
    ASSUME TypeOK, Cmd12
    PROVE  /\ card' \in Cards /\ ret' \in {"ok", "r1", "error"}
           /\ mishaps' \in 0..2 /\ faults' \in 0..MaxFaults
<1>1. card' \in Cards BY CardTypes DEF Cmd12
<1>2. ret' \in {"ok", "r1", "error"} BY DEF Cmd12
<1>3. mishaps' \in 0..2 /\ faults' \in 0..MaxFaults
  BY FaultType, NoFaultType DEF Cmd12
<1> QED BY <1>1, <1>2, <1>3

LEMMA ReadEndBase == ASSUME BaseInv, StopRead \/ Settle \/ ReadAgain \/ Again2 PROVE BaseInv'
<1> USE DEF BaseInv
<1>1. UNCHANGED <<disk, type, blocks, first, count, calls, tidy, done, buf, astray>>
  BY DEF StopRead, Settle, ReadAgain, Again2, Goto, call, Return, NextRetry
<1>2. /\ card' \in Cards /\ ret' \in {"ok", "r1", "error"}
      /\ mishaps' \in 0..2 /\ faults' \in 0..MaxFaults
  <2>1. CASE StopRead \/ ReadAgain BY <2>1, Cmd12Type DEF StopRead, ReadAgain
  <2>2. CASE Settle \/ Again2
    BY <2>2, WaitedType, CardTypes DEF Settle, Again2, TypeOK, Return, NextRetry
  <2> QED BY <2>1, <2>2
<1>3. op = "read" BY DEF StopRead, Settle, ReadAgain, Again2, FlowInv
<1>4. \/ op' = "read" /\ pc' \in {"cmd", "again", "again2"} /\ retry' \in Nat /\ retry' < Retries
      \/ op' = "read" /\ pc = "stop" /\ pc' = "settle" /\ retry' = retry
      \/ op' = "none" /\ pc' = "idle" /\ retry' \in 0..Retries
  BY <1>3, SdAssumption
     DEF StopRead, Settle, ReadAgain, Again2, Goto, call, Return, NextRetry, FlowInv, TypeOK
<1>5. TypeOK' BY <1>1, <1>2, <1>4, SdAssumption DEF TypeOK, Cards, Modes, FlowInv
<1>6. FlowInv' BY <1>1, <1>2, <1>3, <1>4 DEF FlowInv, OnCard, TypeOK
<1> QED BY <1>5, <1>6

LEMMA TxBase == ASSUME BaseInv, Tx PROVE BaseInv'
<1> USE DEF BaseInv
<1>1. /\ UNCHANGED <<type, blocks, op, first, count, calls, tidy, retry, buf, astray>>
      /\ pc = "tx" /\ op = "write" /\ done < count
  BY DEF Tx, Goto, call, FlowInv
<1>2. card' \in Cards
  BY CardTypes DEF Tx, Takes
<1>3. mishaps' \in 0..2 /\ faults' \in 0..MaxFaults
  BY FaultType, NoFaultType DEF Tx
<1>4. disk' \in [AllBlocks -> Content]
  <2>1. CASE UNCHANGED disk BY <2>1 DEF TypeOK
  <2>2. CASE Stores
    <3>1. first + done \in Nat BY DEF TypeOK
    <3>2. <<calls, first + done>> \in Content
      BY <3>1 DEF Content, TypeOK
    <3> QED BY <2>2, <3>2 DEF Stores, TypeOK
  <2> QED BY <2>1, <2>2 DEF Tx
<1>5. \/ ret' = "ok" /\ pc' = "written" /\ done' = done + 1
      \/ ret' = "error" /\ pc' \in {"again", "response"} /\ done' = done
  BY DEF Tx, Goto
<1>6. done' \in 0..MaxCount BY <1>1, <1>5, SdAssumption DEF TypeOK
<1>7. TypeOK'
  BY <1>1, <1>2, <1>3, <1>4, <1>5, <1>6 DEF TypeOK, Cards, Modes
<1>8. FlowInv' BY <1>1, <1>5 DEF FlowInv, OnCard, TypeOK
<1> QED BY <1>7, <1>8

LEMMA WriteEndBase ==
    ASSUME BaseInv, Response \/ BlockWritten \/ StopWrite \/ Final \/ WriteAgain
    PROVE  BaseInv'
<1> USE DEF BaseInv
<1>1. UNCHANGED <<disk, type, blocks, first, count, calls, tidy, done, buf, astray>>
  BY DEF Response, BlockWritten, StopWrite, Final, WriteAgain, Goto, call, Return, NextRetry
<1>2. card' \in Cards
  BY CardTypes DEF Response, BlockWritten, StopWrite, Final, WriteAgain, StopToken
<1>3. mishaps' \in 0..2 /\ faults' \in 0..MaxFaults
  BY FaultType, NoFaultType, WaitedType
     DEF Response, BlockWritten, StopWrite, Final, WriteAgain, StopToken
<1>4. op = "write"
  BY DEF Response, BlockWritten, StopWrite, Final, WriteAgain, FlowInv
<1>5. ret' \in {"ok", "r1", "error"}
  BY DEF Response, BlockWritten, StopWrite, Final, WriteAgain, Return, NextRetry,
         WriteResults, TypeOK
<1>6. CASE Response \/ BlockWritten \/ StopWrite
  <2>1. UNCHANGED <<op, retry, ret>>
    BY <1>6 DEF Response, BlockWritten, StopWrite, Goto, call
  <2>2. \/ pc = "response" /\ pc' = "again"
        \/ pc = "written" /\ done < count /\ pc' = "tx"
        \/ pc = "written" /\ ~(done < count) /\ pc' \in {"token", "final"}
        \/ pc = "token" /\ pc' = "final"
    BY <1>6 DEF Response, BlockWritten, StopWrite, Goto
  <2>3. TypeOK'
    BY <1>1, <1>2, <1>3, <2>1, <2>2 DEF TypeOK, Cards, Modes
  <2>4. FlowInv' BY <1>1, <1>4, <2>1, <2>2 DEF FlowInv, OnCard, TypeOK
  <2> QED BY <2>3, <2>4
<1>7. CASE Final \/ WriteAgain
  <2>1. \/ op' = op /\ pc' = "cmd" /\ retry' \in 0..Retries /\ retry' < Retries
        \/ op' = "none" /\ pc' = "idle" /\ retry' \in 0..Retries
    BY <1>4, <1>7, SdAssumption DEF Final, WriteAgain, Return, NextRetry, Goto, call, FlowInv, TypeOK
  <2>2. TypeOK'
    BY <1>1, <1>2, <1>3, <1>5, <2>1 DEF TypeOK, Cards, Modes
  <2>3. FlowInv' BY <1>1, <1>4, <2>1 DEF FlowInv, OnCard, TypeOK
  <2> QED BY <2>2, <2>3
<1> QED BY <1>6, <1>7

LEMMA NextBase == BaseInv /\ [Next]_vars => BaseInv'
<1>1. ASSUME BaseInv, UNCHANGED vars PROVE BaseInv'
  BY <1>1 DEF BaseInv, TypeOK, FlowInv, OnCard, vars
<1>2. ASSUME BaseInv, NewCall PROVE BaseInv'
  BY <1>2, CallBase DEF NewCall
<1> QED
  BY <1>1, <1>2, IdleBase, SendCmdBase, RxBase, ReadEndBase, TxBase, WriteEndBase
     DEF Next, Driver

\* The driver is well-typed: the retries stop at their limit, no transfer goes
\* beyond its count, and the card is never sent beyond its last block, although
\* the range check lets block numbers pass whose sum with the count wraps.
THEOREM TypeCorrect == Spec => []TypeOK
<1>1. BaseInv => TypeOK BY DEF BaseInv
<1> QED BY InitBase, NextBase, <1>1, PTL DEF Spec

-----------------------------------------------------------------------------
(* The transfers. *)

\* Only a card that was initialised as one with block addresses is transferred to.
EntryInv ==
    /\ blocks # 0 => type = "hc"
    /\ op # "none" => type = "hc"

\* What has been read, and where a card that is still sending is. Blocks that
\* do not exist are not transferred.
ReadInv ==
    ~astray /\ pc \in {"rx", "stop", "settle"} =>
      /\ done > 0 => OnCard
      /\ Len(buf) = done
      /\ \A i \in 1..done : buf[i] = disk[first + i - 1]
      /\ pc = "rx" /\ Sending => card.at = first + done

\* What has been written, and where a card that takes blocks is.
WriteInv ==
    ~astray /\ pc \in {"tx", "written", "token", "final"} =>
      /\ done > 0 => OnCard
      /\ \A k \in Target : k < first + done => disk[k] = <<calls, k>>
      /\ ~Sending
      /\ Waiting => card.at = first + done

TransferInv == EntryInv /\ ReadInv /\ WriteInv

LEMMA InitTransfer == Init => TransferInv
  BY DEF Init, TransferInv, EntryInv, ReadInv, WriteInv

LEMMA CallTransfer ==
    ASSUME BaseInv, TransferInv, NEW o \in {"read", "write"}, NEW f \in BlockNumbers,
           NEW c \in 1..MaxCount, Call(o, f, c)
    PROVE  TransferInv'
<1>1. type = "hc"
  BY DEF Call, BaseInv, TypeOK
<1> QED BY <1>1 DEF TransferInv, EntryInv, ReadInv, WriteInv, Call

LEMMA IdleTransfer ==
    ASSUME BaseInv, TransferInv, Mount \/ CardReady
    PROVE  TransferInv'
<1>1. CASE CardReady
  <2>1. UNCHANGED <<disk, type, blocks, op, first, count, calls, done, pc, buf, astray>>
        /\ card'.mode = card.mode /\ card'.at = card.at
    BY <1>1, CardTypes DEF CardReady, call, BaseInv, Cards
  <2> QED BY <2>1 DEF TransferInv, EntryInv, ReadInv, WriteInv, Sending, Waiting, Target, OnCard
<1>2. CASE Mount
  BY <1>2, SdAssumption DEF Mount, call, BaseInv, FlowInv, TransferInv, EntryInv, ReadInv, WriteInv
<1> QED BY <1>1, <1>2

LEMMA SendCmdTransfer ==
    ASSUME BaseInv, TransferInv, SendCmd PROVE TransferInv'
<1>1. /\ UNCHANGED <<disk, type, blocks, op, first, count, calls>>
      /\ pc = "cmd" /\ done' = 0 /\ buf' = <<>>
  BY DEF SendCmd, Rewind, Goto, call
<1>2. EntryInv' BY <1>1 DEF TransferInv, EntryInv
<1>3. op \in {"read", "write"} /\ type = "hc"
  BY <1>1 DEF BaseInv, FlowInv, TypeOK, TransferInv, EntryInv
<1>4. first \in Nat /\ Address = first
  BY <1>3 DEF Address, BaseInv, TypeOK
<1>5. ASSUME ~astray', pc' \in {"rx", "tx"}
      PROVE  \/ card' = Started
             \/ card' = card /\ card.mode = "idle"
  BY <1>5 DEF SendCmd, Goto, Failed, Sending, Waiting
<1>6. card \in Cards BY CardTypes DEF BaseInv
<1>7. Started.at = first /\ (op = "read" => Started.mode \in {"reading", "read1"})
                         /\ (op = "write" => Started.mode \in {"writing", "write1"})
  BY <1>4, <1>6 DEF Started, Cards
<1>8. pc' \in {"rx", "tx", "again", "again2"}
      /\ (pc' = "rx" => op = "read") /\ (pc' = "tx" => op = "write")
  BY <1>3 DEF SendCmd, Goto, Failed
<1>9. ReadInv'
  BY <1>1, <1>4, <1>5, <1>7, <1>8 DEF ReadInv, Sending
<1>10. WriteInv'
  BY <1>1, <1>4, <1>5, <1>7, <1>8 DEF WriteInv, Sending, Waiting, Target
<1> QED BY <1>2, <1>9, <1>10 DEF TransferInv

\* A sequence grown by one.
LEMMA AppendOne ==
    ASSUME NEW S, NEW s \in Seq(S), NEW e \in S
    PROVE  /\ Len(Append(s, e)) = Len(s) + 1
           /\ \A i \in 1..Len(s) : Append(s, e)[i] = s[i]
           /\ Append(s, e)[Len(s) + 1] = e
  OBVIOUS

\* A block received is the next one of the call.
LEMMA ReceivedNext ==
    ASSUME BaseInv, TransferInv, ~astray, pc = "rx", Received
    PROVE  /\ Len(buf') = done + 1
           /\ \A i \in 1..(done + 1) : buf'[i] = disk[first + i - 1]
           /\ card'.at = first + (done + 1)
           /\ OnCard
<1>1. Len(buf) = done /\ (\A i \in 1..done : buf[i] = disk[first + i - 1])
      /\ card.at = first + done
  BY DEF Received, ReadInv, TransferInv
<1>2. disk[card.at] \in Content
  <2>1. card.at \in AllBlocks
    BY CardTypes, SdAssumption DEF Received, AllBlocks, Cards, BaseInv
  <2> QED BY <2>1 DEF BaseInv, TypeOK
<1>3. buf' = Append(buf, disk[card.at]) BY DEF Received
<1>4. done \in Nat /\ first \in Nat /\ buf \in Seq(Content)
  BY DEF BaseInv, TypeOK
<1>5. /\ Len(buf') = done + 1
      /\ \A i \in 1..done : buf'[i] = buf[i]
      /\ buf'[done + 1] = disk[card.at]
  BY <1>1, <1>2, <1>3, <1>4, AppendOne
<1>6. disk[card.at] = disk[first + (done + 1) - 1] BY <1>1, <1>4
<1>7. ASSUME NEW i \in 1..(done + 1) PROVE buf'[i] = disk[first + i - 1]
  <2>1. CASE i = done + 1 BY <2>1, <1>5, <1>6
  <2>2. CASE i # done + 1
    <3>1. i \in 1..done BY <2>2, <1>4
    <3> QED BY <3>1, <1>1, <1>5
  <2> QED BY <2>1, <2>2
<1>8. card'.at = first + (done + 1)
  BY <1>1, <1>4 DEF Received, Advanced
<1>9. OnCard
  BY <1>1, <1>4, SdAssumption DEF Received, BaseInv, FlowInv, TypeOK
<1> QED BY <1>5, <1>7, <1>8, <1>9

LEMMA RxTransfer ==
    ASSUME BaseInv, TransferInv, Rx PROVE TransferInv'
<1>1. /\ UNCHANGED <<disk, type, blocks, first, count, calls, astray>>
      /\ pc = "rx" /\ op = "read" /\ (op' = op \/ op' = "none")
      /\ pc' \in {"rx", "stop", "idle", "again", "again2"}
  BY DEF Rx, Received, NotReceived, Goto, call, Return, BaseInv, FlowInv, Failed
<1>2. EntryInv' BY <1>1 DEF TransferInv, EntryInv
<1>3. WriteInv' BY <1>1 DEF WriteInv
<1>4. ReadInv'
  <2> SUFFICES ASSUME ~astray', pc' \in {"rx", "stop"} PROVE ReadInv'
    BY <1>1 DEF ReadInv
  <2>1. Received
    BY <1>1 DEF Rx, NotReceived, Goto, Failed
  <2>2. done' = done + 1 BY <2>1 DEF Received
  <2> QED BY <1>1, <2>1, <2>2, ReceivedNext DEF ReadInv, OnCard
<1> QED BY <1>2, <1>3, <1>4 DEF TransferInv

LEMMA ReadEndTransfer ==
    ASSUME BaseInv, TransferInv, StopRead \/ Settle \/ ReadAgain \/ Again2
    PROVE  TransferInv'
<1>1. /\ UNCHANGED <<disk, type, blocks, first, count, calls, done, buf, astray>>
      /\ op = "read" /\ (op' = op \/ op' = "none")
      /\ pc' \in {"settle", "again", "again2", "cmd", "idle"}
      /\ pc' = "settle" => pc = "stop"
  BY DEF StopRead, Settle, ReadAgain, Again2, Goto, call, Return, NextRetry, BaseInv, FlowInv
<1>2. EntryInv' BY <1>1 DEF TransferInv, EntryInv
<1>3. ReadInv' BY <1>1 DEF TransferInv, ReadInv, OnCard
<1>4. WriteInv' BY <1>1 DEF WriteInv
<1> QED BY <1>2, <1>3, <1>4 DEF TransferInv

\* A block that the card takes is the next one of the call.
LEMMA TakesNext ==
    ASSUME BaseInv, TransferInv, ~astray, pc = "tx", Takes
    PROVE  card.at = first + done /\ card.at \in Target /\ OnCard
<1>1. Waiting BY DEF Takes, Waiting
<1>2. card.at = first + done BY <1>1 DEF TransferInv, WriteInv
<1>3. done < count BY DEF BaseInv, FlowInv
<1>4. card.at \in Target BY <1>2, <1>3 DEF Target, BaseInv, TypeOK
<1>5. OnCard BY <1>2, SdAssumption DEF Takes, BaseInv, FlowInv, TypeOK
<1> QED BY <1>2, <1>4, <1>5

LEMMA TxTransfer ==
    ASSUME BaseInv, TransferInv, Tx PROVE TransferInv'
<1>1. /\ UNCHANGED <<type, blocks, op, first, count, calls, buf, astray>>
      /\ pc = "tx" /\ pc' \in {"written", "again", "response"}
  BY DEF Tx, Goto, call
<1>2. EntryInv' BY <1>1 DEF TransferInv, EntryInv
<1>3. ReadInv' BY <1>1 DEF ReadInv
<1>4. WriteInv'
  <2> SUFFICES ASSUME ~astray', pc' = "written" PROVE WriteInv'
    BY <1>1 DEF WriteInv
  <2>1. /\ ~Sending
        /\ \A k \in Target : k < first + done => disk[k] = <<calls, k>>
    BY <1>1 DEF TransferInv, WriteInv
  <2>2. Takes /\ Stores /\ card' = Advanced(TRUE) /\ done' = done + 1
    BY <2>1 DEF Tx, Goto
  <2>3. card.at = first + done /\ OnCard
    BY <1>1, <2>2, TakesNext
  <2>4. done \in Nat /\ first \in Nat /\ count \in Nat /\ disk \in [AllBlocks -> Content]
        /\ card \in Cards
    <3>1. card \in Cards BY CardTypes DEF BaseInv
    <3>2. done \in Nat /\ first \in Nat /\ count \in Nat BY DEF BaseInv, TypeOK
    <3>3. disk \in [AllBlocks -> Content] BY DEF BaseInv, TypeOK
    <3> QED BY <3>1, <3>2, <3>3
  <2>5. ASSUME NEW k \in Target, k < first + done + 1 PROVE disk'[k] = <<calls, k>>
    <3>1. k \in AllBlocks
      BY <2>3, <2>4, SdAssumption DEF Target, AllBlocks, OnCard
    <3>2. CASE k = first + done BY <3>1, <3>2, <2>2, <2>3, <2>4 DEF Stores
    <3>3. CASE k # first + done
      <4>1. k < first + done BY <3>3, <2>5, <2>4 DEF Target
      <4> QED BY <4>1, <3>3, <2>1, <2>2, <2>3, <2>4 DEF Stores
    <3> QED BY <3>2, <3>3
  <2>6. card'.at = first + (done + 1) /\ card'.mode \in {"idle", card.mode}
    BY <2>2, <2>3, <2>4 DEF Advanced
  <2>7. ~Sending' BY <2>1, <2>6 DEF Sending
  <2>8. Target' = Target /\ first' + done' = first + done + 1
    BY <1>1, <2>2, <2>4 DEF Target
  <2>9. OnCard' BY <1>1, <2>3 DEF OnCard
  <2> QED BY <1>1, <2>2, <2>5, <2>6, <2>7, <2>8, <2>9 DEF WriteInv
<1> QED BY <1>2, <1>3, <1>4 DEF TransferInv

LEMMA WriteEndTransfer ==
    ASSUME BaseInv, TransferInv, Response \/ BlockWritten \/ StopWrite \/ Final \/ WriteAgain
    PROVE  TransferInv'
<1>1. /\ UNCHANGED <<disk, type, blocks, first, count, calls, done, buf, astray>>
      /\ op = "write" /\ (op' = op \/ op' = "none")
      /\ pc' \in {"again", "tx", "token", "final", "idle", "cmd"}
      /\ pc' \in {"tx", "token", "final"} => pc \in {"written", "token"}
  BY DEF Response, BlockWritten, StopWrite, Final, WriteAgain, Goto, call, Return, NextRetry,
         BaseInv, FlowInv
<1>2. card' = card \/ card'.mode = "idle"
  BY CardTypes
     DEF Response, BlockWritten, StopWrite, Final, WriteAgain, StopToken, Stopped, BaseInv, Cards
<1>3. EntryInv' BY <1>1 DEF TransferInv, EntryInv
<1>4. ReadInv' BY <1>1 DEF ReadInv
<1>5. WriteInv'
  BY <1>1, <1>2 DEF TransferInv, WriteInv, Sending, Waiting, Target, OnCard
<1> QED BY <1>3, <1>4, <1>5 DEF TransferInv

LEMMA NextTransfer ==
    BaseInv /\ TransferInv /\ [Next]_vars => TransferInv'
<1>1. ASSUME TransferInv, UNCHANGED vars PROVE TransferInv'
  BY <1>1 DEF TransferInv, EntryInv, ReadInv, WriteInv, Target, OnCard, Sending, Waiting, vars
<1>2. ASSUME BaseInv, TransferInv, NewCall PROVE TransferInv'
  BY <1>2, CallTransfer DEF NewCall
<1> QED
  BY <1>1, <1>2, IdleTransfer, SendCmdTransfer, RxTransfer, ReadEndTransfer, TxTransfer,
     WriteEndTransfer
     DEF Next, Driver

-----------------------------------------------------------------------------
(* Every step is one of BlockDevice, or changes nothing there. *)

LEMMA InitDevice == Init => Device!Init
  BY DEF Init, Device!Init

LEMMA QuietStep ==
    ASSUME op # "none", UNCHANGED <<disk, call, astray>>
    PROVE  Device!Next
  BY DEF Device!Next, Device!Work, call

LEMMA TargetExists ==
    ASSUME BaseInv, OnCard
    PROVE  Device!Exists
<1>1. first \in Nat /\ count \in Nat /\ DOMAIN disk = AllBlocks
  BY DEF BaseInv, TypeOK
<1> QED BY <1>1, SdAssumption DEF OnCard, AllBlocks, Device!Exists, Device!Target

LEMMA WrittenAll ==
    ASSUME BaseInv, TransferInv, ~astray, pc \in {"token", "final"}
    PROVE  Device!Written
<1>1. \A k \in Target : k < first + count
  BY DEF Target, BaseInv, TypeOK
<1>2. \A k \in Target : disk[k] = <<calls, k>>
  BY <1>1 DEF TransferInv, WriteInv, BaseInv, FlowInv
<1>3. Device!Exists
  <2>1. OnCard BY DEF TransferInv, WriteInv, BaseInv, FlowInv, TypeOK
  <2> QED BY <2>1, TargetExists
<1> QED BY <1>2, <1>3 DEF Device!Written, Device!Target, Target

\* A buffer that holds the right blocks is the right buffer.
LEMMA BufferIs ==
    ASSUME NEW b \in Seq(Content), NEW n \in Nat, NEW f \in Nat, NEW d,
           Len(b) = n, \A i \in 1..n : b[i] = d[f + i - 1]
    PROVE  b = [i \in 1..n |-> d[f + i - 1]]
<1>1. b = [i \in 1..Len(b) |-> b[i]] OBVIOUS
<1> QED BY <1>1

LEMMA StepDevice ==
    ASSUME BaseInv, TransferInv, BaseInv', TransferInv', [Next]_vars
    PROVE  [Device!Next]_Device!device
<1> SUFFICES ASSUME ~astray, ~astray' PROVE [Device!Next]_Device!device
  BY DEF Device!Next
<1>0. astray' = astray
  <2>1. astray \in BOOLEAN BY DEF BaseInv, TypeOK
  <2>2. astray' \in BOOLEAN BY DEF BaseInv, TypeOK
  <2> QED BY <2>1, <2>2
<1>1. CASE UNCHANGED vars BY <1>1 DEF vars, Device!device
<1>2. CASE NewCall
  BY <1>2 DEF NewCall, Call, Device!Next, Device!Begin
<1>3. CASE Mount \/ CardReady
  <2>1. UNCHANGED <<disk, op, first, count, calls, buf, ret>>
    BY <1>3 DEF Mount, CardReady, call
  <2> QED BY <2>1, <1>0 DEF Device!device
<1>4. CASE SendCmd
  <2>1. op # "none" BY <1>4 DEF SendCmd, BaseInv, FlowInv
  <2>2. UNCHANGED <<disk, call>> BY <1>4 DEF SendCmd, Goto
  <2> QED BY <2>1, <2>2, <1>0, QuietStep
<1>5. CASE Rx
  <2>1. op = "read" /\ op # "none" /\ UNCHANGED <<disk, astray>> /\ pc = "rx" /\ done < count
    BY <1>5 DEF Rx, BaseInv, FlowInv
  <2>2. CASE UNCHANGED call BY <2>1, <2>2, QuietStep
  <2>3. CASE ~UNCHANGED call
    <3>1. Received /\ Return({"ok"}) /\ ~(done + 1 < count)
      BY <1>5, <2>3 DEF Rx, Received, NotReceived, Goto
    <3>2. count = done + 1 /\ count \in Nat /\ first \in Nat
      BY <2>1, <3>1 DEF BaseInv, TypeOK
    <3>3. Len(buf') = count /\ \A i \in 1..count : buf'[i] = disk[first + i - 1]
      BY <2>1, <3>1, <3>2, ReceivedNext
    <3>4. buf' \in Seq(Content) BY DEF BaseInv, TypeOK
    <3>5. buf' = [i \in 1..count |-> disk[first + i - 1]]
      BY <3>2, <3>3, <3>4, BufferIs
    <3>6. UNCHANGED <<disk, first, count, calls, astray>> /\ op' = "none"
      BY <2>1, <3>1 DEF Return
    <3>7. Device!Exists BY <2>1, <3>1, ReceivedNext, TargetExists
    <3>8. Device!IsRead' BY <3>5, <3>6, <3>7 DEF Device!IsRead, Device!Exists, Device!Target
    <3> QED BY <2>1, <3>6, <3>8 DEF Device!Next, Device!End
  <2> QED BY <2>2, <2>3
<1>6. CASE StopRead \/ Settle \/ ReadAgain \/ Again2
  <2>1. op = "read" /\ op # "none" /\ UNCHANGED <<disk, astray>>
    BY <1>6 DEF StopRead, Settle, ReadAgain, Again2, BaseInv, FlowInv
  <2>2. CASE UNCHANGED call BY <2>1, <2>2, QuietStep
  <2>3. CASE ~UNCHANGED call
    <3>1. /\ UNCHANGED <<disk, first, count, calls, astray, buf>> /\ op' = "none"
          /\ ret' # "error" => pc = "settle"
      BY <1>6, <2>3 DEF StopRead, Settle, ReadAgain, Again2, Goto, Return, NextRetry
    <3>2. CASE pc = "settle"
      <4>1. count \in Nat /\ first \in Nat /\ buf \in Seq(Content) /\ done = count
        BY <3>2 DEF BaseInv, TypeOK, FlowInv
      <4>2. Len(buf) = count /\ \A i \in 1..count : buf[i] = disk[first + i - 1]
        BY <3>2, <4>1 DEF TransferInv, ReadInv
      <4>3. buf = [i \in 1..count |-> disk[first + i - 1]]
        BY <4>1, <4>2, BufferIs
      <4>4. Device!Exists
        <5>1. op # "none" /\ count > 0 BY <2>1 DEF BaseInv, FlowInv
        <5>2. OnCard BY <3>2, <4>1, <5>1 DEF TransferInv, ReadInv
        <5> QED BY <5>2, TargetExists
      <4>5. Device!IsRead' BY <3>1, <4>3, <4>4 DEF Device!IsRead, Device!Exists, Device!Target
      <4> QED BY <2>1, <3>1, <4>5 DEF Device!Next, Device!End
    <3>3. CASE pc # "settle"
      BY <2>1, <3>1, <3>3 DEF Device!Next, Device!End
    <3> QED BY <3>2, <3>3
  <2> QED BY <2>2, <2>3
<1>7. CASE Tx
  <2>1. pc = "tx" /\ op = "write" /\ UNCHANGED <<op, first, count, calls, tidy, astray>>
    BY <1>7 DEF Tx, Goto, call, BaseInv, FlowInv
  <2>2. CASE UNCHANGED disk BY <2>1, <2>2, QuietStep DEF call
  <2>3. CASE ~UNCHANGED disk
    <3>1. Takes /\ Stores BY <1>7, <2>3 DEF Tx
    <3>2. card.at = first + done /\ card.at \in Target
      BY <2>1, <3>1, TakesNext
    <3>3. disk' = [disk EXCEPT ![card.at] = <<calls, card.at>>]
      BY <3>1, <3>2 DEF Stores
    <3>4. Device!Store
      BY <2>1, <3>2, <3>3 DEF Device!Store, Device!Target, Target
    <3> QED BY <3>4 DEF Device!Next
  <2> QED BY <2>2, <2>3
<1>8. CASE Response \/ BlockWritten \/ StopWrite \/ Final \/ WriteAgain
  <2>1. op = "write" /\ op # "none" /\ UNCHANGED <<disk, astray>>
    BY <1>8 DEF Response, BlockWritten, StopWrite, Final, WriteAgain, BaseInv, FlowInv
  <2>2. CASE UNCHANGED call BY <2>1, <2>2, QuietStep
  <2>3. CASE ~UNCHANGED call
    <3>1. /\ UNCHANGED <<disk, first, count, calls, astray>> /\ op' = "none"
          /\ pc = "final" \/ (pc = "again" /\ ret' \in {ret, "error"})
      BY <1>8, <2>3 DEF Response, BlockWritten, StopWrite, Final, WriteAgain, Goto, Return,
                        NextRetry, WriteResults
    <3>2. CASE pc = "final"
      <4>1. Device!Written BY <3>2, WrittenAll
      <4> QED BY <2>1, <3>1, <4>1 DEF Device!Next, Device!End
    <3>3. CASE pc = "again" /\ ret' \in {ret, "error"}
      <4>1. ret' # "ok" BY <2>1, <3>3 DEF BaseInv, FlowInv
      <4> QED BY <2>1, <3>1, <4>1 DEF Device!Next, Device!End
    <3> QED BY <3>1, <3>2, <3>3
  <2> QED BY <2>2, <2>3
<1> QED BY <1>1, <1>2, <1>3, <1>4, <1>5, <1>6, <1>7, <1>8 DEF Next, Driver

\* Reads and writes of any length keep what BlockDevice promises, whatever
\* faults occur and however many.
THEOREM DriverImplementsDevice == Spec => ImplementsDevice
<1>1. Init => BaseInv /\ TransferInv
  BY InitBase, InitTransfer
<1>2. BaseInv /\ TransferInv /\ [Next]_vars => (BaseInv /\ TransferInv)'
  BY NextBase, NextTransfer
<1>3. BaseInv /\ TransferInv /\ (BaseInv /\ TransferInv)' /\ [Next]_vars
        => [Device!Next]_Device!device
  BY StepDevice
<1> QED
  BY InitDevice, <1>1, <1>2, <1>3, PTL DEF Spec, ImplementsDevice, Device!Spec
-----------------------------------------------------------------------------
(* One fault is made up for, with the three attempts that the driver makes. *)

\* The call may still be relied on.
Relied == op # "none" /\ OnCard /\ tidy /\ ~astray /\ mishaps <= 1

\* The attempt after a fault in a multiple write: its stop token may have left
\* the card busy, which nobody waits for, and one more attempt is lost.
Stumbled == op = "write" /\ card.mode = "idle" /\ mishaps = 1 /\ retry = 1

\* The attempt that met the fault has not ended.
FirstFailed == mishaps = 1 /\ retry = 0

WriteMode == IF Multi THEN "writing" ELSE "write1"
ReadMode == IF Multi THEN "reading" ELSE "read1"

CmdInv ==
    /\ pc = "cmd" => card.mode = "idle" /\ (card.busy => Stumbled)
    /\ pc \in {"cmd", "rx", "stop", "settle", "tx", "written", "token", "final"} =>
         IF mishaps = 0 THEN retry = 0 ELSE retry \in {1, 2}

FetchInv ==
    /\ pc = "rx" => ~card.busy /\ card.mode = ReadMode
    /\ pc = "stop" => ~card.busy /\ card.mode = "reading"
    /\ pc = "settle" => card.mode = "idle"
    /\ pc = "again" /\ op = "read" => FirstFailed /\ card.mode \in {"idle", "reading"}
    /\ pc = "again2" => FirstFailed /\ card.mode = "idle"

StoreInv ==
    /\ pc = "tx" => Stumbled \/ (~card.busy /\ card.mode = WriteMode)
    /\ pc \in {"response", "again"} /\ op = "write" =>
         Stumbled \/ (FirstFailed /\ card.mode \in {"idle", "writing"})
    /\ pc = "again" /\ op = "write" => ~card.busy
    /\ pc = "written" => done >= 1 /\ card.mode = (IF Multi THEN "writing" ELSE "idle")
    /\ pc = "token" => ~card.busy /\ card.mode = "writing"
    /\ pc = "final" => card.mode = "idle"

OneFaultInv == Relied => CmdInv /\ FetchInv /\ StoreInv

LEMMA CardMoves ==
    ASSUME BaseInv
    PROVE  /\ Stopped.mode = "idle"
           /\ [card EXCEPT !.busy = FALSE].mode = card.mode /\ ~[card EXCEPT !.busy = FALSE].busy
           /\ [card EXCEPT !.mode = "idle"].mode = "idle"
           /\ [card EXCEPT !.mode = "idle"].busy = card.busy
           /\ Started.mode = (IF op = "read" THEN ReadMode ELSE WriteMode)
           /\ Started.busy = card.busy
           /\ ~Advanced(FALSE).busy /\ Advanced(FALSE).mode = Advanced(TRUE).mode
           /\ card.mode \in {"read1", "write1"} => Advanced(TRUE).mode = "idle"
           /\ card.mode \in {"reading", "writing"} => Advanced(TRUE).mode = card.mode
           /\ [Advanced(FALSE) EXCEPT !.at = card.at].mode = Advanced(TRUE).mode
           /\ ~[Advanced(FALSE) EXCEPT !.at = card.at].busy
<1>1. card \in Cards BY CardTypes DEF BaseInv
<1>2. Stopped.mode = "idle" BY <1>1 DEF Stopped, Cards
<1>3. [card EXCEPT !.busy = FALSE].mode = card.mode /\ ~[card EXCEPT !.busy = FALSE].busy
  BY <1>1 DEF Cards
<1>4. [card EXCEPT !.mode = "idle"].mode = "idle" /\ [card EXCEPT !.mode = "idle"].busy = card.busy
  BY <1>1 DEF Cards
<1>5. Started.mode = (IF op = "read" THEN ReadMode ELSE WriteMode)
  BY <1>1 DEF Started, Cards, ReadMode, WriteMode
<1>6. Started.busy = card.busy BY <1>1 DEF Started, Cards
<1>7. /\ ~Advanced(FALSE).busy /\ Advanced(FALSE).mode = Advanced(TRUE).mode
      /\ card.mode \in {"read1", "write1"} => Advanced(TRUE).mode = "idle"
      /\ card.mode \in {"reading", "writing"} => Advanced(TRUE).mode = card.mode
  BY DEF Advanced
<1>8. /\ [Advanced(FALSE) EXCEPT !.at = card.at].mode = Advanced(TRUE).mode
      /\ ~[Advanced(FALSE) EXCEPT !.at = card.at].busy
  BY DEF Advanced
<1> QED BY <1>2, <1>3, <1>4, <1>5, <1>6, <1>7, <1>8

\* Only the first fault counts as one, and only one that a retry masks.
LEMMA FaultOnce ==
    ASSUME BaseInv, NEW kind, Fault(kind), mishaps' <= 1
    PROVE  kind \in Transient /\ mishaps = 0 /\ mishaps' = 1
  BY DEF BaseInv, TypeOK, Fault

LEMMA Slow ==
    ASSUME BaseInv, Waited, mishaps' <= 1
    PROVE  ~card.busy /\ UNCHANGED <<mishaps, faults>>
<1>1. "slow" \notin Transient BY DEF Transient
<1> QED BY <1>1, FaultOnce DEF Waited, NoFault

LEMMA MishapsGrow ==
    ASSUME BaseInv, CardReady \/ Driver, mishaps' <= 1
    PROVE  mishaps <= 1 /\ (mishaps' = mishaps \/ (mishaps = 0 /\ mishaps' = 1))
<1>1. mishaps \in 0..2 BY DEF BaseInv, TypeOK
<1>2. UNCHANGED mishaps \/ \E kind \in AllFaults : Fault(kind)
  BY DEF CardReady, Driver, SendCmd, Rx, Received, NotReceived, StopRead, Cmd12, Settle, ReadAgain,
         Again2, Tx, Response, BlockWritten, StopWrite, StopToken, Final, WriteAgain, Waited,
         NoFault, AllFaults, Transient
<1>3. ASSUME NEW kind, Fault(kind) PROVE mishaps = 0 /\ mishaps' = 1 BY <1>3, FaultOnce
<1> QED BY <1>1, <1>2, <1>3

\* What a step of the driver leaves alone.
LEMMA DriverKeeps ==
    ASSUME BaseInv, CardReady \/ Driver
    PROVE  /\ op # "none" \/ CardReady
           /\ UNCHANGED <<type, blocks, first, count, calls, tidy>>
           /\ op' \in {op, "none"}
<1>1. CASE CardReady BY <1>1 DEF CardReady, call
<1>2. CASE Driver
  BY <1>2 DEF Driver, SendCmd, Rx, Received, NotReceived, StopRead, Settle, ReadAgain,
         Again2, Tx, Response, BlockWritten, StopWrite, Final, WriteAgain, Goto, Return, call,
         NextRetry, BaseInv, FlowInv
<1> QED BY <1>1, <1>2

\* A call that can be relied on after a step could be before.
LEMMA ReliedBefore ==
    ASSUME BaseInv, CardReady \/ Driver, op # "none", OnCard', tidy', ~astray', mishaps' <= 1
    PROVE  Relied
<1>1. ~astray
  BY DEF CardReady, Driver, SendCmd, Rx, StopRead, Settle, ReadAgain,
         Again2, Tx, Response, BlockWritten, StopWrite, Final, WriteAgain
<1> QED BY <1>1, MishapsGrow, DriverKeeps DEF Relied, OnCard

LEMMA InitOne == Init => OneFaultInv
  BY DEF Init, OneFaultInv, Relied

LEMMA CallOne ==
    ASSUME BaseInv, NEW o \in {"read", "write"}, NEW f \in BlockNumbers,
           NEW c \in 1..MaxCount, Call(o, f, c)
    PROVE  OneFaultInv'
<1> SUFFICES ASSUME Relied' PROVE (CmdInv /\ FetchInv /\ StoreInv)' BY DEF OneFaultInv
<1>1. pc' = "cmd" /\ retry' = 0 /\ mishaps' = 0 /\ UNCHANGED card
      /\ card.mode = "idle" /\ ~card.busy
  BY DEF Call, Relied
<1> QED BY <1>1 DEF CmdInv, FetchInv, StoreInv

LEMMA IdleOne ==
    ASSUME BaseInv, OneFaultInv, Mount \/ CardReady PROVE OneFaultInv'
<1>1. CASE Mount
  <2>1. op' = "none" BY <1>1 DEF Mount, call
  <2> QED BY <2>1 DEF OneFaultInv, Relied
<1>2. CASE CardReady
  <2>1. UNCHANGED <<op, first, count, done, retry, pc, mishaps, tidy, astray>>
        /\ card'.mode = card.mode /\ ~card'.busy
    BY <1>2, CardMoves DEF CardReady, call
  <2> QED
    BY <2>1 DEF OneFaultInv, Relied, OnCard, CmdInv, FetchInv, StoreInv, Stumbled, FirstFailed, Multi,
                ReadMode, WriteMode
<1> QED BY <1>1, <1>2

\* The first block of a call is on the card.
LEMMA AddressGood ==
    ASSUME BaseInv, TransferInv, op # "none", OnCard
    PROVE  Address = first /\ first < Blocks /\ (pc \in {"rx", "tx"} => first + done < Blocks)
<1>1. type = "hc" BY DEF TransferInv, EntryInv
<1>2. count \in 1..MaxCount /\ first + count <= Blocks /\ (pc \in {"rx", "tx"} => done < count)
  BY DEF BaseInv, FlowInv, OnCard
<1>3. first \in Nat /\ count \in Nat /\ done \in Nat /\ Blocks \in Nat
  BY SdAssumption DEF BaseInv, TypeOK
<1> QED BY <1>1, <1>2, <1>3 DEF Address

LEMMA SendCmdOne ==
    ASSUME BaseInv, TransferInv, OneFaultInv, SendCmd, Relied'
    PROVE  (CmdInv /\ FetchInv /\ StoreInv)'
<1>1. /\ pc = "cmd" /\ UNCHANGED <<op, count, retry>> /\ op # "none"
      /\ pc' = IF ret' # "ok" THEN Failed ELSE IF op = "read" THEN "rx" ELSE "tx"
  BY DEF SendCmd, Goto, call, BaseInv, FlowInv
<1>2. Relied BY <1>1, ReliedBefore DEF Relied, Driver
<1>3. CmdInv BY <1>2 DEF OneFaultInv
<1>4. card.mode = "idle" /\ (card.busy => Stumbled)
      /\ (IF mishaps = 0 THEN retry = 0 ELSE retry \in {1, 2})
  BY <1>1, <1>3 DEF CmdInv
<1>5. op \in {"read", "write"} BY <1>1 DEF BaseInv, TypeOK
<1>6. op = "read" => pc' \in {"rx", "again", "again2"} /\ (ret' = "ok" <=> pc' = "rx")
      /\ (pc' = "again" => Multi)
  BY <1>1 DEF Failed
<1>7. op = "write" => pc' \in {"tx", "again"} /\ (ret' = "ok" <=> pc' = "tx")
  BY <1>1 DEF Failed
<1>8. CASE ~card.busy
  <2>1. Address < Blocks /\ Address = first BY <1>1, <1>2, AddressGood DEF Relied
  <2>2. "garbled_r1" \notin Transient BY DEF Transient
  <2>3. \/ card' = Started /\ ret' = "ok" /\ UNCHANGED mishaps
        \/ UNCHANGED card /\ ret' # "ok" /\ mishaps = 0 /\ mishaps' = 1
    <3>1. mishaps' <= 1 BY DEF Relied
    <3>2. ~Sending /\ ~Waiting BY <1>4 DEF Sending, Waiting
    <3>3. Address \in Nat /\ Blocks \in Nat BY SdAssumption, <2>1 DEF BaseInv, TypeOK
    <3> QED BY <1>4, <1>8, <2>1, <2>2, <3>1, <3>2, <3>3, FaultOnce DEF SendCmd, NoFault
  <2>4. CASE card' = Started /\ ret' = "ok" /\ UNCHANGED mishaps
    <3>1. ~card'.busy /\ card'.mode = (IF op = "read" THEN ReadMode ELSE WriteMode)
      BY <1>8, <2>4, CardMoves
    <3>2. ReadMode' = ReadMode /\ WriteMode' = WriteMode BY <1>1 DEF ReadMode, WriteMode, Multi
    <3> QED BY <1>1, <1>4, <1>5, <2>4, <3>1, <3>2 DEF CmdInv, FetchInv, StoreInv
  <2>5. CASE UNCHANGED card /\ ret' # "ok" /\ mishaps = 0 /\ mishaps' = 1
    <3>1. FirstFailed' /\ card'.mode = "idle" /\ ~card'.busy
      BY <1>1, <1>4, <1>8, <2>5 DEF FirstFailed
    <3>2. pc' \in {"again", "again2"} BY <1>5, <1>6, <1>7, <2>5
    <3> QED BY <3>1, <3>2 DEF CmdInv, FetchInv, StoreInv
  <2> QED BY <2>3, <2>4, <2>5
<1>9. CASE card.busy
  <2>1. Stumbled /\ op = "write" BY <1>4, <1>9 DEF Stumbled
  <2>2. /\ UNCHANGED mishaps
        /\ \/ ret' = "ok" /\ UNCHANGED card
           \/ ret' = "error" /\ card' = [card EXCEPT !.busy = FALSE]
    BY <1>4, <1>9 DEF SendCmd, NoFault, Sending, Waiting
  <2>3. card'.mode = "idle" /\ (ret' # "ok" => ~card'.busy) BY <1>4, <2>2, CardMoves
  <2>4. Stumbled' BY <1>1, <2>1, <2>2, <2>3 DEF Stumbled
  <2> QED BY <1>1, <1>4, <1>7, <2>1, <2>2, <2>3, <2>4 DEF CmdInv, FetchInv, StoreInv
<1> QED BY <1>8, <1>9

\* In a call that can be relied on the card sends the block that is waited for.
LEMMA FetchIs ==
    ASSUME BaseInv, TransferInv, OneFaultInv, Relied, pc = "rx"
    PROVE  /\ card.mode = ReadMode /\ Sending /\ ~card.busy /\ card.at < Blocks
           /\ IF mishaps = 0 THEN retry = 0 ELSE retry \in {1, 2}
<1>1. CmdInv /\ FetchInv BY DEF OneFaultInv
<1>2. card.mode = ReadMode /\ ~card.busy BY <1>1 DEF FetchInv
<1>3. Sending BY <1>2 DEF Sending, ReadMode
<1>4. card.at = first + done BY <1>3 DEF TransferInv, ReadInv, Relied
<1> QED BY <1>1, <1>2, <1>3, <1>4, AddressGood DEF CmdInv, Relied

LEMMA RxOne ==
    ASSUME BaseInv, TransferInv, OneFaultInv, Rx, Relied'
    PROVE  (CmdInv /\ FetchInv /\ StoreInv)'
<1>1. pc = "rx" /\ op = "read" /\ UNCHANGED <<count, retry>> /\ done < count
  BY DEF Rx, Received, NotReceived, Goto, call, Return, BaseInv, FlowInv
<1>2. Relied BY <1>1, ReliedBefore DEF Relied, Driver
<1>3. /\ card.mode = ReadMode /\ Sending /\ ~card.busy /\ card.at < Blocks
      /\ IF mishaps = 0 THEN retry = 0 ELSE retry \in {1, 2}
  BY <1>1, <1>2, FetchIs
<1>4. op' = "read" BY <1>1, DriverKeeps DEF Relied, Driver
<1>5. Multi' = Multi BY <1>1 DEF Multi
<1>6. count \in Nat /\ done \in Nat BY DEF BaseInv, TypeOK
<1>7. CASE Received
  <2>1. UNCHANGED mishaps /\ card' = Advanced(FALSE) BY <1>7 DEF Received, NoFault
  <2>2. Multi /\ pc' \in {"rx", "stop"}
    BY <1>1, <1>4, <1>6, <1>7 DEF Received, Goto, Return, Multi
  <2>3. card.mode = "reading" BY <1>3, <2>2 DEF ReadMode
  <2>4. card'.mode = "reading" /\ ~card'.busy BY <2>1, <2>3, CardMoves
  <2>5. ReadMode' = "reading" BY <1>5, <2>2 DEF ReadMode
  <2> QED BY <1>1, <1>3, <2>1, <2>2, <2>4, <2>5 DEF CmdInv, FetchInv, StoreInv
<1>8. CASE NotReceived
  <2>1. pc' = Failed /\ UNCHANGED op BY <1>8 DEF NotReceived, Goto, call
  <2>2. PICK kind : /\ Fault(kind)
                    /\ \/ card' = Advanced(FALSE)
                       \/ card' = (IF card.mode = "read1" THEN [card EXCEPT !.mode = "idle"] ELSE card)
    BY <1>3, <1>8 DEF NotReceived
  <2>3. mishaps = 0 /\ mishaps' = 1 BY <2>2, FaultOnce DEF Relied
  <2>4. FirstFailed' BY <1>1, <1>3, <2>3 DEF FirstFailed
  <2>5. CASE Multi
    <3>1. card.mode = "reading" BY <1>3, <2>5 DEF ReadMode
    <3>2. card'.mode = "reading" BY <2>2, <3>1, CardMoves
    <3>3. pc' = "again" BY <2>1, <2>5 DEF Failed
    <3> QED BY <1>4, <2>4, <3>2, <3>3 DEF CmdInv, FetchInv, StoreInv
  <2>6. CASE ~Multi
    <3>1. card.mode = "read1" BY <1>3, <2>6 DEF ReadMode
    <3>2. card'.mode = "idle" BY <2>2, <3>1, CardMoves
    <3>3. pc' = "again2" BY <1>1, <2>1, <2>6 DEF Failed
    <3> QED BY <2>4, <3>2, <3>3 DEF CmdInv, FetchInv, StoreInv
  <2> QED BY <2>5, <2>6
<1> QED BY <1>7, <1>8 DEF Rx

\* CMD12 stops the stream, or finds no transfer.
LEMMA Cmd12Stops ==
    ASSUME BaseInv, Cmd12, card.mode \in {"idle", "reading"}, mishaps' <= 1
    PROVE  /\ card'.mode = "idle"
           /\ \/ UNCHANGED mishaps /\ ret' # "error"
              \/ mishaps = 0 /\ mishaps' = 1 /\ ret' = "error"
<1>1. "stop_lost" \notin Transient BY DEF Transient
<1>2. card'.mode = "idle" BY <1>1, FaultOnce, CardMoves DEF Cmd12, Waiting
<1>3. \/ UNCHANGED mishaps /\ ret' # "error"
      \/ mishaps = 0 /\ mishaps' = 1 /\ ret' = "error"
  BY <1>1, FaultOnce DEF Cmd12, Waiting, NoFault
<1> QED BY <1>2, <1>3

LEMMA ReadEndOne ==
    ASSUME Retries >= 3, BaseInv, OneFaultInv, StopRead \/ Settle \/ ReadAgain \/ Again2, Relied'
    PROVE  (CmdInv /\ FetchInv /\ StoreInv)'
<1>1. op = "read" /\ UNCHANGED count
  BY DEF StopRead, Settle, ReadAgain, Again2, BaseInv, FlowInv, Goto, Return, NextRetry, call
<1>2. Relied BY <1>1, ReliedBefore DEF Relied, Driver
<1>3. CmdInv /\ FetchInv BY <1>2 DEF OneFaultInv
<1>4. op' = "read" BY <1>1, DriverKeeps DEF Relied, Driver
<1>5. CASE StopRead
  <2>1. pc = "stop" /\ Cmd12 /\ UNCHANGED retry /\ pc' = IF ret' = "error" THEN "again" ELSE "settle"
    BY <1>5 DEF StopRead, Goto
  <2>2. card.mode = "reading" /\ (IF mishaps = 0 THEN retry = 0 ELSE retry \in {1, 2})
    BY <1>3, <2>1 DEF CmdInv, FetchInv
  <2>3. /\ card'.mode = "idle"
        /\ \/ UNCHANGED mishaps /\ ret' # "error"
           \/ mishaps = 0 /\ mishaps' = 1 /\ ret' = "error"
    BY <2>1, <2>2, Cmd12Stops DEF Relied
  <2> QED BY <1>4, <2>1, <2>2, <2>3 DEF CmdInv, FetchInv, StoreInv, FirstFailed
<1>6. CASE Settle
  <2>1. op' = "none" BY <1>6 DEF Settle, Return
  <2> QED BY <1>4, <2>1
<1>7. CASE ReadAgain
  <2>1. pc = "again" /\ Cmd12 /\ UNCHANGED retry /\ (op' = "none" \/ pc' = "again2")
    BY <1>7 DEF ReadAgain, Return, Goto
  <2>2. FirstFailed /\ card.mode \in {"idle", "reading"} BY <1>1, <1>3, <2>1 DEF FetchInv
  <2>3. card'.mode = "idle" /\ mishaps' = 1
    BY <2>1, <2>2, Cmd12Stops DEF Relied, FirstFailed
  <2> QED BY <1>4, <2>1, <2>2, <2>3 DEF CmdInv, FetchInv, StoreInv, FirstFailed
<1>8. CASE Again2
  <2>1. pc = "again2" /\ Waited /\ NextRetry({"error"}) /\ UNCHANGED card BY <1>8 DEF Again2
  <2>2. FirstFailed /\ card.mode = "idle" BY <1>3, <2>1 DEF FetchInv
  <2>3. ~card.busy /\ UNCHANGED mishaps BY <2>1, Slow DEF Relied
  <2>4. retry' = 1 /\ pc' = "cmd" BY <1>4, <2>1, <2>2 DEF NextRetry, Return, Goto, FirstFailed
  <2> QED BY <2>1, <2>2, <2>3, <2>4 DEF CmdInv, FetchInv, StoreInv, FirstFailed
<1> QED BY <1>5, <1>6, <1>7, <1>8

LEMMA TxOne ==
    ASSUME BaseInv, TransferInv, OneFaultInv, Tx, Relied'
    PROVE  (CmdInv /\ FetchInv /\ StoreInv)'
<1>1. pc = "tx" /\ op = "write" /\ UNCHANGED <<op, count, retry>>
  BY DEF Tx, Goto, call, BaseInv, FlowInv
<1>2. Relied BY <1>1, ReliedBefore DEF Relied, Driver
<1>3. CmdInv /\ StoreInv BY <1>2 DEF OneFaultInv
<1>4. IF mishaps = 0 THEN retry = 0 ELSE retry \in {1, 2} BY <1>1, <1>3 DEF CmdInv
<1>5. "slow" \notin Transient BY DEF Transient
<1>6. ~card.busy BY <1>5, FaultOnce DEF Tx, Relied
<1>7. /\ done' = IF ret' = "ok" THEN done + 1 ELSE done
      /\ pc' = IF ret' = "ok" THEN "written" ELSE "response"
  BY <1>6 DEF Tx, Goto
<1>8. CASE Stumbled
  <2>1. ~Takes /\ ~Sending BY <1>8 DEF Stumbled, Takes, Sending
  <2>2. ret' = "error" /\ UNCHANGED <<mishaps, card>> BY <1>6, <2>1 DEF Tx, NoFault
  <2>3. Stumbled' BY <1>1, <1>8, <2>2 DEF Stumbled
  <2> QED BY <1>7, <2>2, <2>3 DEF CmdInv, FetchInv, StoreInv
<1>9. CASE ~Stumbled
  <2>1. card.mode = WriteMode BY <1>1, <1>3, <1>9 DEF StoreInv
  <2>2. Takes
    <3>1. ~Sending BY <2>1 DEF Sending, WriteMode
    <3>2. Waiting BY <2>1 DEF Waiting, WriteMode
    <3>3. card.at = first + done BY <1>1, <1>2, <3>2 DEF TransferInv, WriteInv, Relied
    <3> QED BY <1>1, <1>2, <2>1, <3>3, AddressGood DEF Takes, WriteMode, Relied
  <2>3. \/ card' = Advanced(TRUE) /\ ret' = "ok" /\ UNCHANGED mishaps
        \/ /\ card' \in {Advanced(TRUE), [Advanced(FALSE) EXCEPT !.at = card.at]}
           /\ ret' = "error" /\ mishaps = 0 /\ mishaps' = 1
    BY <1>6, <2>2, FaultOnce DEF Tx, NoFault, Relied
  <2>4. card'.mode = IF Multi THEN "writing" ELSE "idle"
    BY <2>1, <2>3, CardMoves DEF WriteMode
  <2>5. done + 1 >= 1 /\ (Multi' <=> Multi)
    <3>1. done + 1 >= 1 BY DEF BaseInv, TypeOK
    <3> QED BY <1>1, <3>1 DEF Multi
  <2>6. CASE ret' = "ok"
    <3>1. pc' = "written" /\ done' >= 1 /\ UNCHANGED mishaps BY <1>7, <2>3, <2>5, <2>6
    <3>2. CmdInv' /\ FetchInv' BY <1>1, <1>4, <3>1 DEF CmdInv, FetchInv
    <3>3. card'.mode = IF Multi' THEN "writing" ELSE "idle" BY <2>4, <2>5
    <3>4. StoreInv' BY <3>1, <3>3 DEF StoreInv
    <3> QED BY <3>2, <3>4
  <2>7. CASE ret' # "ok"
    <3>1. FirstFailed' BY <1>1, <1>4, <2>3, <2>7 DEF FirstFailed
    <3> QED BY <1>7, <2>4, <2>7, <3>1 DEF CmdInv, FetchInv, StoreInv
  <2> QED BY <2>6, <2>7
<1> QED BY <1>8, <1>9

LEMMA WriteEndOne ==
    ASSUME Retries >= 3, BaseInv, OneFaultInv, Relied',
           Response \/ BlockWritten \/ StopWrite \/ Final \/ WriteAgain
    PROVE  (CmdInv /\ FetchInv /\ StoreInv)'
<1>1. op = "write" /\ UNCHANGED <<count, done>>
  BY DEF Response, BlockWritten, StopWrite, Final, WriteAgain, BaseInv, FlowInv, Goto, Return,
         NextRetry, call
<1>2. Relied BY <1>1, ReliedBefore DEF Relied, Driver
<1>3. CmdInv /\ StoreInv BY <1>2 DEF OneFaultInv
<1>4. op' = "write" BY <1>1, DriverKeeps DEF Relied, Driver
<1>5. Multi' = Multi BY <1>1 DEF Multi
<1>6. "stop_lost" \notin Transient BY DEF Transient
<1>7. CASE Response
  <2>1. pc = "response" /\ pc' = "again" /\ Waited /\ UNCHANGED <<card, retry>>
    BY <1>7 DEF Response, Goto
  <2>2. ~card.busy /\ UNCHANGED mishaps BY <2>1, Slow DEF Relied
  <2>3. Stumbled \/ (FirstFailed /\ card.mode \in {"idle", "writing"})
    BY <1>1, <1>3, <2>1 DEF StoreInv
  <2>4. Stumbled' \/ (FirstFailed' /\ card.mode \in {"idle", "writing"})
    BY <1>4, <2>1, <2>2, <2>3 DEF Stumbled, FirstFailed
  <2> QED BY <1>4, <2>1, <2>2, <2>4 DEF CmdInv, FetchInv, StoreInv
<1>8. CASE BlockWritten
  <2>1. /\ pc = "written" /\ Waited /\ UNCHANGED <<card, retry>>
        /\ pc' = IF done < count THEN "tx" ELSE IF Multi THEN "token" ELSE "final"
    BY <1>8 DEF BlockWritten, Goto
  <2>2. ~card.busy /\ UNCHANGED mishaps BY <2>1, Slow DEF Relied
  <2>3. done >= 1 /\ card.mode = (IF Multi THEN "writing" ELSE "idle")
        /\ (IF mishaps = 0 THEN retry = 0 ELSE retry \in {1, 2})
    BY <1>3, <2>1 DEF StoreInv, CmdInv
  <2>4. done < count => Multi BY <2>3 DEF Multi, BaseInv, TypeOK
  <2>5. WriteMode' = WriteMode BY <1>5 DEF WriteMode
  <2>6. CmdInv' /\ FetchInv' BY <2>1, <2>2, <2>3 DEF CmdInv, FetchInv
  <2>7. CASE done < count
    <3>1. pc' = "tx" BY <2>1, <2>7
    <3>2. card.mode = WriteMode' BY <2>3, <2>4, <2>5, <2>7 DEF WriteMode
    <3>3. StoreInv' BY <2>1, <2>2, <3>1, <3>2 DEF StoreInv
    <3> QED BY <2>6, <3>3
  <2>8. CASE ~(done < count)
    <3>1. pc' = IF Multi THEN "token" ELSE "final" BY <2>1, <2>8
    <3>2. StoreInv' BY <2>1, <2>2, <2>3, <3>1 DEF StoreInv
    <3> QED BY <2>6, <3>2
  <2> QED BY <2>7, <2>8
<1>9. CASE StopWrite
  <2>1. pc = "token" /\ pc' = "final" /\ StopToken /\ UNCHANGED retry BY <1>9 DEF StopWrite, Goto
  <2>2. ~card.busy /\ card.mode = "writing" /\ (IF mishaps = 0 THEN retry = 0 ELSE retry \in {1, 2})
    BY <1>3, <2>1 DEF StoreInv, CmdInv
  <2>3. card' = Stopped /\ UNCHANGED mishaps
    BY <1>6, <2>1, <2>2, FaultOnce DEF StopToken, NoFault, Relied
  <2>4. card'.mode = "idle" BY <2>3, CardMoves
  <2> QED BY <2>1, <2>2, <2>3, <2>4 DEF CmdInv, FetchInv, StoreInv
<1>10. CASE Final
  <2>1. op' = "none" BY <1>10 DEF Final, Return
  <2> QED BY <1>4, <2>1
<1>11. CASE WriteAgain
  <2>1. pc = "again" /\ StopToken /\ NextRetry(WriteResults) BY <1>11 DEF WriteAgain
  <2>2. ~card.busy /\ (Stumbled \/ (FirstFailed /\ card.mode \in {"idle", "writing"}))
    BY <1>1, <1>3, <2>1 DEF StoreInv
  <2>3. UNCHANGED mishaps /\ mishaps = 1 /\ retry \in {0, 1}
    BY <1>6, <2>1, <2>2, FaultOnce DEF StopToken, NoFault, Relied, Stumbled, FirstFailed
  <2>4. retry' = retry + 1 /\ pc' = "cmd"
    BY <1>4, <2>1, <2>3 DEF NextRetry, Return, Goto
  <2>5. CASE card.mode = "writing"
    <3>1. card' = Stopped /\ retry = 0
      BY <1>6, <2>1, <2>2, <2>5, FaultOnce DEF StopToken, Relied, Stumbled, FirstFailed
    <3>2. card'.mode = "idle" BY <3>1, CardMoves
    <3>3. Stumbled' BY <1>4, <2>3, <2>4, <3>1, <3>2 DEF Stumbled
    <3> QED BY <2>3, <2>4, <3>1, <3>2, <3>3 DEF CmdInv, FetchInv, StoreInv
  <2>6. CASE card.mode # "writing"
    <3>1. UNCHANGED card /\ card.mode = "idle" BY <2>1, <2>2, <2>6 DEF StopToken, Stumbled
    <3> QED BY <2>2, <2>3, <2>4, <3>1 DEF CmdInv, FetchInv, StoreInv
  <2> QED BY <2>5, <2>6
<1> QED BY <1>7, <1>8, <1>9, <1>10, <1>11

LEMMA NextOne ==
    Retries >= 3 /\ BaseInv /\ TransferInv /\ OneFaultInv /\ [Next]_vars => OneFaultInv'
<1> SUFFICES ASSUME Retries >= 3, BaseInv, TransferInv, OneFaultInv, [Next]_vars
             PROVE  OneFaultInv'
  OBVIOUS
<1>1. CASE UNCHANGED vars
  BY <1>1 DEF vars, OneFaultInv, Relied, OnCard, CmdInv, FetchInv, StoreInv, Stumbled, FirstFailed, Multi,
              ReadMode, WriteMode
<1>2. CASE NewCall BY <1>2, CallOne DEF NewCall
<1>3. CASE Mount \/ CardReady BY <1>3, IdleOne
<1>4. CASE Driver
  BY <1>4, SendCmdOne, RxOne, ReadEndOne, TxOne, WriteEndOne DEF Driver, OneFaultInv
<1> QED BY <1>1, <1>2, <1>3, <1>4 DEF Next

LEMMA StepOne ==
    ASSUME Retries >= 3, BaseInv, TransferInv, OneFaultInv, [Next]_vars,
           op # "none", op' = "none", tidy, ~astray, mishaps' <= 1, OnCard
    PROVE  /\ IF op = "write" THEN Device!Written ELSE ret' = "ok"
           /\ card'.mode = "idle" /\ ~card'.busy
<1>1. Driver
  BY DEF Next, NewCall, Call, Mount, CardReady, call, vars
<1>2. Relied BY <1>1, MishapsGrow DEF Relied
<1>3. CmdInv /\ FetchInv /\ StoreInv BY <1>2 DEF OneFaultInv
<1>4. retry + 1 # Retries
      \/ ~(Again2 \/ WriteAgain)
  <2>1. ASSUME Again2 PROVE retry = 0 BY <1>3, <2>1 DEF Again2, FetchInv, FirstFailed
  <2>2. ASSUME WriteAgain PROVE retry \in {0, 1}
    BY <1>3, <2>2 DEF WriteAgain, StoreInv, FirstFailed, Stumbled
  <2> QED BY <2>1, <2>2, SdAssumption
<1>5. ~Again2 /\ ~WriteAgain
  <2>1. ASSUME Again2 \/ WriteAgain PROVE op' = op
    BY <1>4, <2>1 DEF Again2, WriteAgain, NextRetry, Goto, call
  <2> QED BY <2>1
<1>6. ~ReadAgain
  <2> SUFFICES ASSUME ReadAgain PROVE FALSE OBVIOUS
  <2>1. pc = "again" /\ op = "read" /\ Cmd12 /\ ret' = "error"
    BY DEF ReadAgain, Goto, call, Return
  <2>2. FirstFailed /\ card.mode \in {"idle", "reading"} BY <1>3, <2>1 DEF FetchInv
  <2> QED BY <2>1, <2>2, Cmd12Stops DEF FirstFailed
<1>7. CASE Rx
  <2>1. pc = "rx" /\ op = "read" BY <1>7 DEF Rx, BaseInv, FlowInv
  <2>2. Received /\ Return({"ok"}) /\ ~Multi
    BY <1>7 DEF Rx, Received, NotReceived, Goto, call
  <2>3. card' = Advanced(FALSE) BY <2>2 DEF Received
  <2>4. card.mode = "read1" BY <1>2, <2>1, <2>2, FetchIs DEF ReadMode
  <2>5. card'.mode = "idle" /\ ~card'.busy BY <2>3, <2>4, CardMoves
  <2> QED BY <2>1, <2>2, <2>5 DEF Return
<1>8. CASE Settle
  <2>1. pc = "settle" /\ op = "read" /\ Waited /\ UNCHANGED card BY <1>8 DEF Settle, BaseInv, FlowInv
  <2>2. ~card.busy BY <2>1, Slow
  <2>3. ret' = "ok" BY <1>8, <2>2 DEF Settle, Return
  <2> QED BY <1>3, <2>1, <2>2, <2>3 DEF FetchInv
<1>9. CASE Final
  <2>1. pc = "final" /\ op = "write" /\ Waited /\ UNCHANGED card BY <1>9 DEF Final, BaseInv, FlowInv
  <2>2. ~card.busy BY <2>1, Slow
  <2>3. Device!Written BY <2>1, WrittenAll
  <2> QED BY <1>3, <2>1, <2>2, <2>3 DEF StoreInv
<1>10. ASSUME SendCmd \/ StopRead \/ Tx \/ Response \/ BlockWritten \/ StopWrite PROVE FALSE
  BY <1>10 DEF SendCmd, StopRead, Tx, Response, BlockWritten, StopWrite, Goto, call
<1> QED BY <1>1, <1>5, <1>6, <1>7, <1>8, <1>9, <1>10 DEF Driver

\* The three attempts of the code make up for one fault, for cards and transfers
\* of any size, as long as the blocks exist. Two would not: the stop token of a failed write leaves the card
\* busy, and nobody waits before the next command.
THEOREM OneFaultSurvived == ASSUME Retries >= 3 PROVE Spec => SurvivesOneFault
<1> DEFINE IInv == BaseInv /\ TransferInv /\ OneFaultInv
           Returns == op # "none" /\ op' = "none" /\ tidy /\ ~astray /\ mishaps' <= 1
                        /\ first + count <= Blocks
             => /\ IF op = "write" THEN Device!Written ELSE ret' = "ok"
                /\ card'.mode = "idle" /\ ~card'.busy
<1>1. Init => IInv BY InitBase, InitTransfer, InitOne
<1>2. IInv /\ [Next]_vars => IInv' BY NextBase, NextTransfer, NextOne
<1>3. IInv /\ [Next]_vars => [Returns]_vars BY StepOne DEF OnCard
<1> QED BY <1>1, <1>2, <1>3, PTL DEF Spec, SurvivesOneFault

-----------------------------------------------------------------------------
(* A call ends, whatever the card does: each step of the driver takes one   *)
(* of a number of steps that is fixed when the call begins.                 *)

\* What the attempt under way may still take.
StepsLeft ==
    CASE pc = "cmd"     -> 2 * count + 8
      [] pc = "tx"      -> 2 * (count - done) + 5
      [] pc = "written" -> 2 * (count - done) + 6
      [] pc = "rx"      -> (count - done) + 5
      [] pc \in {"stop", "token"} -> 4
      [] pc \in {"response", "final"} -> 3
      [] pc = "again"   -> 2
      [] OTHER          -> 1

\* An attempt and all its steps, and what the attempts to come add.
Attempt == 2 * count + 8
Remaining == (Retries - retry - 1) * Attempt + StepsLeft

CallsAreBounded ==
    [][op # "none" =>
         /\ Remaining \in 1..(Retries * Attempt)
         /\ \/ op' = "none"
            \/ Remaining' < Remaining
            \/ CardReady /\ Remaining' = Remaining]_vars

LEMMA StepsBounds ==
    ASSUME BaseInv, op # "none"
    PROVE  /\ count \in Nat \ {0} /\ done \in Nat /\ retry \in Nat /\ retry < Retries
           /\ Attempt \in Nat \ {0} /\ StepsLeft \in 1..Attempt
<1> USE SdAssumption
<1>1. /\ count \in Nat \ {0} /\ done \in Nat /\ retry \in Nat /\ retry < Retries
      /\ pc \in {"cmd", "rx", "stop", "settle", "again", "again2", "tx",
                 "response", "written", "token", "final"}
      /\ (pc \in {"rx", "tx"} => done < count) /\ (pc = "written" => done <= count)
  BY DEF BaseInv, TypeOK, FlowInv
<1>2. StepsLeft \in 1..Attempt
  BY <1>1 DEF StepsLeft, Attempt
<1> QED BY <1>1, <1>2 DEF Attempt

\* A step of the driver ends the call or takes one from its attempt, or it is
\* the last of the attempt and another one is left.
LEMMA DriverNearer ==
    ASSUME BaseInv, Driver, op' # "none"
    PROVE  /\ op # "none" /\ count' = count
           /\ \/ retry' = retry /\ StepsLeft' \in Nat /\ StepsLeft' < StepsLeft
              \/ retry' = retry + 1 /\ retry + 1 < Retries /\ pc' = "cmd"
<1> USE SdAssumption
<1>1. pc # "idle"
  BY DEF Driver, SendCmd, Rx, StopRead, Settle, ReadAgain, Again2, Tx, Response,
         BlockWritten, StopWrite, Final, WriteAgain
<1>2. /\ op # "none" /\ count \in Nat \ {0} /\ done \in Nat /\ retry \in Nat
      /\ Retries \in Nat
      /\ (pc \in {"rx", "tx"} => done < count) /\ (pc = "written" => done <= count)
  BY <1>1 DEF BaseInv, TypeOK, FlowInv
<1> USE <1>2 DEF StepsLeft, Goto, Return, call
<1>3. CASE SendCmd
  <2>1. /\ pc = "cmd" /\ done' = 0 /\ retry' = retry /\ count' = count
        /\ pc' \in {"rx", "tx", "again", "again2"}
    BY <1>3 DEF SendCmd, Rewind, Failed
  <2> QED BY <2>1
<1>4. CASE Rx
  <2>1. /\ pc = "rx" /\ done < count /\ retry' = retry /\ count' = count
        /\ \/ pc' \in {"again", "again2"}
           \/ pc' = "stop"
           \/ pc' = "rx" /\ done' = done + 1
    BY <1>4 DEF Rx, Received, NotReceived, Failed
  <2> QED BY <2>1
<1>5. CASE StopRead
  BY <1>5 DEF StopRead
<1>6. CASE Settle
  BY <1>6 DEF Settle
<1>7. CASE ReadAgain
  BY <1>7 DEF ReadAgain
<1>8. CASE Again2
  BY <1>8 DEF Again2, NextRetry, BaseInv, FlowInv
<1>9. CASE Tx
  <2>1. /\ pc = "tx" /\ done < count /\ retry' = retry /\ count' = count
        /\ \/ pc' = "again" /\ done' = done
           \/ pc' = "response" /\ done' = done
           \/ pc' = "written" /\ done' = done + 1
    BY <1>9 DEF Tx
  <2> QED BY <2>1
<1>10. CASE Response
  BY <1>10 DEF Response
<1>11. CASE BlockWritten
  BY <1>11 DEF BlockWritten
<1>12. CASE StopWrite
  BY <1>12 DEF StopWrite
<1>13. CASE Final
  BY <1>13 DEF Final
<1>14. CASE WriteAgain
  BY <1>14 DEF WriteAgain, NextRetry, BaseInv, FlowInv
<1> QED
  BY <1>3, <1>4, <1>5, <1>6, <1>7, <1>8, <1>9, <1>10, <1>11, <1>12, <1>13, <1>14
  DEF Driver

\* An attempt less is worth more than a step less.
LEMMA AttemptsLeft ==
    ASSUME NEW n \in Nat, NEW size \in Nat, NEW left \in 1..size
    PROVE  /\ n * size \in Nat
           /\ n * size + left \in 1..((n + 1) * size)
           /\ n # 0 => (n - 1) * size + size < n * size + left
<1>1. n * size \in Nat /\ (n + 1) * size = n * size + size
  BY SMT
<1>2. n # 0 => (n - 1) * size + size = n * size
  BY SMT
<1> QED BY <1>1, <1>2

LEMMA StepNearer ==
    ASSUME BaseInv, [Next]_vars, op # "none"
    PROVE  /\ Remaining \in 1..(Retries * Attempt)
           /\ \/ op' = "none"
              \/ Remaining' < Remaining
              \/ CardReady /\ Remaining' = Remaining
              \/ UNCHANGED vars
<1> DEFINE n == Retries - retry - 1
<1>1. /\ n \in Nat /\ n + 1 <= Retries /\ Retries \in Nat /\ retry \in Nat
      /\ Attempt \in Nat /\ StepsLeft \in 1..Attempt /\ count \in Nat
  BY StepsBounds, SdAssumption
<1>2. Remaining = n * Attempt + StepsLeft
  BY DEF Remaining
<1> HIDE DEF n
<1>3. Remaining \in 1..(Retries * Attempt)
  <2>1. n * Attempt + StepsLeft \in 1..((n + 1) * Attempt)
    BY <1>1, AttemptsLeft
  <2>2. (n + 1) * Attempt <= Retries * Attempt
    <3>1. \A a, b, k \in Nat : a <= b => a * k <= b * k
      BY SMT
    <3> QED BY <1>1, <3>1
  <2>3. (n + 1) * Attempt \in Nat /\ Retries * Attempt \in Nat
    <3>1. \A a, k \in Nat : a * k \in Nat
      BY SMT
    <3> QED BY <1>1, <3>1
  <2> QED BY <1>2, <2>1, <2>2, <2>3
<1>4. CASE Driver
  <2>1. CASE op' = "none"
    BY <1>3, <2>1
  <2>2. CASE op' # "none"
    <3>1. Attempt' = Attempt
      BY <1>4, <2>2, DriverNearer DEF Attempt
    <3>2. CASE retry' = retry /\ StepsLeft' \in Nat /\ StepsLeft' < StepsLeft
      <4>1. PICK others \in Nat : others = n * Attempt
        BY <1>1, AttemptsLeft
      <4>2. Remaining' = others + StepsLeft'
        BY <3>1, <3>2, <4>1 DEF Remaining, n
      <4>3. Remaining = others + StepsLeft
        BY <1>2, <4>1
      <4>4. StepsLeft \in Nat /\ StepsLeft' \in Nat /\ StepsLeft' < StepsLeft
        BY <1>1, <3>2
      <4>5. others + StepsLeft' < others + StepsLeft
        BY <4>1, <4>4
      <4> QED BY <1>3, <4>2, <4>3, <4>5
    <3>3. CASE retry' = retry + 1 /\ retry + 1 < Retries /\ pc' = "cmd"
      <4>1. n # 0 /\ Remaining' = (n - 1) * Attempt + StepsLeft'
        BY <1>1, <3>1, <3>3, SdAssumption DEF Remaining, n
      <4>2. StepsLeft' = Attempt
        BY <1>4, <2>2, <3>3, DriverNearer DEF StepsLeft, Attempt
      <4> QED BY <1>1, <1>2, <1>3, <4>1, <4>2, AttemptsLeft
    <3> QED BY <1>4, <2>2, <3>2, <3>3, DriverNearer
  <2> QED BY <2>1, <2>2
<1>5. CASE CardReady
  <2>1. UNCHANGED <<count, done, retry, pc>>
    BY <1>5 DEF CardReady, call
  <2>2. Remaining' = Remaining
    BY <2>1 DEF Remaining, StepsLeft, Attempt
  <2> QED BY <1>3, <1>5, <2>2
<1>6. CASE NewCall \/ Mount
  BY <1>6 DEF NewCall, Call, Mount
<1> QED BY <1>3, <1>4, <1>5, <1>6 DEF Next

(* Every call of sdmmc_read_block() and sdmmc_write_block() is over after   *)
(* a number of steps that depends on its blocks and the retries alone,      *)
(* whatever the card answers and however often it does not (sdmmc.c).       *)
THEOREM CallsEndInTime == Spec => CallsAreBounded
<1>1. BaseInv /\ [Next]_vars =>
        [op # "none" =>
           /\ Remaining \in 1..(Retries * Attempt)
           /\ \/ op' = "none"
              \/ Remaining' < Remaining
              \/ CardReady /\ Remaining' = Remaining]_vars
  BY StepNearer
<1> QED BY <1>1, InitBase, NextBase, PTL DEF Spec, CallsAreBounded
=============================================================================
