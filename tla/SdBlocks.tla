------------------------------- MODULE SdBlocks -------------------------------
(***************************************************************************)
(* sdmmc_read_block() and sdmmc_write_block() with a card on the other end *)
(* of the SPI bus.  One step is a command with its answer, a data block,   *)
(* or a wait.                                                              *)
(*                                                                         *)
(* The card carries out one transfer at a time: "read1" and "reading" send *)
(* one block or stream blocks (CMD17, CMD18), "write1" and "writing" wait  *)
(* for one block or for blocks until the stop token (CMD24, CMD25).  After *)
(* a block, a stop or the end of a stream it is busy for a while and holds *)
(* its line low, which a driver that waits for an R1 takes for R1 = 0.  It *)
(* answers nothing else while it waits for a block.  Its blocks are        *)
(* addressed by number: it is an SDHC card.  A read has a CRC; a write has *)
(* none and its data are taken to arrive intact.                           *)
(***************************************************************************)
EXTENDS Naturals, Sequences

CONSTANTS Blocks,          \* blocks of the card
          WriteProtected,  \* sdmmc_write_protected_sectors
          BlockSize,       \* SDMMC_BLOCK_SIZE, the scale of a byte address
          Word,            \* 2^32, where block numbers wrap
          Retries,         \* SDMMC_RETRIES
          MaxCount,        \* largest transfer
          MaxCalls,        \* bound on the calls
          FaultKinds,      \* what may go wrong
          MaxFaults        \* bound on that

\* A retry masks one of these.
Transient == {"no_resp", "rejected", "garbled", "no_token", "refused", "unanswered"}
AllFaults == Transient \cup {"garbled_r1", "stop_lost", "slow", "init"}

ASSUME SdAssumption ==
    /\ Blocks \in Nat \ {0} /\ WriteProtected \in Nat
    /\ BlockSize \in Nat \ {0, 1}
    /\ Retries \in Nat \ {0}
    /\ MaxCount \in Nat \ {0} /\ MaxCalls \in Nat
    /\ Word \in Nat /\ Blocks + MaxCount <= Word
    /\ FaultKinds \subseteq AllFaults
    /\ MaxFaults \in Nat

VARIABLES card,      \* the card: transfer, next block, busy
          disk,      \* its content
          type,      \* sdmmc_cards[1].type: none, or hc for SDC_V2HC
          blocks,    \* sdmmc_cards[1].blocks
          op,        \* the call: none, read or write
          first,     \* block_num
          count,     \* count
          done,      \* blocks transferred in this attempt
          retry,     \* attempts made
          pc,        \* where the call is
          ret,       \* ret
          buf,       \* what a read has stored
          calls,     \* calls so far; names the data of a write
          astray,    \* history: an R1 was read from a card in another transfer
          tidy,      \* history: the card was idle when the call began
          mishaps,   \* history: faults during the call, a permanent one is 2
          faults     \* faults so far

vars == <<card, disk, type, blocks, op, first, count, done, retry, pc, ret,
          buf, calls, astray, tidy, mishaps, faults>>
call == <<op, first, count, calls, tidy>>

AllBlocks == 0..(Blocks - 1)
Content == (0..MaxCalls) \X Nat

TypeOK ==
    /\ card \in [mode: {"idle", "read1", "reading", "write1", "writing"},
                 at: 0..Blocks, busy: BOOLEAN]
    /\ disk \in [AllBlocks -> Content]
    /\ type \in {"none", "hc"} /\ blocks \in {0, Blocks}
    /\ op \in {"none", "read", "write"}
    /\ first \in 0..Word /\ count \in 0..MaxCount /\ done \in 0..MaxCount
    /\ retry \in 0..Retries
    /\ pc \in {"idle", "cmd", "rx", "stop", "settle", "again", "again2", "tx",
               "response", "written", "token", "final"}
    /\ ret \in {"ok", "r1", "error"}
    /\ buf \in Seq(Content)
    /\ calls \in 0..MaxCalls
    /\ astray \in BOOLEAN /\ tidy \in BOOLEAN
    /\ mishaps \in 0..2 /\ faults \in 0..MaxFaults

Init ==
    /\ card = [mode |-> "idle", at |-> 0, busy |-> FALSE]
    /\ disk = [k \in AllBlocks |-> <<0, k>>]
    /\ type = "none" /\ blocks = 0
    /\ op = "none" /\ first = 0 /\ count = 0 /\ done = 0 /\ retry = 0
    /\ pc = "idle" /\ ret = "ok" /\ buf = <<>> /\ calls = 0
    /\ astray = FALSE /\ tidy = TRUE /\ mishaps = 0 /\ faults = 0

Fault(kind) ==
    /\ kind \in FaultKinds
    /\ faults < MaxFaults
    /\ faults' = faults + 1
    /\ mishaps' = IF kind \in Transient /\ mishaps = 0 THEN 1 ELSE 2

NoFault == UNCHANGED <<mishaps, faults>>

Multi == count >= 2
Target == first..(first + count - 1)

\* The command's argument.
Address == IF type = "hc" THEN first ELSE first * BlockSize

-----------------------------------------------------------------------------
(* The card. *)

Sending == card.mode \in {"read1", "reading"}
Waiting == card.mode \in {"write1", "writing"}

Started == [card EXCEPT !.at = Address,
              !.mode = IF op = "read" THEN IF Multi THEN "reading" ELSE "read1"
                                      ELSE IF Multi THEN "writing" ELSE "write1"]

\* After a block a single transfer is over; a block written makes it busy.
Advanced(busy) == [mode |-> IF card.mode \in {"read1", "write1"} THEN "idle" ELSE card.mode,
                   at |-> card.at + 1, busy |-> busy]

Stopped == [card EXCEPT !.mode = "idle", !.busy = TRUE]

CardReady ==
    /\ card.busy
    /\ card' = [card EXCEPT !.busy = FALSE]
    /\ UNCHANGED <<disk, type, blocks, call, done, retry, pc, ret, buf, astray, mishaps, faults>>

-----------------------------------------------------------------------------
(* Calls, and the initialisation that must come first.                     *)

\* CMD0 ends whatever the card is doing; the identification that follows is
\* one step here.  A busy card answers CMD0 wrongly.
Mount ==
    /\ op = "none"
    /\ \/ /\ ~card.busy
          /\ card' = [card EXCEPT !.mode = "idle"]
          /\ type' = "hc" /\ blocks' = Blocks /\ astray' = FALSE
          /\ NoFault
       \/ /\ card.busy \/ "init" \in FaultKinds
          /\ IF card.busy THEN NoFault ELSE Fault("init")
          /\ card' \in {card, [card EXCEPT !.mode = "idle"]}
          /\ type' \in {"none", "hc"} /\ blocks' = 0
          /\ UNCHANGED astray
    /\ UNCHANGED <<disk, call, done, retry, pc, ret, buf>>

\* A sum of two uint32_t, the second of which is at most MaxCount.
Sum32(f, c) == IF f + c < Word THEN f + c ELSE f + c - Word

\* The sum may wrap, and blocks that do not exist pass the test.
Call(o, f, c) ==
    /\ op = "none"
    /\ calls < MaxCalls
    /\ type # "none" /\ Sum32(f, c) <= blocks
    /\ o = "write" => f >= WriteProtected
    /\ op' = o /\ first' = f /\ count' = c /\ calls' = calls + 1
    /\ tidy' = (card.mode = "idle" /\ ~card.busy)
    /\ retry' = 0 /\ done' = 0 /\ pc' = "cmd" /\ ret' = "ok" /\ buf' = <<>>
    /\ mishaps' = 0
    /\ UNCHANGED <<card, disk, type, blocks, astray, faults>>

Return(results) ==
    /\ op' = "none" /\ pc' = "idle"
    /\ ret' \in results
    /\ UNCHANGED <<first, count, calls, tidy>>

Goto(where) == pc' = where /\ UNCHANGED call

\* wait_ready(): the card gets ready, or the wait runs out first.
Waited == (~card.busy /\ NoFault) \/ (card.busy /\ Fault("slow"))

\* Faulty variant: the loop does not count.
RetryForever(results) == UNCHANGED <<retry, ret>> /\ Goto("cmd")

\* The next round of the for loop, or its end.
NextRetry(results) ==
    /\ retry' = retry + 1
    /\ IF retry + 1 = Retries THEN Return(results) ELSE Goto("cmd") /\ UNCHANGED ret

\* Faulty variant: no CMD12 and no stop token before the next attempt.
FailedAtOnce == "again2"

Failed == IF op = "read" /\ ~Multi THEN "again2" ELSE "again"

\* Faulty variant: a retry goes on where the last attempt has stopped.
RewindNothing == UNCHANGED <<done, buf>>

\* c = count and b = buf.
Rewind == done' = 0 /\ buf' = <<>>

\* A busy card pulls the line low, unless it gets ready just then, and one that
\* sends a block has a byte below 0x80 among its data: both pass for an R1.
SendCmd ==
    /\ pc = "cmd"
    /\ Rewind
    /\ \/ /\ card.mode = "idle" /\ ~card.busy
          /\ \/ Address < Blocks /\ card' = Started /\ ret' = "ok" /\ NoFault
             \/ Address >= Blocks /\ ret' = "r1" /\ NoFault /\ UNCHANGED card
             \/ Fault("rejected") /\ ret' = "r1" /\ UNCHANGED card
             \/ Fault("no_resp") /\ ret' = "error" /\ UNCHANGED card
             \/ Fault("garbled_r1") /\ Address < Blocks /\ ret' = "r1" /\ card' = Started
          /\ UNCHANGED astray
       \/ /\ \/ card.busy /\ ret' = "ok" /\ UNCHANGED card
             \/ card.busy /\ ret' = "error" /\ card' = [card EXCEPT !.busy = FALSE]
             \/ Sending /\ ret' \in {"ok", "r1"} /\ UNCHANGED card
             \/ Waiting /\ ~card.busy /\ ret' = "error" /\ UNCHANGED card
          /\ astray' = (astray \/ (card.mode # "idle" /\ ret' = "ok"))
          /\ NoFault
    /\ Goto(IF ret' # "ok" THEN Failed ELSE IF op = "read" THEN "rx" ELSE "tx")
    /\ UNCHANGED <<disk, type, blocks, retry>>

-----------------------------------------------------------------------------
(* The rest of a read. *)

Received ==
    /\ Sending /\ card.at < Blocks
    /\ buf' = Append(buf, disk[card.at])
    /\ card' = Advanced(FALSE)
    /\ done' = done + 1
    /\ IF done + 1 < count THEN Goto("rx") /\ ret' = "ok"
       ELSE IF Multi THEN Goto("stop") /\ ret' = "ok"
       ELSE Return({"ok"})
    /\ NoFault

\* The CRC does not add up, or no token comes.
NotReceived ==
    /\ ret' = "error"
    /\ Goto(Failed)
    /\ \/ Sending /\ card.at < Blocks /\ Fault("garbled") /\ card' = Advanced(FALSE)
       \/ /\ Sending /\ Fault("no_token")
          /\ card' = IF card.mode = "read1" THEN [card EXCEPT !.mode = "idle"] ELSE card
       \/ ~(Sending /\ card.at < Blocks) /\ NoFault /\ UNCHANGED card
    /\ UNCHANGED <<buf, done>>

Rx ==
    /\ pc = "rx"
    /\ Received \/ NotReceived
    /\ UNCHANGED <<disk, type, blocks, retry, astray>>

\* CMD12 and its R1.
Cmd12 ==
    \/ /\ card.mode = "reading"
       /\ \/ card' = Stopped /\ ret' = "ok" /\ NoFault
          \/ card' = Stopped /\ ret' = "error" /\ Fault("no_resp")
          \/ Fault("stop_lost") /\ ret' = "ok" /\ UNCHANGED card
    \/ /\ card.mode \in {"idle", "read1"}
       /\ (ret' = "r1" /\ NoFault) \/ (ret' = "error" /\ Fault("no_resp"))
       /\ UNCHANGED card
    \/ Waiting /\ ret' = "error" /\ NoFault /\ UNCHANGED card

StopRead ==
    /\ pc = "stop"
    /\ Cmd12
    /\ Goto(IF ret' = "error" THEN "again" ELSE "settle")
    /\ UNCHANGED <<disk, type, blocks, done, retry, buf, astray>>

Settle ==
    /\ pc = "settle"
    /\ Waited
    /\ Return(IF card.busy THEN {"error"} ELSE {"ok"})
    /\ UNCHANGED <<card, disk, type, blocks, done, retry, buf, astray>>

\* again: CMD12 again, and if that fails the loop is left at once.
ReadAgain ==
    /\ pc = "again" /\ op = "read"
    /\ \/ Cmd12 /\ ret' # "error" /\ Goto("again2")
       \/ Cmd12 /\ Return({"error"})
    /\ UNCHANGED <<disk, type, blocks, done, retry, buf, astray>>

Again2 ==
    /\ pc = "again2"
    /\ Waited
    /\ NextRetry({"error"})
    /\ UNCHANGED <<card, disk, type, blocks, done, buf, astray>>

-----------------------------------------------------------------------------
(* The rest of a write. *)

\* The token of the data must be the one for the command.
Takes == card.mode = (IF Multi THEN "writing" ELSE "write1") /\ card.at < Blocks

Stores == disk' = [disk EXCEPT ![card.at] = <<calls, first + done>>]

Tx ==
    /\ pc = "tx"
    /\ \/ card.busy /\ Fault("slow") /\ ret' = "error" /\ Goto("again")
          /\ UNCHANGED <<card, disk, done>>
       \/ /\ ~card.busy
          /\ \/ Takes /\ Stores /\ card' = Advanced(TRUE) /\ ret' = "ok" /\ NoFault
             \/ Takes /\ Stores /\ card' = Advanced(TRUE) /\ ret' = "error" /\ Fault("unanswered")
             \/ Takes /\ card' = [Advanced(FALSE) EXCEPT !.at = card.at] /\ ret' = "error"
                /\ Fault("refused") /\ UNCHANGED disk
             \/ ~Takes /\ ret' \in (IF Sending THEN {"ok", "error"} ELSE {"error"})
                /\ NoFault /\ UNCHANGED <<card, disk>>
          /\ done' = IF ret' = "ok" THEN done + 1 ELSE done
          /\ Goto(IF ret' = "ok" THEN "written" ELSE "response")
    /\ UNCHANGED <<type, blocks, retry, buf, astray>>

\* No answer: the loop that looks for it goes on longer than any wait_ready().
Response ==
    /\ pc = "response"
    /\ Waited
    /\ Goto("again")
    /\ UNCHANGED <<card, disk, type, blocks, done, retry, ret, buf, astray>>

\* What wait_ready() returns is ignored.
BlockWritten ==
    /\ pc = "written"
    /\ Waited
    /\ Goto(IF done < count THEN "tx" ELSE IF Multi THEN "token" ELSE "final")
    /\ UNCHANGED <<card, disk, type, blocks, done, retry, ret, buf, astray>>

\* A busy card does not hear the stop token.
StopToken ==
    \/ /\ card.mode = "writing"
       /\ \/ /\ NoFault
             /\ card' = IF card.busy THEN card ELSE Stopped
          \/ Fault("stop_lost") /\ UNCHANGED card
    \/ card.mode # "writing" /\ NoFault /\ UNCHANGED card

StopWrite ==
    /\ pc = "token"
    /\ StopToken
    /\ Goto("final")
    /\ UNCHANGED <<disk, type, blocks, done, retry, ret, buf, astray>>

\* The retry that the function tests at its end is another variable than the
\* loop's and never assigned: SDMMC_ERROR_WRITE may be returned at any time.
WriteResults == {ret, "error"}

Final ==
    /\ pc = "final"
    /\ Waited
    /\ Return(WriteResults)
    /\ UNCHANGED <<card, disk, type, blocks, done, retry, buf, astray>>

WriteAgain ==
    /\ pc = "again" /\ op = "write"
    /\ StopToken
    /\ NextRetry(WriteResults)
    /\ UNCHANGED <<disk, type, blocks, done, buf, astray>>

Driver == SendCmd \/ Rx \/ StopRead \/ Settle \/ ReadAgain \/ Again2
          \/ Tx \/ Response \/ BlockWritten \/ StopWrite \/ Final \/ WriteAgain

\* The others never pass the test.
BlockNumbers == AllBlocks \cup {f \in (Word - MaxCount)..(Word - 1) : f >= Blocks}

NewCall == \E o \in {"read", "write"}, f \in BlockNumbers, c \in 1..MaxCount : Call(o, f, c)

Next == NewCall \/ Mount \/ CardReady \/ Driver

\* A call runs to its end, and a busy card gets ready.
Spec == Init /\ [][Next]_vars /\ WF_vars(Driver) /\ WF_vars(CardReady)

-----------------------------------------------------------------------------
\* The driver implements BlockDevice: what it returns success for is on the
\* card or in the buffer, and it never touches another block, whatever is lost
\* and however often a transfer is begun again.  Not promised when the card
\* goes on with an earlier transfer and the driver does not notice: after a
\* CMD12 it did not hear, a single block that was not fetched, or a stop token
\* sent while it was still busy, because waits that run out are ignored.
Device == INSTANCE BlockDevice
ImplementsDevice == Device!Spec

\* The retries make up for any one fault that the card and the driver both know
\* of: such a call, for blocks of the card, succeeds (a write may yet report a
\* failure, see WriteResults) and leaves the card ready for the next.
SurvivesOneFault ==
    [][op # "none" /\ op' = "none" /\ tidy /\ ~astray /\ mishaps' <= 1
         /\ first + count <= Blocks
       => /\ IF op = "write" THEN Device!Written ELSE ret' = "ok"
          /\ card'.mode = "idle" /\ ~card'.busy]_vars

\* Every call returns, also when the card is stuck in a transfer.
CallsReturn == op # "none" ~> op = "none"
=============================================================================
