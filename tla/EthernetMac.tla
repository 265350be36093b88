---------------------------- MODULE EthernetMac ----------------------------
(***************************************************************************)
(* The Ethernet driver mac.c: mac_rx() and mac_tx_packet(), each of which  *)
(* the event loop (mac_poll) and the interrupt handler may be executing,   *)
(* and the FIFOs of the controller.  A frame is a word with its length and *)
(* the words of its data.  The handler may come between any two accesses   *)
(* of the loop to the controller, and runs to its end.                     *)
(*                                                                         *)
(* The receive FIFO holds everything that has arrived from word `next` on. *)
(* A data word that is taken for a length is any length, Huge stands for   *)
(* more than 2048 bytes.                                                   *)
(***************************************************************************)
EXTENDS Naturals, Sequences

CONSTANTS MaxWords,      \* longest frame
          TxRoom,        \* words the transmit FIFO holds
          MaxFrames,     \* bound on the frames that arrive
          MaxPackets     \* bound on the packets the stack sends

ASSUME MacAssumption ==
    /\ MaxWords \in Nat \ {0} /\ TxRoom \in Nat \ {0}
    /\ MaxFrames \in Nat /\ MaxPackets \in Nat

VARIABLES sent,      \* lengths of the frames that have arrived
          next,      \* the next word of the receive FIFO: frame, index
          pend,      \* the PENDING bit of the MAC
          rx,        \* mac_rx of either context: where, bytes_left, data, allocated
          input,     \* history: what default_netif.input was given
          rxMixed,   \* history: the handler read within a frame of the loop's
          tx,        \* the transmit FIFO
          push,      \* mac_tx_packet of either context: where, length, number, next word
          queued,    \* lengths of the packets pushed
          wire,      \* the controller's frame: words missing, words sent
          left,      \* history: frames on the wire
          txMixed    \* history: the handler pushed within a packet of the loop's

rxVars == <<sent, next, pend, rx, input, rxMixed>>
txVars == <<tx, push, queued, wire, left, txMixed>>
vars == <<rxVars, txVars>>

Contexts == {"loop", "irq"}
Lengths == 1..MaxWords
Huge == MaxWords + 1

RxOff == [at |-> "off", todo |-> 0, data |-> <<>>, keep |-> FALSE]
PushOff == [at |-> "off", len |-> 0, no |-> 0, word |-> 0]

TypeOK ==
    /\ sent \in Seq(Lengths)
    /\ next \in [f: 1..(Len(sent) + 1), i: 0..MaxWords]
    /\ pend \in BOOLEAN /\ rxMixed \in BOOLEAN /\ txMixed \in BOOLEAN
    /\ rx \in [Contexts -> [at: {"off", "test", "header", "word", "pop", "input"},
                            todo: 0..MaxWords, data: Seq(Nat \X Nat), keep: BOOLEAN]]
    /\ input \in Seq(Seq(Nat \X Nat))
    /\ tx \in Seq(Nat \X Nat) /\ Len(tx) <= TxRoom
    /\ push \in [Contexts -> [at: {"off", "room", "push"}, len: 0..MaxWords,
                              no: Nat, word: 0..MaxWords]]
    /\ queued \in Seq(Lengths)
    /\ wire \in [todo: 0..MaxWords, data: Seq(Nat \X Nat)]
    /\ left \in Seq(Seq(Nat \X Nat))

Init ==
    /\ sent = <<>> /\ next = [f |-> 1, i |-> 0] /\ pend = FALSE
    /\ rx = [c \in Contexts |-> RxOff]
    /\ input = <<>> /\ rxMixed = FALSE
    /\ tx = <<>> /\ push = [c \in Contexts |-> PushOff]
    /\ queued = <<>> /\ wire = [todo |-> 0, data |-> <<>>]
    /\ left = <<>> /\ txMixed = FALSE

-----------------------------------------------------------------------------
(* Receiving. *)

Empty == next.f = Len(sent) + 1

\* A read of an empty FIFO returns whatever is there.
Word == IF Empty THEN <<0, 0>> ELSE <<next.f, next.i>>

Popped ==
    IF Empty THEN next
    ELSE IF next.i = sent[next.f] THEN [f |-> next.f + 1, i |-> 0]
    ELSE [next EXCEPT !.i = @ + 1]

\* Faulty variant: the number of words is rounded up once too often.
OneTooMany(w) == IF w[1] # 0 /\ w[2] = 0 THEN {sent[w[1]] + 1} ELSE 0..Huge

\* What a word says when it is taken for a length.
LengthIn(w) == IF w[1] # 0 /\ w[2] = 0 THEN {sent[w[1]]} ELSE 0..Huge

\* Faulty variant: an edge-sensitive interrupt.
LatchEdge(kept) == pend' = (kept \/ (Empty /\ ~Empty'))

\* The line is the FIFO not being empty.
Latch(kept) == pend' = (kept \/ ~Empty')

\* The loop runs when no handler does, and a context is in one function at a time.
Runs(c) == c = "loop" => rx["irq"].at = "off"
InRx(c, at) == rx[c].at = at /\ push[c].at = "off" /\ Runs(c)

WithinFrame == rx["loop"].at \in {"header", "word", "pop"}
WithinPacket == push["loop"].at = "push" \/ (push["loop"].at = "room" /\ push["loop"].word > 0)

Arrive ==
    /\ Len(sent) < MaxFrames
    /\ \E n \in Lengths : sent' = Append(sent, n)
    /\ UNCHANGED <<next, rx, input, rxMixed, txVars>>
    /\ Latch(pend)

Trap ==
    /\ pend /\ rx["irq"].at = "off"
    /\ rx' = [rx EXCEPT !["irq"] = [RxOff EXCEPT !.at = "test"]]
    /\ UNCHANGED <<sent, next, input, rxMixed, txVars>>
    /\ Latch(pend)

mac_poll ==
    /\ InRx("loop", "off")
    /\ ~Empty
    /\ rx' = [rx EXCEPT !["loop"] = [RxOff EXCEPT !.at = "test"]]
    /\ UNCHANGED <<sent, next, input, rxMixed, txVars>>
    /\ Latch(pend)

\* mac_rx returns; in the handler its PENDING bit is cleared.
Leave(c) ==
    /\ rx' = [rx EXCEPT ![c] = RxOff]
    /\ Latch(pend /\ c # "irq")

Test(c) ==
    /\ InRx(c, "test")
    /\ UNCHANGED <<sent, next, input, rxMixed, txVars>>
    /\ IF Empty THEN Leave(c)
                ELSE rx' = [rx EXCEPT ![c].at = "header"] /\ Latch(pend)

\* The controller is reset: both FIFOs and the frame on the wire are gone.
Reset(c) ==
    /\ next' = [f |-> Len(sent) + 1, i |-> 0]
    /\ tx' = <<>> /\ wire' = [todo |-> 0, data |-> <<>>]
    /\ rxMixed' = (c = "irq" /\ rx["loop"].at \notin {"off", "test"})
    /\ txMixed' = (c = "irq" /\ WithinPacket)
    /\ UNCHANGED <<sent, input, push, queued, left>>
    /\ Leave(c)

\* Faulty variant: the loop over the words goes round once too often.
MoreOrNone(n) == n >= 0

More(n) == n > 0

\* Faulty variant: without a buffer the function returns at once.
NextAtKept(n, keep) == IF ~keep THEN "off" ELSE IF More(n) THEN "word" ELSE "input"

\* Without a buffer the frame is read nevertheless, and then the function is left.
NextAt(n, keep) == IF More(n) THEN "word" ELSE IF keep THEN "input" ELSE "off"

Continue(c, n, data, keep) ==
    IF NextAt(n, keep) = "off" THEN Leave(c)
    ELSE /\ rx' = [rx EXCEPT ![c] = [at |-> NextAt(n, keep), todo |-> n, data |-> data,
                                     keep |-> keep]]
         /\ Latch(pend)

\* Reading the length, and pbuf_alloc, which may fail.
Header(c) ==
    /\ InRx(c, "header")
    /\ \/ \E n \in LengthIn(Word) \ {Huge}, keep \in BOOLEAN :
            /\ next' = Popped
            /\ rxMixed' = (rxMixed \/ (c = "irq" /\ WithinFrame))
            /\ UNCHANGED <<sent, input, txVars>>
            /\ Continue(c, n, <<>>, keep)
       \/ Huge \in LengthIn(Word) /\ Reset(c)

\* while(mac_rxPending(MAC) == 0);
Wait(c) ==
    /\ InRx(c, "word")
    /\ ~Empty
    /\ rx' = [rx EXCEPT ![c].at = "pop"]
    /\ UNCHANGED <<sent, next, input, rxMixed, txVars>>
    /\ Latch(pend)

Pop(c) ==
    /\ InRx(c, "pop")
    /\ next' = Popped
    /\ UNCHANGED <<sent, input, rxMixed, txVars>>
    /\ Continue(c, rx[c].todo - 1, IF rx[c].keep THEN Append(rx[c].data, Word) ELSE <<>>,
                rx[c].keep)

-----------------------------------------------------------------------------
(* Sending. *)

mac_tx_packet(c) ==
    /\ Len(queued) < MaxPackets
    /\ \E n \in Lengths : push' = [push EXCEPT ![c] = [PushOff EXCEPT !.at = "room", !.len = n]]

\* The frame goes to the stack, which may answer it.
Input(c) ==
    /\ InRx(c, "input")
    /\ input' = Append(input, rx[c].data)
    /\ rx' = [rx EXCEPT ![c] = [RxOff EXCEPT !.at = "test"]]
    /\ mac_tx_packet(c) \/ UNCHANGED push
    /\ UNCHANGED <<sent, next, rxMixed, tx, queued, wire, left, txMixed>>
    /\ Latch(pend)

\* A timer of the stack has run out in mac_poll.
TimerSends ==
    /\ InRx("loop", "off")
    /\ mac_tx_packet("loop")
    /\ UNCHANGED <<rxVars, tx, queued, wire, left, txMixed>>

\* Faulty variant: nobody waits for room.
AlwaysRoom == TRUE

HasRoom == Len(tx) < TxRoom

Room(c) ==
    /\ push[c].at = "room" /\ Runs(c)
    /\ HasRoom
    /\ push' = [push EXCEPT ![c].at = "push"]
    /\ UNCHANGED <<rxVars, tx, queued, wire, left, txMixed>>

\* A word pushed into a full FIFO is lost.
Stored(w) == IF Len(tx) < TxRoom THEN Append(tx, w) ELSE tx

\* The length goes first and gives the packet its number.
Push(c) ==
    /\ push[c].at = "push" /\ Runs(c)
    /\ IF push[c].word = 0
         THEN /\ queued' = Append(queued, push[c].len)
              /\ tx' = Stored(<<Len(queued) + 1, 0>>)
              /\ push' = [push EXCEPT ![c].at = "room", ![c].no = Len(queued) + 1, ![c].word = 1]
         ELSE /\ tx' = Stored(<<push[c].no, push[c].word>>)
              /\ push' = [push EXCEPT ![c] =
                            IF push[c].word = push[c].len THEN PushOff
                            ELSE [push[c] EXCEPT !.at = "room", !.word = @ + 1]]
              /\ UNCHANGED queued
    /\ txMixed' = (txMixed \/ (c = "irq" /\ WithinPacket))
    /\ UNCHANGED <<rxVars, wire, left>>

\* The controller takes a word: a length, or the next word of the frame.
Drain ==
    /\ tx # <<>>
    /\ tx' = Tail(tx)
    /\ \/ /\ wire.todo = 0
          /\ \E n \in (IF Head(tx)[2] = 0 THEN {queued[Head(tx)[1]]} ELSE 0..MaxWords) :
                wire' = [todo |-> n, data |-> <<>>]
          /\ UNCHANGED left
       \/ /\ wire.todo > 0
          /\ wire' = [todo |-> wire.todo - 1,
                      data |-> IF wire.todo = 1 THEN <<>> ELSE Append(wire.data, Head(tx))]
          /\ left' = IF wire.todo = 1 THEN Append(left, Append(wire.data, Head(tx))) ELSE left
    /\ UNCHANGED <<rxVars, push, queued, txMixed>>

Step(c) == Test(c) \/ Header(c) \/ Wait(c) \/ Pop(c) \/ Input(c) \/ Room(c) \/ Push(c)

Next == Arrive \/ Trap \/ mac_poll \/ TimerSends \/ Drain \/ (\E c \in Contexts : Step(c))

\* The handler runs, a pending interrupt is taken, and the line takes the words.
Spec == Init /\ [][Next]_vars /\ WF_vars(Step("irq")) /\ WF_vars(Trap) /\ WF_vars(Drain)

-----------------------------------------------------------------------------
Inward == INSTANCE FrameChannel WITH offered <- sent, log <- input, mixed <- rxMixed
Outward == INSTANCE FrameChannel WITH offered <- queued, log <- left, mixed <- txMixed

\* The stack is given whole frames, each at most once, also when buffers run out
\* in the middle of traffic and when the handler comes between the words of the
\* loop's replies.  The one exception is the handler reading within a frame that
\* the loop has begun to read (mac_poll calls mac_rx with interrupts enabled);
\* after it a reset of the controller makes things good again.
FramesArriveWhole == Inward!Spec

\* Packets are sent whole and once, with the same exception: a reply from the
\* handler in the middle of a packet of the loop's.
FramesLeaveWhole == Outward!Spec

\* mac_rx never reads a word that has not come: a frame is in the FIFO to its
\* last word when its length is read, and nobody takes words away from the one
\* who is reading, unless frames were mixed.  So its wait for a word is none.
\* (Header and Pop read whatever is there.)
WordsAreThere ==
    \A c \in Contexts : rx[c].at \in {"header", "word", "pop"} /\ ~rxMixed => ~Empty

\* The waits without limit in mac_rx and mac_tx_packet end, unless frames were
\* mixed: the handler always returns.
HandlerReturns == rx["irq"].at # "off" ~> rx["irq"].at = "off" \/ rxMixed

\* No frame is stuck in the FIFO, although mac_rx leaves the rest of it behind
\* when it has no buffer.
EveryFrameTaken == ~Empty ~> Empty \/ rxMixed
=============================================================================
