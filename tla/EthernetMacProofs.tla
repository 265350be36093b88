-------------------------- MODULE EthernetMacProofs --------------------------
(***************************************************************************)
(* Proofs about EthernetMac for frames of every length, FIFOs of every     *)
(* size and any number of frames: the types, and that receiving and        *)
(* sending implement FrameChannel.                                         *)
(*                                                                         *)
(* The argument for receiving follows the FIFO's position: whatever a      *)
(* buffer or the stack holds lies before it, so the frame being read is    *)
(* new, and unless frames were mixed its words so far are the buffer.      *)
(*                                                                         *)
(* The argument for sending: unless packets were mixed, the words on the   *)
(* wire, those in the FIFO and the one to be pushed next follow each       *)
(* other, and the packet on the wire is newer than all that have left.     *)
(***************************************************************************)
EXTENDS EthernetMac, TLAPS

Words == Nat \X Nat
RxState == [at: {"off", "test", "header", "word", "pop", "input"},
            todo: 0..MaxWords, data: Seq(Words), keep: BOOLEAN]
PushState == [at: {"off", "room", "push"}, len: 0..MaxWords, no: Nat, word: 0..MaxWords]

\* The position is a word of a frame, or the end of the FIFO.
PositionInv ==
    /\ sent \in Seq(Lengths)
    /\ next \in [f: 1..(Len(sent) + 1), i: 0..MaxWords]
    /\ next.f <= Len(sent) => next.i <= sent[next.f]
    /\ next.f = Len(sent) + 1 => next.i = 0

Reading(c) == rx[c].at \in {"word", "pop"}

RxInv ==
    /\ rx \in [Contexts -> RxState]
    /\ \A c \in Contexts : Reading(c) => rx[c].todo > 0

PushInv ==
    /\ push \in [Contexts -> PushState]
    /\ \A c \in Contexts : push[c].at # "off" =>
          push[c].len \in Lengths /\ push[c].word <= push[c].len

\* A length in the transmit FIFO is that of a packet.
TxInv ==
    /\ queued \in Seq(Lengths)
    /\ tx \in Seq(Words) /\ Len(tx) <= TxRoom
    /\ \A k \in 1..Len(tx) : tx[k][2] = 0 => tx[k][1] \in 1..Len(queued)

HistoryInv ==
    /\ pend \in BOOLEAN /\ rxMixed \in BOOLEAN /\ txMixed \in BOOLEAN
    /\ input \in Seq(Seq(Words))
    /\ wire \in [todo: 0..MaxWords, data: Seq(Words)]
    /\ left \in Seq(Seq(Words))

BaseInv == PositionInv /\ RxInv /\ PushInv /\ TxInv /\ HistoryInv

LEMMA BaseImpliesTypes == BaseInv => TypeOK
  BY DEF BaseInv, PositionInv, RxInv, PushInv, TxInv, HistoryInv, TypeOK, Words, RxState, PushState

LEMMA Zero == MaxWords \in Nat /\ TxRoom \in Nat /\ 0 \in 0..MaxWords
  BY MacAssumption

LEMMA OffStates ==
    /\ RxOff \in RxState /\ [RxOff EXCEPT !.at = "test"] \in RxState
    /\ PushOff \in PushState
<1>1. <<>> \in Seq(Words) OBVIOUS
<1>2. RxOff \in RxState BY Zero, <1>1 DEF RxOff, RxState
<1>3. [RxOff EXCEPT !.at = "test"] \in RxState BY Zero, <1>1 DEF RxOff, RxState
<1>4. PushOff \in PushState BY Zero DEF PushOff, PushState
<1> QED BY <1>2, <1>3, <1>4

LEMMA InitBase == Init => BaseInv
<1> SUFFICES ASSUME Init PROVE BaseInv OBVIOUS
<1> USE DEF Init
<1>1. PositionInv BY MacAssumption DEF PositionInv
<1>2. RxInv BY OffStates DEF RxInv, Reading, RxOff
<1>3. PushInv BY OffStates DEF PushInv, PushOff
<1>4. TxInv BY MacAssumption DEF TxInv
<1>5. HistoryInv
  <2>1. <<>> \in Seq(Words) /\ <<>> \in Seq(Seq(Words)) OBVIOUS
  <2>2. wire \in [todo: 0..MaxWords, data: Seq(Words)] BY Zero, <2>1
  <2> QED BY <2>1, <2>2 DEF HistoryInv
<1> QED BY <1>1, <1>2, <1>3, <1>4, <1>5 DEF BaseInv

\* A sequence grown by one.
LEMMA AppendOne ==
    ASSUME NEW S, NEW s \in Seq(S), NEW e \in S
    PROVE  /\ Append(s, e) \in Seq(S)
           /\ Len(Append(s, e)) = Len(s) + 1
           /\ \A i \in 1..Len(s) : Append(s, e)[i] = s[i]
           /\ Append(s, e)[Len(s) + 1] = e
  OBVIOUS

\* A sequence without its head.
LEMMA TailOne ==
    ASSUME NEW S, NEW s \in Seq(S), s # <<>>
    PROVE  /\ Tail(s) \in Seq(S) /\ Head(s) = s[1] /\ 1 \in 1..Len(s) /\ Head(s) \in S
           /\ Len(Tail(s)) = Len(s) - 1
           /\ \A i \in 1..Len(Tail(s)) : Tail(s)[i] = s[i + 1] /\ i + 1 \in 1..Len(s)
  OBVIOUS

LEMMA LatchType ==
    ASSUME NEW kept, Latch(kept) PROVE pend' \in BOOLEAN
  BY Zenon DEF Latch

-----------------------------------------------------------------------------
(* What the operations do to the state of a context, and to the position.  *)

\* mac_rx of context c is put into state r.
LEMMA RxPut ==
    ASSUME RxInv, NEW c \in Contexts, NEW r \in RxState, rx' = [rx EXCEPT ![c] = r],
           r.at \in {"word", "pop"} => r.todo > 0
    PROVE  RxInv' /\ rx'[c] = r /\ (\A d \in Contexts : d # c => rx'[d] = rx[d])
  BY DEF RxInv, Reading

\* mac_tx_packet of context c is put into state r.
LEMMA PushPut ==
    ASSUME PushInv, NEW c \in Contexts, NEW r \in PushState, push' = [push EXCEPT ![c] = r],
           r.at # "off" => r.len \in Lengths /\ r.word <= r.len
    PROVE  PushInv'
  BY DEF PushInv

LEMMA PositionFacts ==
    ASSUME PositionInv
    PROVE  /\ Len(sent) \in Nat
           /\ next.f \in 1..(Len(sent) + 1) /\ next.i \in 0..MaxWords
           /\ Empty => next.i = 0
           /\ ~Empty => /\ next.f \in 1..Len(sent) /\ next.f <= Len(sent)
                        /\ sent[next.f] \in 1..MaxWords /\ next.i <= sent[next.f]
<1>1. Len(sent) \in Nat /\ next.f \in 1..(Len(sent) + 1) /\ next.i \in 0..MaxWords
  BY DEF PositionInv
<1>2. Empty => next.i = 0 BY DEF PositionInv, Empty
<1>3. ASSUME ~Empty PROVE next.f \in 1..Len(sent) /\ next.f <= Len(sent)
  BY <1>1, <1>3 DEF Empty
<1>4. ASSUME NEW f \in 1..Len(sent) PROVE sent[f] \in 1..MaxWords
  <2>1. sent[f] \in Lengths BY DEF PositionInv
  <2> QED BY <2>1 DEF Lengths
<1> QED BY <1>1, <1>2, <1>3, <1>4 DEF PositionInv

LEMMA PoppedPosition ==
    ASSUME PositionInv, next' = Popped, sent' = sent PROVE PositionInv'
<1> USE DEF PositionInv, Lengths
<1>1. CASE Empty BY <1>1 DEF Popped
<1>2. CASE ~Empty
  <2>1. next.f \in 1..Len(sent) /\ sent[next.f] \in 1..MaxWords
        /\ next.i \in 0..MaxWords /\ next.i <= sent[next.f]
    BY <1>2, PositionFacts
  <2>2. CASE next.i = sent[next.f]
    <3>1. next' = [f |-> next.f + 1, i |-> 0] BY <1>2, <2>2 DEF Popped
    <3> QED BY <3>1, <2>1, MacAssumption
  <2>3. CASE next.i # sent[next.f]
    <3>1. next' = [next EXCEPT !.i = next.i + 1] BY <1>2, <2>3 DEF Popped
    <3>2. next.i + 1 <= sent[next.f] /\ next.i + 1 \in 0..MaxWords BY <2>1, <2>3, Zero
    <3>3. next'.f = next.f /\ next'.i = next.i + 1 BY <3>1
    <3> QED BY <3>1, <3>2, <3>3, <2>1
  <2> QED BY <2>2, <2>3
<1> QED BY <1>1, <1>2

LEMMA WordType ==
    ASSUME PositionInv PROVE Word \in Words
  BY DEF PositionInv, Word, Words

LEMMA LengthType ==
    ASSUME PositionInv, NEW n \in LengthIn(Word) \ {Huge} PROVE n \in 0..MaxWords
<1>1. CASE ~Empty /\ next.i = 0
  <2>1. Word = <<next.f, 0>> /\ next.f # 0 /\ sent[next.f] \in 1..MaxWords
    BY <1>1, PositionFacts DEF Word
  <2>2. n = sent[next.f] BY <2>1 DEF LengthIn
  <2> QED BY <2>1, <2>2, Zero
<1>2. CASE Empty \/ next.i # 0
  <2>1. LengthIn(Word) = 0..Huge BY <1>2 DEF LengthIn, Word
  <2> QED BY <2>1, MacAssumption DEF Huge
<1> QED BY <1>1, <1>2

\* The state a context continues in.
RxNext(n, data, keep) ==
    IF NextAt(n, keep) = "off" THEN RxOff
    ELSE [at |-> NextAt(n, keep), todo |-> n, data |-> data, keep |-> keep]

LEMMA ContinueIs ==
    ASSUME NEW c \in Contexts, NEW n \in 0..MaxWords, NEW data \in Seq(Words),
           NEW keep \in BOOLEAN, Continue(c, n, data, keep)
    PROVE  /\ RxNext(n, data, keep) \in RxState
           /\ rx' = [rx EXCEPT ![c] = RxNext(n, data, keep)]
           /\ RxNext(n, data, keep).at \in {"word", "pop"} => RxNext(n, data, keep).todo > 0
           /\ pend' \in BOOLEAN
<1>1. pend' \in BOOLEAN BY LatchType DEF Continue, Leave
<1>2. rx' = [rx EXCEPT ![c] = RxNext(n, data, keep)] BY DEF Continue, Leave, RxNext
<1>3. CASE NextAt(n, keep) = "off"
  BY <1>1, <1>2, <1>3, OffStates DEF RxNext, RxOff
<1>4. CASE NextAt(n, keep) # "off"
  <2>1. NextAt(n, keep) \in {"word", "input"} /\ (NextAt(n, keep) = "word" => n > 0)
    BY <1>4 DEF NextAt, More
  <2> QED BY <1>1, <1>2, <1>4, <2>1 DEF RxNext, RxState
<1> QED BY <1>3, <1>4

-----------------------------------------------------------------------------
(* Every action keeps the types. *)

LEMMA MixedType ==
    ASSUME HistoryInv
    PROVE  /\ \A c \in Contexts : (rxMixed \/ (c = "irq" /\ WithinFrame)) \in BOOLEAN
           /\ \A c \in Contexts : (txMixed \/ (c = "irq" /\ WithinPacket)) \in BOOLEAN
           /\ \A c \in Contexts : (c = "irq" /\ rx["loop"].at \notin {"off", "test"}) \in BOOLEAN
           /\ \A c \in Contexts : (c = "irq" /\ WithinPacket) \in BOOLEAN
  BY Zenon DEF HistoryInv

\* The transmit side stands still.
LEMMA TxStill ==
    ASSUME BaseInv, UNCHANGED txVars
    PROVE  PushInv' /\ TxInv' /\ txMixed' \in BOOLEAN
           /\ wire' \in [todo: 0..MaxWords, data: Seq(Words)] /\ left' \in Seq(Seq(Words))
<1>1. UNCHANGED <<tx, push, queued, wire, left, txMixed>> BY DEF txVars
<1> QED BY <1>1 DEF BaseInv, PushInv, TxInv, HistoryInv

\* The receive side stands still.
LEMMA RxStill ==
    ASSUME BaseInv, UNCHANGED rxVars
    PROVE  PositionInv' /\ RxInv' /\ pend' \in BOOLEAN /\ rxMixed' \in BOOLEAN
           /\ input' \in Seq(Seq(Words))
<1>1. UNCHANGED <<sent, next, pend, rx, input, rxMixed>> BY DEF rxVars
<1> QED BY <1>1 DEF BaseInv, PositionInv, RxInv, HistoryInv, Reading

LEMMA ArriveBase ==
    ASSUME BaseInv, Arrive PROVE BaseInv'
<1>1. UNCHANGED <<next, rx, input, rxMixed, txVars>> BY DEF Arrive
<1>2. PositionInv'
  <2>1. PICK n \in Lengths : sent' = Append(sent, n) BY DEF Arrive
  <2>2. sent \in Seq(Lengths) BY DEF BaseInv, PositionInv
  <2>3. /\ sent' \in Seq(Lengths) /\ Len(sent') = Len(sent) + 1
        /\ \A f \in 1..Len(sent) : sent'[f] = sent[f]
    BY <2>1, <2>2, AppendOne
  <2>4. n \in 1..MaxWords /\ Len(sent) \in Nat BY <2>2 DEF Lengths
  <2>5. next' = next BY <1>1
  <2>6. next \in [f: 1..(Len(sent) + 1), i: 0..MaxWords] BY DEF BaseInv, PositionInv
  <2>7. next \in [f: 1..(Len(sent) + 2), i: 0..MaxWords] BY <2>4, <2>6
  <2>8. next.f <= Len(sent) + 1 => next.i <= sent'[next.f]
    <3>1. CASE next.f <= Len(sent)
      <4>1. next.f \in 1..Len(sent) BY <3>1, <2>6, <2>4
      <4> QED BY <4>1, <3>1, <2>3 DEF BaseInv, PositionInv
    <3>2. CASE next.f = Len(sent) + 1
      <4>1. next.i = 0 BY <3>2 DEF BaseInv, PositionInv
      <4>2. sent'[next.f] \in Lengths BY <3>2, <2>3, <2>4
      <4> QED BY <4>1, <4>2, Zero DEF Lengths
    <3> QED BY <3>1, <3>2, <2>4, <2>6
  <2>9. next.f # Len(sent) + 2 BY <2>4, <2>6
  <2> QED BY <2>3, <2>4, <2>5, <2>7, <2>8, <2>9 DEF PositionInv
<1>3. RxInv' BY <1>1 DEF BaseInv, RxInv, Reading
<1>4. pend' \in BOOLEAN BY LatchType DEF Arrive
<1> QED BY <1>1, <1>2, <1>3, <1>4, TxStill DEF BaseInv, HistoryInv

\* Moving from one place of mac_rx to another changes nothing else.
LEMMA MoveState ==
    ASSUME RxInv, NEW c \in Contexts
    PROVE  /\ [rx[c] EXCEPT !.at = "header"] \in RxState
           /\ rx[c].todo > 0 => [rx[c] EXCEPT !.at = "pop"] \in RxState
  BY DEF RxInv, RxState

LEMMA QuietBase ==
    ASSUME BaseInv, NEW c \in Contexts, NEW r \in RxState, rx' = [rx EXCEPT ![c] = r],
           r.at \in {"word", "pop"} => r.todo > 0,
           UNCHANGED <<sent, next, input, rxMixed, txVars>>, pend' \in BOOLEAN
    PROVE  BaseInv'
<1>1. RxInv' BY RxPut DEF BaseInv
<1>2. PositionInv' BY DEF BaseInv, PositionInv
<1> QED BY <1>1, <1>2, TxStill DEF BaseInv, HistoryInv

LEMMA TrapBase ==
    ASSUME BaseInv, Trap \/ mac_poll PROVE BaseInv'
<1> DEFINE r == [RxOff EXCEPT !.at = "test"]
<1>1. r \in RxState /\ r.at = "test" BY OffStates DEF RxOff
<1>2. PICK c \in Contexts : rx' = [rx EXCEPT ![c] = r] BY DEF Trap, mac_poll, Contexts
<1>3. pend' \in BOOLEAN BY LatchType DEF Trap, mac_poll
<1>4. UNCHANGED <<sent, next, input, rxMixed, txVars>> BY DEF Trap, mac_poll
<1> HIDE DEF r
<1> QED BY <1>1, <1>2, <1>3, <1>4, QuietBase

LEMMA TestBase ==
    ASSUME BaseInv, NEW c \in Contexts, Test(c) \/ Wait(c) PROVE BaseInv'
<1>1. UNCHANGED <<sent, next, input, rxMixed, txVars>> BY DEF Test, Wait
<1>2. pend' \in BOOLEAN BY LatchType DEF Test, Wait, Leave
<1>3. CASE Test(c) /\ Empty
  BY <1>1, <1>2, <1>3, OffStates, QuietBase DEF Test, Leave, RxOff
<1>4. CASE Test(c) /\ ~Empty
  <2>1. rx' = [rx EXCEPT ![c] = [rx[c] EXCEPT !.at = "header"]] BY <1>4 DEF Test
  <2>2. [rx[c] EXCEPT !.at = "header"] \in RxState BY MoveState DEF BaseInv
  <2>3. [rx[c] EXCEPT !.at = "header"].at = "header" BY DEF BaseInv, RxInv, RxState
  <2> QED BY <1>1, <1>2, <2>1, <2>2, <2>3, QuietBase
<1>5. CASE Wait(c)
  <2>1. rx' = [rx EXCEPT ![c] = [rx[c] EXCEPT !.at = "pop"]] BY <1>5 DEF Wait
  <2>2. rx[c].todo > 0 BY <1>5 DEF Wait, InRx, BaseInv, RxInv, Reading
  <2>3. [rx[c] EXCEPT !.at = "pop"] \in RxState BY <2>2, MoveState DEF BaseInv
  <2>4. [rx[c] EXCEPT !.at = "pop"].todo = rx[c].todo BY DEF BaseInv, RxInv, RxState
  <2> QED BY <1>1, <1>2, <2>1, <2>2, <2>3, <2>4, QuietBase
<1> QED BY <1>3, <1>4, <1>5

LEMMA ResetBase ==
    ASSUME BaseInv, NEW c \in Contexts, Reset(c) PROVE BaseInv'
<1>1. UNCHANGED <<sent, input, push, queued, left>>
      /\ next' = [f |-> Len(sent) + 1, i |-> 0] /\ tx' = <<>>
      /\ wire' = [todo |-> 0, data |-> <<>>] /\ rx' = [rx EXCEPT ![c] = RxOff]
  BY DEF Reset, Leave
<1>2. pend' \in BOOLEAN BY LatchType DEF Reset, Leave
<1>3. rxMixed' \in BOOLEAN /\ txMixed' \in BOOLEAN
  BY MixedType, Zenon DEF BaseInv, Reset
<1>4. PositionInv'
  <2>1. sent \in Seq(Lengths) BY DEF BaseInv, PositionInv
  <2> QED BY <1>1, <2>1, Zero DEF PositionInv
<1>5. RxInv' BY <1>1, OffStates, RxPut DEF BaseInv, RxOff
<1>6. PushInv' /\ TxInv' BY <1>1, Zero DEF BaseInv, PushInv, TxInv
<1>7. wire' \in [todo: 0..MaxWords, data: Seq(Words)]
  <2>1. <<>> \in Seq(Words) OBVIOUS
  <2> QED BY <1>1, <2>1, Zero
<1> QED BY <1>1, <1>2, <1>3, <1>4, <1>5, <1>6, <1>7 DEF BaseInv, HistoryInv

LEMMA HeaderBase ==
    ASSUME BaseInv, NEW c \in Contexts, Header(c) PROVE BaseInv'
<1>1. CASE Reset(c) BY <1>1, ResetBase
<1>2. ASSUME NEW n \in LengthIn(Word) \ {Huge}, NEW keep \in BOOLEAN,
             next' = Popped, rxMixed' = (rxMixed \/ (c = "irq" /\ WithinFrame)),
             UNCHANGED <<sent, input, txVars>>, Continue(c, n, <<>>, keep)
      PROVE  BaseInv'
  <2>1. n \in 0..MaxWords /\ <<>> \in Seq(Words) BY LengthType DEF BaseInv
  <2>2. RxInv' /\ pend' \in BOOLEAN
    <3>1. /\ RxNext(n, <<>>, keep) \in RxState
          /\ rx' = [rx EXCEPT ![c] = RxNext(n, <<>>, keep)]
          /\ RxNext(n, <<>>, keep).at \in {"word", "pop"} => RxNext(n, <<>>, keep).todo > 0
          /\ pend' \in BOOLEAN
      BY <1>2, <2>1, ContinueIs
    <3>2. RxInv BY DEF BaseInv
    <3> QED BY <3>1, <3>2, RxPut
  <2>3. PositionInv' BY <1>2, PoppedPosition DEF BaseInv
  <2>4. rxMixed' \in BOOLEAN BY <1>2, MixedType, Zenon DEF BaseInv
  <2> QED BY <1>2, <2>2, <2>3, <2>4, TxStill DEF BaseInv, HistoryInv
<1> QED BY <1>1, <1>2 DEF Header

\* The words of the frame so far.
Grown(c) == IF rx[c].keep THEN Append(rx[c].data, Word) ELSE <<>>

LEMMA PopIs ==
    ASSUME BaseInv, NEW c \in Contexts, Pop(c)
    PROVE  /\ rx[c].at = "pop" /\ rx[c].todo > 0 /\ rx[c].todo - 1 \in 0..MaxWords
           /\ Grown(c) \in Seq(Words)
           /\ rx' = [rx EXCEPT ![c] = RxNext(rx[c].todo - 1, Grown(c), rx[c].keep)]
           /\ RxInv' /\ pend' \in BOOLEAN
<1>1. rx[c].at = "pop" /\ rx[c].todo > 0 /\ rx[c].todo \in 0..MaxWords
      /\ rx[c].data \in Seq(Words) /\ rx[c].keep \in BOOLEAN
  BY DEF Pop, InRx, BaseInv, RxInv, Reading, RxState
<1>2. rx[c].todo - 1 \in 0..MaxWords BY <1>1, Zero
<1>3. Grown(c) \in Seq(Words) BY <1>1, WordType DEF Grown, BaseInv
<1>4. Continue(c, rx[c].todo - 1, Grown(c), rx[c].keep) BY DEF Pop, Grown
<1>5. RxInv BY DEF BaseInv
<1> QED BY <1>1, <1>2, <1>3, <1>4, <1>5, ContinueIs, RxPut

LEMMA PopBase ==
    ASSUME BaseInv, NEW c \in Contexts, Pop(c) PROVE BaseInv'
<1>1. UNCHANGED <<sent, input, rxMixed, txVars>> /\ next' = Popped BY DEF Pop
<1>2. RxInv' /\ pend' \in BOOLEAN BY PopIs
<1>3. PositionInv' BY <1>1, PoppedPosition DEF BaseInv
<1> QED BY <1>1, <1>2, <1>3, TxStill DEF BaseInv, HistoryInv

LEMMA SendBase ==
    ASSUME PushInv, NEW c \in Contexts, mac_tx_packet(c) PROVE PushInv'
<1>1. PICK n \in Lengths : push' = [push EXCEPT ![c] = [PushOff EXCEPT !.at = "room", !.len = n]]
  BY DEF mac_tx_packet
<1> DEFINE r == [PushOff EXCEPT !.at = "room", !.len = n]
<1>2. n \in 0..MaxWords /\ 0 <= n BY Zero DEF Lengths
<1>3. r \in PushState BY <1>2, Zero DEF PushOff, PushState
<1>4. r.len = n /\ r.word = 0 BY DEF PushOff
<1> HIDE DEF r
<1> QED BY <1>1, <1>2, <1>3, <1>4, PushPut DEF r

LEMMA InputBase ==
    ASSUME BaseInv, NEW c \in Contexts, Input(c) PROVE BaseInv'
<1>1. UNCHANGED <<sent, next, rxMixed, tx, queued, wire, left, txMixed>>
      /\ input' = Append(input, rx[c].data)
      /\ rx' = [rx EXCEPT ![c] = [RxOff EXCEPT !.at = "test"]]
  BY DEF Input
<1>2. pend' \in BOOLEAN BY LatchType DEF Input
<1>3. PushInv'
  <2>1. CASE mac_tx_packet(c) BY <2>1, SendBase DEF BaseInv
  <2>2. CASE UNCHANGED push BY <2>2 DEF BaseInv, PushInv
  <2> QED BY <2>1, <2>2 DEF Input
<1>4. RxInv'
  <2>1. [RxOff EXCEPT !.at = "test"].at = "test" BY DEF RxOff
  <2> QED BY <1>1, <2>1, OffStates, RxPut DEF BaseInv
<1>5. input' \in Seq(Seq(Words))
  <2>1. rx[c].data \in Seq(Words) BY DEF BaseInv, RxInv, RxState
  <2>2. input \in Seq(Seq(Words)) BY DEF BaseInv, HistoryInv
  <2> QED BY <1>1, <2>1, <2>2, AppendOne
<1>6. PositionInv' /\ TxInv' BY <1>1 DEF BaseInv, PositionInv, TxInv
<1> QED BY <1>1, <1>2, <1>3, <1>4, <1>5, <1>6 DEF BaseInv, HistoryInv

LEMMA RoomBase ==
    ASSUME BaseInv, NEW c \in Contexts, Room(c) PROVE BaseInv'
<1>1. UNCHANGED <<rxVars, tx, queued, wire, left, txMixed>> BY DEF Room
<1> DEFINE r == [push[c] EXCEPT !.at = "push"]
<1>2. push' = [push EXCEPT ![c] = r] BY DEF Room
<1>3. r \in PushState /\ r.len \in Lengths /\ r.word <= r.len
  BY DEF Room, BaseInv, PushInv, PushState
<1> HIDE DEF r
<1>4. PushInv' BY <1>2, <1>3, PushPut DEF BaseInv
<1> QED BY <1>1, <1>4, RxStill DEF BaseInv, HistoryInv, TxInv

LEMMA TimerBase ==
    ASSUME BaseInv, TimerSends PROVE BaseInv'
<1>1. UNCHANGED <<rxVars, tx, queued, wire, left, txMixed>> BY DEF TimerSends
<1>2. PushInv' BY SendBase DEF TimerSends, BaseInv, Contexts
<1> QED BY <1>1, <1>2, RxStill DEF BaseInv, HistoryInv, TxInv

\* Pushing a word that is a length, or not, into a FIFO of those.
LEMMA StoredType ==
    ASSUME TxInv, NEW w \in Words, queued' \in Seq(Lengths), Len(queued') >= Len(queued),
           w[2] = 0 => w[1] \in 1..Len(queued'), tx' = Stored(w)
    PROVE  TxInv'
<1>1. tx \in Seq(Words) /\ Len(tx) <= TxRoom /\ Len(tx) \in Nat
      /\ Len(queued) \in Nat /\ Len(queued') \in Nat
  BY DEF TxInv
<1>2. \A k \in 1..Len(tx) : tx[k][2] = 0 => tx[k][1] \in 1..Len(queued')
  <2>1. ASSUME NEW x \in 1..Len(queued) PROVE x \in 1..Len(queued') BY <1>1
  <2> QED BY <2>1 DEF TxInv
<1>3. CASE tx' = tx BY <1>1, <1>2, <1>3 DEF TxInv
<1>4. CASE Len(tx) < TxRoom /\ tx' = Append(tx, w)
  <2>1. /\ tx' \in Seq(Words) /\ Len(tx') = Len(tx) + 1
        /\ \A k \in 1..Len(tx) : tx'[k] = tx[k]
        /\ tx'[Len(tx) + 1] = w
    BY <1>1, <1>4, AppendOne
  <2>2. Len(tx') <= TxRoom BY <2>1, <1>1, <1>4, Zero
  <2>3. ASSUME NEW k \in 1..(Len(tx) + 1), tx'[k][2] = 0 PROVE tx'[k][1] \in 1..Len(queued')
    <3>1. CASE k = Len(tx) + 1 BY <3>1, <2>1, <2>3
    <3>2. CASE k # Len(tx) + 1
      <4>1. k \in 1..Len(tx) BY <3>2, <1>1
      <4> QED BY <4>1, <2>1, <2>3, <1>2
    <3> QED BY <3>1, <3>2
  <2> QED BY <2>1, <2>2, <2>3 DEF TxInv
<1> QED BY <1>3, <1>4 DEF Stored

LEMMA PushBase ==
    ASSUME BaseInv, NEW c \in Contexts, Push(c) PROVE BaseInv'
<1>1. UNCHANGED <<rxVars, wire, left>> BY DEF Push
<1>2. push[c] \in PushState /\ push[c].len \in Lengths /\ push[c].word <= push[c].len
      /\ push[c].at = "push"
  BY DEF Push, BaseInv, PushInv
<1>3. queued \in Seq(Lengths) /\ Len(queued) \in Nat BY DEF BaseInv, TxInv
<1>4. txMixed' \in BOOLEAN BY MixedType, Zenon DEF Push, BaseInv
<1>5. CASE push[c].word = 0
  <2>1. queued' = Append(queued, push[c].len) /\ tx' = Stored(<<Len(queued) + 1, 0>>)
    BY <1>5 DEF Push
  <2>2. queued' \in Seq(Lengths) /\ Len(queued') = Len(queued) + 1
    BY <1>2, <1>3, <2>1, AppendOne
  <2>3. TxInv'
    <3>1. <<Len(queued) + 1, 0>> \in Words BY <1>3 DEF Words
    <3>2. Len(queued') >= Len(queued) /\ Len(queued) + 1 \in 1..Len(queued') BY <1>3, <2>2
    <3> QED BY <2>1, <2>2, <3>1, <3>2, StoredType DEF BaseInv
  <2>4. PushInv'
    <3> DEFINE r == [push[c] EXCEPT !.at = "room", !.no = Len(queued) + 1, !.word = 1]
    <3>1. push' = [push EXCEPT ![c] = r] BY <1>5 DEF Push
    <3>2. 1 <= push[c].len /\ 1 \in 0..MaxWords /\ Len(queued) + 1 \in Nat
      BY <1>2, <1>3, Zero DEF Lengths
    <3>3. r \in PushState
      <4>1. [push[c] EXCEPT !.at = "room"] \in PushState BY <1>2 DEF PushState
      <4>2. [push[c] EXCEPT !.at = "room", !.no = Len(queued) + 1] \in PushState
        BY <3>2, <4>1 DEF PushState
      <4> QED BY <3>2, <4>2 DEF PushState
    <3>4. r.len = push[c].len /\ r.word = 1 BY <1>2 DEF PushState
    <3> HIDE DEF r
    <3> QED BY <1>2, <3>1, <3>2, <3>3, <3>4, PushPut DEF BaseInv
  <2> QED BY <1>1, <1>4, <2>3, <2>4, RxStill DEF BaseInv, HistoryInv
<1>6. CASE push[c].word # 0
  <2>1. UNCHANGED queued /\ tx' = Stored(<<push[c].no, push[c].word>>) BY <1>6 DEF Push
  <2>2. TxInv'
    <3>1. <<push[c].no, push[c].word>> \in Words BY <1>2, Zero DEF Words, PushState
    <3>2. queued' \in Seq(Lengths) /\ Len(queued') >= Len(queued) BY <1>3, <2>1
    <3> QED BY <1>6, <2>1, <3>1, <3>2, StoredType DEF BaseInv
  <2>3. PushInv'
    <3>1. CASE push[c].word = push[c].len
      <4>1. push' = [push EXCEPT ![c] = PushOff] BY <1>6, <3>1 DEF Push
      <4> QED BY <4>1, OffStates, PushPut DEF BaseInv, PushOff
    <3>2. CASE push[c].word # push[c].len
      <4> DEFINE r == [push[c] EXCEPT !.at = "room", !.word = push[c].word + 1]
      <4>1. push' = [push EXCEPT ![c] = r] BY <1>6, <3>2 DEF Push
      <4>2. push[c].word + 1 <= push[c].len /\ push[c].word + 1 \in 0..MaxWords
        BY <1>2, <3>2, Zero DEF Lengths, PushState
      <4>3. r \in PushState BY <1>2, <4>2 DEF PushState
      <4>4. r.len = push[c].len /\ r.word = push[c].word + 1 BY <1>2 DEF PushState
      <4> HIDE DEF r
      <4> QED BY <1>2, <4>1, <4>2, <4>3, <4>4, PushPut DEF BaseInv
    <3> QED BY <3>1, <3>2
  <2> QED BY <1>1, <1>4, <2>2, <2>3, RxStill DEF BaseInv, HistoryInv
<1> QED BY <1>5, <1>6

LEMMA DrainBase ==
    ASSUME BaseInv, Drain PROVE BaseInv'
<1>1. UNCHANGED <<rxVars, push, queued, txMixed>> /\ tx # <<>> /\ tx' = Tail(tx) BY DEF Drain
<1>2. tx \in Seq(Words) /\ Len(tx) <= TxRoom /\ Len(tx) \in Nat
      /\ \A k \in 1..Len(tx) : tx[k][2] = 0 => tx[k][1] \in 1..Len(queued)
  BY DEF BaseInv, TxInv
<1>3. /\ tx' \in Seq(Words) /\ Head(tx) = tx[1] /\ 1 \in 1..Len(tx) /\ Head(tx) \in Words
      /\ Len(tx') = Len(tx) - 1
      /\ \A k \in 1..Len(tx') : tx'[k] = tx[k + 1] /\ k + 1 \in 1..Len(tx)
  BY <1>1, <1>2, TailOne
<1>4. TxInv'
  <2>1. Len(tx') <= TxRoom BY <1>2, <1>3, Zero
  <2> QED BY <1>1, <1>2, <1>3, <2>1 DEF BaseInv, TxInv
<1>5. wire \in [todo: 0..MaxWords, data: Seq(Words)] /\ left \in Seq(Seq(Words))
  BY DEF BaseInv, HistoryInv
<1>6. Append(wire.data, Head(tx)) \in Seq(Words) BY <1>3, <1>5
<1>7. wire' \in [todo: 0..MaxWords, data: Seq(Words)] /\ left' \in Seq(Seq(Words))
  <2>1. CASE wire.todo = 0 /\ UNCHANGED left
    <3>1. PICK n \in (IF Head(tx)[2] = 0 THEN {queued[Head(tx)[1]]} ELSE 0..MaxWords) :
            wire' = [todo |-> n, data |-> <<>>]
      BY <2>1 DEF Drain
    <3>2. n \in 0..MaxWords
      <4>1. CASE Head(tx)[2] = 0
        <5>1. queued[Head(tx)[1]] \in Lengths BY <4>1, <1>2, <1>3 DEF BaseInv, TxInv
        <5> QED BY <4>1, <5>1, Zero DEF Lengths
      <4> QED BY <4>1
    <3>3. <<>> \in Seq(Words) OBVIOUS
    <3> QED BY <1>5, <2>1, <3>1, <3>2, <3>3
  <2>2. CASE wire.todo > 0
    <3>1. wire.todo - 1 \in 0..MaxWords /\ <<>> \in Seq(Words) BY <1>5, <2>2, Zero
    <3>2. wire' = [todo |-> wire.todo - 1,
                   data |-> IF wire.todo = 1 THEN <<>> ELSE Append(wire.data, Head(tx))]
          /\ left' = IF wire.todo = 1 THEN Append(left, Append(wire.data, Head(tx))) ELSE left
      BY <2>2 DEF Drain
    <3>3. left' \in Seq(Seq(Words)) BY <1>5, <1>6, <3>2, AppendOne
    <3>4. wire' \in [todo: 0..MaxWords, data: Seq(Words)] BY <1>6, <3>1, <3>2
    <3> QED BY <3>3, <3>4
  <2> QED BY <2>1, <2>2 DEF Drain
<1>8. PushInv' BY <1>1 DEF BaseInv, PushInv
<1> QED BY <1>1, <1>4, <1>7, <1>8, RxStill DEF BaseInv, HistoryInv

LEMMA StepBase ==
    ASSUME BaseInv, NEW c \in Contexts, Step(c) PROVE BaseInv'
  BY TestBase, HeaderBase, PopBase, InputBase, RoomBase, PushBase DEF Step

LEMMA NextBase == BaseInv /\ [Next]_vars => BaseInv'
<1>1. ASSUME BaseInv, UNCHANGED vars PROVE BaseInv'
  <2>1. UNCHANGED <<rxVars, txVars>> BY <1>1 DEF vars
  <2> QED BY <1>1, <2>1, RxStill, TxStill DEF BaseInv, HistoryInv
<1> QED BY <1>1, ArriveBase, TrapBase, TimerBase, DrainBase, StepBase DEF Next

\* The driver is well-typed: no read goes beyond the words a frame has left, the
\* transmit FIFO never holds more than its room.
THEOREM TypeCorrect == Spec => []TypeOK
<1> QED BY InitBase, NextBase, BaseImpliesTypes, PTL DEF Spec

-----------------------------------------------------------------------------
(* What a buffer or the stack holds lies before the position.              *)

Before(w, p) == w[1] # 0 => w[1] < p.f \/ (w[1] = p.f /\ w[2] < p.i)
AllBefore(s, p) == \A k \in 1..Len(s) : Before(s[k], p)

ReadInv ==
    /\ \A c \in Contexts : AllBefore(rx[c].data, next)
    /\ \A n \in 1..Len(input) : AllBefore(input[n], next)

Positions == [f: Nat, i: Nat]
Reaches(p, q) == p.f < q.f \/ (p.f = q.f /\ p.i <= q.i)

LEMMA BeforeStays ==
    ASSUME NEW s \in Seq(Words), NEW p \in Positions, NEW q \in Positions,
           Reaches(p, q), AllBefore(s, p)
    PROVE  AllBefore(s, q)
<1>1. ASSUME NEW k \in 1..Len(s) PROVE Before(s[k], q)
  <2>1. s[k] \in Words BY <1>1
  <2>2. s[k][1] \in Nat /\ s[k][2] \in Nat BY <2>1 DEF Words
  <2>3. Before(s[k], p) BY <1>1 DEF AllBefore
  <2> QED BY <2>2, <2>3 DEF Before, Reaches, Positions
<1> QED BY <1>1 DEF AllBefore

LEMMA PositionIs == ASSUME PositionInv PROVE next \in Positions
  BY DEF PositionInv, Positions

LEMMA PoppedIs ==
    ASSUME PositionInv, ~Empty
    PROVE  /\ Word = <<next.f, next.i>>
           /\ next.i = sent[next.f] => Popped = [f |-> next.f + 1, i |-> 0]
           /\ next.i # sent[next.f] => Popped = [f |-> next.f, i |-> next.i + 1]
<1>1. next = [f |-> next.f, i |-> next.i] BY DEF PositionInv
<1> QED BY <1>1 DEF Word, Popped

LEMMA PoppedReaches ==
    ASSUME PositionInv
    PROVE  Reaches(next, Popped) /\ Before(Word, Popped)
<1>1. next.f \in Nat \ {0} /\ next.i \in Nat BY PositionFacts
<1>2. CASE Empty BY <1>1, <1>2 DEF Popped, Word, Reaches, Before
<1>3. CASE ~Empty BY <1>1, <1>3, PoppedIs DEF Reaches, Before
<1> QED BY <1>2, <1>3

\* The position only moves on.
LEMMA PositionMoves ==
    ASSUME BaseInv, [Next]_vars PROVE Reaches(next, next')
<1>1. next.f \in Nat /\ next.i \in Nat /\ Len(sent) \in Nat BY PositionFacts DEF BaseInv
<1>2. ASSUME next' = next PROVE Reaches(next, next') BY <1>1, <1>2 DEF Reaches
<1>3. ASSUME next' = Popped PROVE Reaches(next, next')
  BY <1>3, PoppedReaches DEF BaseInv
<1>4. ASSUME next' = [f |-> Len(sent) + 1, i |-> 0] PROVE Reaches(next, next')
  BY <1>1, <1>4, PositionFacts DEF Reaches, BaseInv, Empty
<1>5. next' = next \/ next' = Popped \/ next' = [f |-> Len(sent) + 1, i |-> 0]
  BY DEF Next, Arrive, Trap, mac_poll, TimerSends, Drain, Step, Test, Header, Reset, Wait, Pop,
         Input, Room, Push, vars, rxVars
<1> QED BY <1>2, <1>3, <1>4, <1>5

\* How a buffer changes.
LEMMA BufferMoves ==
    ASSUME BaseInv, [Next]_vars, NEW c \in Contexts
    PROVE  \/ rx'[c].data = rx[c].data \/ rx'[c].data = <<>>
           \/ Pop(c) /\ rx'[c].data = Grown(c)
<1>0. rx \in [Contexts -> RxState] BY DEF BaseInv, RxInv
<1>1. [RxOff EXCEPT !.at = "test"].data = <<>> /\ RxOff.data = <<>> BY DEF RxOff
<1>2. ASSUME NEW d \in Contexts, Test(d) \/ Wait(d) PROVE rx'[c].data \in {rx[c].data, <<>>}
  <2>1. PICK at \in {"header", "pop"} :
          \/ rx' = [rx EXCEPT ![d] = RxOff]
          \/ rx' = [rx EXCEPT ![d] = [rx[d] EXCEPT !.at = at]]
    BY <1>2 DEF Test, Wait, Leave
  <2>2. [rx[d] EXCEPT !.at = at].data = rx[d].data BY <1>0 DEF RxState
  <2> QED BY <1>0, <1>1, <2>1, <2>2
<1>3. ASSUME NEW d \in Contexts, Input(d) PROVE rx'[c].data \in {rx[c].data, <<>>}
  BY <1>0, <1>1, <1>3 DEF Input
<1>4. ASSUME NEW d \in Contexts, Header(d) PROVE rx'[c].data \in {rx[c].data, <<>>}
  <2>1. CASE Reset(d) BY <1>0, <1>1, <2>1 DEF Reset, Leave
  <2>2. ASSUME NEW n, NEW keep, Continue(d, n, <<>>, keep)
        PROVE  rx'[c].data \in {rx[c].data, <<>>}
    BY <1>0, <1>1, <2>2 DEF Continue, Leave
  <2> QED BY <1>4, <2>1, <2>2 DEF Header
<1>5. ASSUME NEW d \in Contexts, Pop(d)
      PROVE  \/ rx'[c].data \in {rx[c].data, <<>>}
             \/ d = c /\ rx'[c].data = Grown(c)
  <2>1. rx' = [rx EXCEPT ![d] = RxNext(rx[d].todo - 1, Grown(d), rx[d].keep)] BY <1>5, PopIs
  <2>2. RxNext(rx[d].todo - 1, Grown(d), rx[d].keep).data \in {<<>>, Grown(d)}
    BY <1>1 DEF RxNext
  <2> QED BY <1>0, <2>1, <2>2
<1>6. ASSUME Trap \/ mac_poll PROVE rx'[c].data \in {rx[c].data, <<>>}
  BY <1>0, <1>1, <1>6 DEF Trap, mac_poll
<1>7. ASSUME UNCHANGED rx PROVE rx'[c].data \in {rx[c].data, <<>>} BY <1>7
<1>8. ASSUME NEW d \in Contexts, Room(d) \/ Push(d) PROVE UNCHANGED rx
  BY <1>8 DEF Room, Push, rxVars
<1>9. ASSUME Arrive \/ TimerSends \/ Drain \/ UNCHANGED vars PROVE UNCHANGED rx
  BY <1>9 DEF Arrive, TimerSends, Drain, vars, rxVars
<1> QED BY <1>2, <1>3, <1>4, <1>5, <1>6, <1>7, <1>8, <1>9 DEF Next, Step

\* What the stack was given only grows, by the buffer of a context.
LEMMA InputMoves ==
    ASSUME [Next]_vars
    PROVE  \/ input' = input
           \/ \E c \in Contexts : Input(c) /\ input' = Append(input, rx[c].data)
  BY DEF Next, Arrive, Trap, mac_poll, TimerSends, Drain, Step, Test, Header, Reset, Wait, Pop,
         Input, Room, Push, vars, rxVars

LEMMA InitRead == Init => ReadInv
<1> SUFFICES ASSUME Init PROVE ReadInv OBVIOUS
<1>1. \A c \in Contexts : rx[c].data = <<>> BY DEF Init, RxOff
<1>2. input = <<>> BY DEF Init
<1> QED BY <1>1, <1>2 DEF ReadInv, AllBefore

LEMMA NextRead == BaseInv /\ BaseInv' /\ ReadInv /\ [Next]_vars => ReadInv'
<1> SUFFICES ASSUME BaseInv, BaseInv', ReadInv, [Next]_vars PROVE ReadInv' OBVIOUS
<1>1. next \in Positions /\ next' \in Positions /\ Reaches(next, next')
  <2>1. PositionInv /\ PositionInv' BY DEF BaseInv
  <2>2. next \in Positions BY <2>1, PositionIs
  <2>3. next' \in Positions BY <2>1 DEF PositionInv, Positions
  <2> QED BY <2>2, <2>3, PositionMoves
<1>2. ASSUME NEW c \in Contexts PROVE AllBefore(rx[c].data, next')
  <2>1. rx[c].data \in Seq(Words) BY DEF BaseInv, RxInv, RxState
  <2>2. AllBefore(rx[c].data, next) BY DEF ReadInv
  <2> QED BY <1>1, <2>1, <2>2, BeforeStays
<1>3. ASSUME NEW c \in Contexts PROVE AllBefore(rx'[c].data, next')
  <2>1. CASE rx'[c].data = rx[c].data BY <1>2, <2>1
  <2>2. CASE rx'[c].data = <<>> BY <2>2 DEF AllBefore
  <2>3. CASE Pop(c) /\ rx'[c].data = Grown(c)
    <3>1. CASE Grown(c) = <<>> BY <2>3, <3>1 DEF AllBefore
    <3>2. CASE Grown(c) = Append(rx[c].data, Word)
      <4>1. rx[c].data \in Seq(Words) /\ Word \in Words
        BY WordType DEF BaseInv, RxInv, RxState
      <4>2. /\ Len(Grown(c)) = Len(rx[c].data) + 1
            /\ \A k \in 1..Len(rx[c].data) : Grown(c)[k] = rx[c].data[k]
            /\ Grown(c)[Len(rx[c].data) + 1] = Word
        BY <3>2, <4>1, AppendOne
      <4>3. Before(Word, next') BY <2>3, PoppedReaches DEF Pop, BaseInv
      <4>4. \A k \in 1..Len(rx[c].data) : Before(rx[c].data[k], next')
        BY <1>2 DEF AllBefore
      <4>5. Len(rx[c].data) \in Nat BY <4>1
      <4>6. ASSUME NEW k \in 1..(Len(rx[c].data) + 1) PROVE Before(Grown(c)[k], next')
        <5>1. CASE k = Len(rx[c].data) + 1 BY <5>1, <4>2, <4>3
        <5>2. CASE k # Len(rx[c].data) + 1
          <6>1. k \in 1..Len(rx[c].data) BY <5>2, <4>5
          <6>2. Grown(c)[k] = rx[c].data[k] BY <6>1, <4>2
          <6>3. Before(rx[c].data[k], next') BY <6>1, <4>4
          <6> QED BY <6>2, <6>3
        <5> QED BY <5>1, <5>2
      <4> QED BY <2>3, <4>2, <4>6 DEF AllBefore
    <3> QED BY <3>1, <3>2 DEF Grown
  <2> QED BY <2>1, <2>2, <2>3, BufferMoves
<1>4. input \in Seq(Seq(Words)) /\ Len(input) \in Nat BY DEF BaseInv, HistoryInv
<1>5. ASSUME NEW n \in 1..Len(input) PROVE AllBefore(input[n], next')
  <2>1. input[n] \in Seq(Words) /\ AllBefore(input[n], next) BY <1>4 DEF ReadInv
  <2> QED BY <1>1, <2>1, BeforeStays
<1>6. ASSUME NEW n \in 1..Len(input') PROVE AllBefore(input'[n], next')
  <2>1. CASE input' = input BY <1>5, <2>1
  <2>2. ASSUME NEW c \in Contexts, input' = Append(input, rx[c].data)
        PROVE  AllBefore(input'[n], next')
    <3>1. rx[c].data \in Seq(Words) BY DEF BaseInv, RxInv, RxState
    <3>2. /\ Len(input') = Len(input) + 1
          /\ \A k \in 1..Len(input) : input'[k] = input[k]
          /\ input'[Len(input) + 1] = rx[c].data
      BY <1>4, <2>2, <3>1, AppendOne
    <3>3. CASE n = Len(input) + 1 BY <1>2, <3>2, <3>3
    <3>4. CASE n # Len(input) + 1
      <4>1. n \in 1..Len(input) BY <1>4, <3>2, <3>4
      <4> QED BY <1>5, <3>2, <4>1
    <3> QED BY <3>3, <3>4
  <2> QED BY <2>1, <2>2, InputMoves
<1> QED BY <1>3, <1>6 DEF ReadInv

-----------------------------------------------------------------------------
(* Unless frames were mixed, a context within a frame follows the position. *)

\* The buffer holds the frame being read up to the position.
Following(c) ==
    /\ ~Empty /\ next.i >= 1
    /\ rx[c].todo = sent[next.f] - next.i + 1
    /\ rx[c].keep => rx[c].data = [i \in 1..(next.i - 1) |-> <<next.f, i>>]

\* The buffer holds a frame that the stack has not seen.
Holding(c) == \E f \in 1..Len(sent) : rx[c].data = Inward!Frame(f) /\ Inward!Fresh(f)

ContextInv(c) ==
    /\ rx[c].at = "header" => ~Empty
    /\ Reading(c) => Following(c)
    /\ rx[c].at = "input" => Holding(c)

\* The handler is not within a frame when the loop is.
Alone == WithinFrame => ~Reading("irq") /\ rx["irq"].at # "input"

Between == ~Reading("loop") /\ ~Reading("irq") => next.i = 0

Differ ==
    rx["loop"].at = "input" /\ rx["irq"].at = "input" => rx["loop"].data # rx["irq"].data

FrameInv == ~rxMixed => Alone /\ Between /\ Differ /\ \A c \in Contexts : ContextInv(c)

LEMMA InitFrame == Init => FrameInv
<1> SUFFICES ASSUME Init PROVE FrameInv OBVIOUS
<1>1. \A c \in Contexts : rx[c].at = "off" BY DEF Init, RxOff
<1>2. next.i = 0 BY DEF Init
<1> QED
  BY <1>1, <1>2 DEF FrameInv, Alone, Between, Differ, ContextInv, WithinFrame, Reading, Contexts

\* What ContextInv says of a context depends on these.
LEMMA ContextStill ==
    ASSUME NEW c \in Contexts, ContextInv(c), rx'[c] = rx[c], UNCHANGED <<sent, next, input>>
    PROVE  ContextInv(c)'
  BY DEF ContextInv, Reading, Following, Holding, Empty, Inward!Frame, Inward!Fresh

LEMMA FrameStill ==
    ASSUME FrameInv, UNCHANGED <<sent, next, rx, input, rxMixed>> PROVE FrameInv'
<1> SUFFICES ASSUME ~rxMixed PROVE (Alone /\ Between /\ Differ /\ \A c \in Contexts : ContextInv(c))'
  BY DEF FrameInv
<1>1. Alone /\ Between /\ Differ /\ \A c \in Contexts : ContextInv(c) BY DEF FrameInv
<1>2. \A c \in Contexts : ContextInv(c)' BY <1>1, ContextStill
<1> QED BY <1>1, <1>2 DEF Alone, Between, Differ, WithinFrame, Reading

LEMMA ArriveFrame ==
    ASSUME BaseInv, FrameInv, Arrive PROVE FrameInv'
<1>1. UNCHANGED <<next, rx, input, rxMixed>> BY DEF Arrive
<1> SUFFICES ASSUME ~rxMixed PROVE (Alone /\ Between /\ Differ /\ \A c \in Contexts : ContextInv(c))'
  BY <1>1 DEF FrameInv
<1>2. Alone /\ Between /\ Differ /\ \A c \in Contexts : ContextInv(c) BY DEF FrameInv
<1>3. Alone' /\ Between' /\ Differ' BY <1>1, <1>2 DEF Alone, Between, Differ, WithinFrame, Reading
<1>4. Len(sent) \in Nat /\ Len(sent') = Len(sent) + 1 /\ \A f \in 1..Len(sent) : sent'[f] = sent[f]
  <2>1. PICK n \in Lengths : sent' = Append(sent, n) BY DEF Arrive
  <2>2. sent \in Seq(Lengths) BY DEF BaseInv, PositionInv
  <2> QED BY <2>1, <2>2, AppendOne
<1>5. ~Empty => ~Empty' /\ sent'[next.f] = sent[next.f]
  <2>1. ASSUME ~Empty PROVE next.f \in 1..Len(sent) BY <2>1, PositionFacts DEF BaseInv
  <2>2. ASSUME ~Empty PROVE next'.f # Len(sent') + 1 BY <1>1, <1>4, <2>1, <2>2
  <2> QED BY <1>4, <2>1, <2>2 DEF Empty
<1>6. ASSUME NEW c \in Contexts PROVE ContextInv(c)'
  <2>1. ContextInv(c) BY <1>2
  <2>2. Reading(c)' => Following(c)'
    BY <1>1, <1>5, <2>1 DEF ContextInv, Reading, Following
  <2>3. (rx[c].at = "input")' => Holding(c)'
    <3> SUFFICES ASSUME rx[c].at = "input" PROVE Holding(c)' BY <1>1
    <3>1. PICK f \in 1..Len(sent) : rx[c].data = Inward!Frame(f) /\ Inward!Fresh(f)
      BY <2>1 DEF ContextInv, Holding
    <3>2. f \in 1..Len(sent') /\ sent'[f] = sent[f] BY <1>4
    <3>3. Inward!Frame(f)' = Inward!Frame(f) BY <3>2 DEF Inward!Frame
    <3>4. Inward!Fresh(f)' BY <1>1, <3>1, <3>3 DEF Inward!Fresh
    <3> QED BY <1>1, <3>1, <3>2, <3>3, <3>4 DEF Holding
  <2> QED BY <1>1, <1>5, <2>1, <2>2, <2>3 DEF ContextInv
<1> QED BY <1>3, <1>6

\* A context that leaves, begins, or begins with a frame, reads nothing.
LEMMA MoveFrame ==
    ASSUME BaseInv, FrameInv, NEW c \in Contexts, NEW r \in RxState,
           rx' = [rx EXCEPT ![c] = r], UNCHANGED <<sent, next, input, rxMixed>>,
           ~Reading(c), r.at \in {"off", "test", "header"},
           r.at = "header" => ~Empty /\ (c = "loop" => rx["irq"].at = "off")
    PROVE  FrameInv'
<1> SUFFICES ASSUME ~rxMixed PROVE (Alone /\ Between /\ Differ /\ \A d \in Contexts : ContextInv(d))'
  BY DEF FrameInv
<1>1. Alone /\ Between /\ Differ /\ \A d \in Contexts : ContextInv(d) BY DEF FrameInv
<1>2. rx'[c] = r /\ \A d \in Contexts : d # c => rx'[d] = rx[d] BY DEF BaseInv, RxInv
<1>3. ASSUME NEW d \in Contexts PROVE ContextInv(d)'
  <2>1. CASE d = c BY <1>2, <2>1 DEF ContextInv, Reading, Empty
  <2>2. CASE d # c BY <1>1, <1>2, <2>2, ContextStill
  <2> QED BY <2>1, <2>2
<1>4. "loop" \in Contexts /\ "irq" \in Contexts /\ c \in {"loop", "irq"} BY DEF Contexts
<1>5. Between' BY <1>1, <1>2, <1>4 DEF Between, Reading
<1>6. Differ' BY <1>1, <1>2, <1>4 DEF Differ
<1>7. Alone' BY <1>1, <1>2, <1>4 DEF Alone, WithinFrame, Reading
<1> QED BY <1>3, <1>5, <1>6, <1>7

LEMMA TrapFrame ==
    ASSUME BaseInv, FrameInv, Trap \/ mac_poll PROVE FrameInv'
<1> DEFINE r == [RxOff EXCEPT !.at = "test"]
<1>1. r \in RxState /\ r.at = "test" BY OffStates DEF RxOff
<1>2. PICK c \in Contexts : rx' = [rx EXCEPT ![c] = r] /\ rx[c].at = "off"
  BY DEF Trap, mac_poll, InRx, Contexts
<1>3. UNCHANGED <<sent, next, input, rxMixed>> BY DEF Trap, mac_poll
<1>4. ~Reading(c) BY <1>2 DEF Reading
<1> HIDE DEF r
<1> QED BY <1>1, <1>2, <1>3, <1>4, MoveFrame

LEMMA TestFrame ==
    ASSUME BaseInv, FrameInv, NEW c \in Contexts, Test(c) PROVE FrameInv'
<1>1. UNCHANGED <<sent, next, input, rxMixed>> /\ rx[c].at = "test" BY DEF Test, InRx
<1>2. ~Reading(c) BY <1>1 DEF Reading
<1>3. CASE Empty
  <2>1. rx' = [rx EXCEPT ![c] = RxOff] BY <1>3 DEF Test, Leave
  <2>2. RxOff.at = "off" BY DEF RxOff
  <2> QED BY <1>1, <1>2, <2>1, <2>2, OffStates, MoveFrame
<1>4. CASE ~Empty
  <2>1. rx' = [rx EXCEPT ![c] = [rx[c] EXCEPT !.at = "header"]] BY <1>4 DEF Test
  <2>2. [rx[c] EXCEPT !.at = "header"] \in RxState BY MoveState DEF BaseInv
  <2>3. [rx[c] EXCEPT !.at = "header"].at = "header" BY DEF BaseInv, RxInv, RxState
  <2>4. c = "loop" => rx["irq"].at = "off" BY DEF Test, InRx, Runs
  <2> QED BY <1>1, <1>2, <1>4, <2>1, <2>2, <2>3, <2>4, MoveFrame
<1> QED BY <1>3, <1>4

\* The next word is there.
LEMMA WaitFrame ==
    ASSUME BaseInv, FrameInv, NEW c \in Contexts, Wait(c) PROVE FrameInv'
<1>1. UNCHANGED <<sent, next, input, rxMixed>> /\ rx[c].at = "word"
      /\ rx' = [rx EXCEPT ![c] = [rx[c] EXCEPT !.at = "pop"]]
  BY DEF Wait, InRx
<1> SUFFICES ASSUME ~rxMixed PROVE (Alone /\ Between /\ Differ /\ \A d \in Contexts : ContextInv(d))'
  BY <1>1 DEF FrameInv
<1>2. Alone /\ Between /\ Differ /\ \A d \in Contexts : ContextInv(d) BY DEF FrameInv
<1>3. /\ rx'[c].at = "pop" /\ rx'[c].todo = rx[c].todo
      /\ rx'[c].data = rx[c].data /\ rx'[c].keep = rx[c].keep
      /\ \A d \in Contexts : d # c => rx'[d] = rx[d]
  BY <1>1 DEF BaseInv, RxInv, RxState
<1>4. ASSUME NEW d \in Contexts PROVE ContextInv(d)'
  <2>1. CASE d = c
    <3>1. Following(c) BY <1>1, <1>2 DEF ContextInv, Reading
    <3>2. Following(c)' BY <1>1, <1>3, <3>1 DEF Following, Empty
    <3> QED BY <1>3, <2>1, <3>2 DEF ContextInv
  <2>2. CASE d # c BY <1>1, <1>2, <1>3, <2>2, ContextStill
  <2> QED BY <2>1, <2>2
<1>5. "loop" \in Contexts /\ "irq" \in Contexts /\ c \in {"loop", "irq"} BY DEF Contexts
<1>6. \A d \in Contexts : /\ Reading(d)' <=> Reading(d)
                          /\ rx'[d].at = "input" <=> rx[d].at = "input"
  BY <1>1, <1>3 DEF Reading
<1>7. Between' BY <1>1, <1>2, <1>5, <1>6 DEF Between
<1>8. Differ' BY <1>2, <1>3, <1>5, <1>6 DEF Differ
<1>9. WithinFrame' <=> WithinFrame BY <1>1, <1>3, <1>5 DEF WithinFrame
<1>10. Alone' BY <1>2, <1>5, <1>6, <1>9 DEF Alone
<1> QED BY <1>4, <1>7, <1>8, <1>10

LEMMA ResetFrame ==
    ASSUME BaseInv, FrameInv, NEW c \in Contexts, Reset(c), InRx(c, "header") PROVE FrameInv'
<1>1. rx' = [rx EXCEPT ![c] = RxOff] /\ next' = [f |-> Len(sent) + 1, i |-> 0]
      /\ rxMixed' = (c = "irq" /\ rx["loop"].at \notin {"off", "test"})
  BY DEF Reset, Leave
<1> SUFFICES ASSUME ~rxMixed' PROVE (Alone /\ Between /\ Differ /\ \A d \in Contexts : ContextInv(d))'
  BY DEF FrameInv
<1>2. c = "loop" => rx["irq"].at = "off" BY DEF InRx, Runs
<1>3. c = "irq" => rx["loop"].at \in {"off", "test"} BY <1>1
<1>4. rx'[c].at = "off" /\ \A d \in Contexts : d # c => rx'[d] = rx[d]
  BY <1>1 DEF BaseInv, RxInv, RxOff
<1>5. \A d \in Contexts : rx'[d].at \in {"off", "test"} BY <1>2, <1>3, <1>4 DEF Contexts
<1>6. next'.i = 0 BY <1>1
<1> QED
  BY <1>5, <1>6 DEF Alone, Between, Differ, ContextInv, WithinFrame, Reading, Contexts

\* When a context is between frames, and the other does not interrupt it there.
LEMMA HeaderFrame ==
    ASSUME BaseInv, FrameInv, NEW c \in Contexts, InRx(c, "header"),
           NEW n \in LengthIn(Word) \ {Huge}, NEW keep \in BOOLEAN,
           next' = Popped, rxMixed' = (rxMixed \/ (c = "irq" /\ WithinFrame)),
           UNCHANGED <<sent, input>>, Continue(c, n, <<>>, keep)
    PROVE  FrameInv'
<1> SUFFICES ASSUME ~rxMixed, c = "irq" => ~WithinFrame
             PROVE  (Alone /\ Between /\ Differ /\ \A d \in Contexts : ContextInv(d))'
  BY DEF FrameInv
<1>1. Alone /\ Between /\ Differ /\ \A d \in Contexts : ContextInv(d) BY DEF FrameInv
<1>2. rx[c].at = "header" /\ (c = "loop" => rx["irq"].at = "off") BY DEF InRx, Runs
<1>3. \A d \in Contexts : /\ ~Reading(d)
                          /\ d # c => rx[d].at # "header"
  BY <1>2 DEF Contexts, Reading, WithinFrame
<1>4. ~Empty /\ next.i = 0
  BY <1>1, <1>2, <1>3 DEF ContextInv, Between, Contexts
<1>5. next.f \in 1..Len(sent) /\ sent[next.f] \in 1..MaxWords BY <1>4, PositionFacts DEF BaseInv
<1>6. Word = <<next.f, 0>> /\ Popped = [f |-> next.f, i |-> 1]
  BY <1>4, <1>5, PoppedIs DEF BaseInv
<1>7. n = sent[next.f] BY <1>5, <1>6 DEF LengthIn
<1>8. n > 0 /\ n \in 0..MaxWords BY <1>5, <1>7
<1>9. rx' = [rx EXCEPT ![c] = [at |-> "word", todo |-> n, data |-> <<>>, keep |-> keep]]
  <2>1. NextAt(n, keep) = "word" BY <1>8 DEF NextAt, More
  <2> QED BY <2>1 DEF Continue
<1>10. /\ rx'[c] = [at |-> "word", todo |-> n, data |-> <<>>, keep |-> keep]
       /\ \A d \in Contexts : d # c => rx'[d] = rx[d]
  BY <1>9 DEF BaseInv, RxInv
<1>11. next'.f = next.f /\ next'.i = 1 BY <1>6
<1>12. ~Empty' BY <1>4, <1>11 DEF Empty
<1>13. ContextInv(c)'
  <2>1. rx'[c].todo = sent'[next'.f] - next'.i + 1 BY <1>5, <1>7, <1>10, <1>11
  <2>2. <<>> = [i \in 1..(next'.i - 1) |-> <<next'.f, i>>] BY <1>11
  <2>3. Following(c)' BY <1>10, <1>11, <1>12, <2>1, <2>2 DEF Following
  <2> QED BY <1>10, <2>3 DEF ContextInv
<1>14. ASSUME NEW d \in Contexts, d # c PROVE ContextInv(d)'
  <2>1. rx'[d] = rx[d] /\ rx[d].at \notin {"header", "word", "pop"}
    BY <1>3, <1>10, <1>14 DEF Reading
  <2>2. (rx[d].at = "input")' => Holding(d)'
    BY <1>1, <2>1, <1>14 DEF ContextInv, Holding, Inward!Frame, Inward!Fresh
  <2> QED BY <2>1, <2>2 DEF ContextInv, Reading
<1>15. Between' BY <1>10 DEF Between, Reading, Contexts
<1>16. Differ' BY <1>10 DEF Differ, Contexts
<1>17. Alone'
  <2>1. CASE c = "loop" BY <1>2, <1>10, <2>1 DEF Alone, Contexts, Reading
  <2>2. CASE c = "irq" BY <1>10, <2>2 DEF Alone, WithinFrame, Contexts
  <2> QED BY <2>1, <2>2 DEF Contexts
<1> QED BY <1>13, <1>14, <1>15, <1>16, <1>17

\* A sequence whose words lie before the position is not the frame there.
LEMMA NotYet ==
    ASSUME BaseInv, ~Empty, NEW s \in Seq(Words), AllBefore(s, next)
    PROVE  s # Inward!Frame(next.f)
<1> SUFFICES ASSUME s = Inward!Frame(next.f) PROVE FALSE OBVIOUS
<1>1. next.f \in 1..Len(sent) /\ sent[next.f] \in 1..MaxWords /\ next.i <= sent[next.f]
      /\ next.i \in Nat
  BY PositionFacts DEF BaseInv
<1> DEFINE l == sent[next.f]
<1>2. s = [i \in 1..l |-> <<next.f, i>>] BY DEF Inward!Frame
<1>3. l \in Nat /\ l \in 1..l BY <1>1
<1> HIDE DEF l
<1>4. Len(s) = l /\ s[l] = <<next.f, l>> BY <1>2, <1>3
<1>5. Before(<<next.f, l>>, next) BY <1>3, <1>4 DEF AllBefore
<1>6. next.f # 0 /\ next.f \in Nat /\ ~(next.f < next.f) /\ ~(l < next.i) BY <1>1, <1>3 DEF l
<1> QED BY <1>5, <1>6 DEF Before

\* The words so far and one more.
LEMMA FrameGrows ==
    ASSUME NEW f \in Nat, NEW i \in Nat \ {0}
    PROVE  Append([k \in 1..(i - 1) |-> <<f, k>>], <<f, i>>) = [k \in 1..i |-> <<f, k>>]
<1> DEFINE s == [k \in 1..(i - 1) |-> <<f, k>>]
           t == [k \in 1..i |-> <<f, k>>]
<1>1. s \in Seq(Words) /\ Len(s) = i - 1 BY DEF Words
<1>2. t \in Seq(Words) /\ Len(t) = i BY DEF Words
<1>3. <<f, i>> \in Words BY DEF Words
<1>4. \A k \in 1..(i - 1) : s[k] = <<f, k>> OBVIOUS
<1>5. \A k \in 1..i : t[k] = <<f, k>> OBVIOUS
<1> HIDE DEF s, t
<1>6. /\ Append(s, <<f, i>>) \in Seq(Words) /\ Len(Append(s, <<f, i>>)) = i
      /\ \A k \in 1..(i - 1) : Append(s, <<f, i>>)[k] = s[k]
      /\ Append(s, <<f, i>>)[i] = <<f, i>>
  BY <1>1, <1>3, AppendOne
<1>7. ASSUME NEW k \in 1..i PROVE Append(s, <<f, i>>)[k] = t[k]
  <2>1. t[k] = <<f, k>> BY <1>5
  <2>2. CASE k = i BY <1>6, <2>1, <2>2
  <2>3. CASE k # i
    <3>1. k \in 1..(i - 1) BY <2>3
    <3> QED BY <1>4, <1>6, <2>1, <3>1
  <2> QED BY <2>2, <2>3
<1>8. Append(s, <<f, i>>) = t BY <1>2, <1>6, <1>7
<1> QED BY <1>8 DEF s, t

\* The context that takes a word is the only one within a frame.
LEMMA PopAlone ==
    ASSUME ~rxMixed, FrameInv, NEW c \in Contexts, Pop(c)
    PROVE  /\ Reading(c) /\ Following(c) /\ (c = "irq" => ~WithinFrame)
           /\ \A d \in Contexts : d # c =>
                ~Reading(d) /\ rx[d].at # "header" /\ (c = "loop" => rx[d].at = "off")
<1>1. rx[c].at = "pop" /\ (c = "loop" => rx["irq"].at = "off") BY DEF Pop, InRx, Runs
<1>2. Alone /\ ContextInv(c) BY DEF FrameInv
<1>3. c = "irq" => ~WithinFrame BY <1>1, <1>2 DEF Alone, Reading
<1>4. Reading(c) /\ Following(c) BY <1>1, <1>2 DEF ContextInv, Reading
<1> QED BY <1>1, <1>3, <1>4 DEF Contexts, Reading, WithinFrame

LEMMA PopFrame ==
    ASSUME BaseInv, ReadInv, FrameInv, NEW c \in Contexts, Pop(c) PROVE FrameInv'
<1>1. UNCHANGED <<sent, input, rxMixed>> /\ next' = Popped BY DEF Pop
<1> SUFFICES ASSUME ~rxMixed PROVE (Alone /\ Between /\ Differ /\ \A d \in Contexts : ContextInv(d))'
  BY <1>1 DEF FrameInv
<1>2. Alone /\ Between /\ Differ /\ \A d \in Contexts : ContextInv(d) BY DEF FrameInv
<1>3. /\ Following(c) /\ (c = "irq" => ~WithinFrame)
      /\ \A d \in Contexts : d # c =>
           ~Reading(d) /\ rx[d].at # "header" /\ (c = "loop" => rx[d].at = "off")
  BY PopAlone
<1>4. ~Empty /\ next.i >= 1 /\ rx[c].todo = sent[next.f] - next.i + 1 BY <1>3 DEF Following
<1>5. next.f \in 1..Len(sent) /\ sent[next.f] \in 1..MaxWords /\ next.i <= sent[next.f]
      /\ next.i \in Nat /\ next.i \in Nat \ {0} /\ next.f \in Nat
  BY <1>4, PositionFacts DEF BaseInv
<1>6. Word = <<next.f, next.i>> BY <1>4, PoppedIs DEF BaseInv
<1> DEFINE n == rx[c].todo - 1
           g == Grown(c)
           r == RxNext(n, g, rx[c].keep)
<1>7. /\ n \in 0..MaxWords /\ rx' = [rx EXCEPT ![c] = r] /\ rx[c].keep \in BOOLEAN
      /\ rx'[c] = r /\ \A d \in Contexts : d # c => rx'[d] = rx[d]
  BY PopIs DEF BaseInv, RxInv, RxState
<1>8. rx[c].keep => g = [k \in 1..next.i |-> <<next.f, k>>]
  BY <1>3, <1>5, <1>6, FrameGrows DEF Following, Grown
<1>9. n = sent[next.f] - next.i BY <1>4, <1>5
<1> HIDE DEF n, g
<1>10. \A d \in Contexts : d # c => ~Reading(d)' /\ rx'[d].at # "header" BY <1>3, <1>7 DEF Reading
<1>11. ASSUME NEW d \in Contexts, d # c PROVE ContextInv(d)'
  <2>1. (rx[d].at = "input")' => Holding(d)'
    BY <1>1, <1>2, <1>7, <1>11 DEF ContextInv, Holding, Inward!Frame, Inward!Fresh
  <2> QED BY <1>10, <1>11, <2>1 DEF ContextInv
<1>12. CASE n > 0
  <2>1. r = [at |-> "word", todo |-> n, data |-> g, keep |-> rx[c].keep]
    BY <1>12 DEF RxNext, NextAt, More
  <2>2. next' = [f |-> next.f, i |-> next.i + 1]
    <3>1. next.i # sent[next.f] BY <1>5, <1>9, <1>12
    <3> QED BY <1>1, <1>4, <3>1, PoppedIs DEF BaseInv
  <2>3. next'.f = next.f /\ next'.i = next.i + 1 BY <2>2
  <2>4. ~Empty' BY <1>1, <1>4, <2>3 DEF Empty
  <2>5. rx'[c].at = "word" /\ rx'[c].todo = n /\ rx'[c].data = g /\ rx'[c].keep = rx[c].keep
    BY <1>7, <2>1
  <2>6. rx'[c].todo = sent'[next'.f] - next'.i + 1 BY <1>1, <1>5, <1>9, <2>3, <2>5
  <2>7. rx'[c].keep => rx'[c].data = [k \in 1..(next'.i - 1) |-> <<next'.f, k>>]
    <3>1. next'.i - 1 = next.i BY <1>5, <2>3
    <3> QED BY <1>8, <2>3, <2>5, <3>1
  <2>8. Following(c)'
    <3>1. next'.i >= 1 BY <1>5, <2>3
    <3> QED BY <2>4, <2>6, <2>7, <3>1 DEF Following
  <2>9. ContextInv(c)' BY <2>5, <2>8 DEF ContextInv
  <2>10. Between' BY <2>5 DEF Between, Reading, Contexts
  <2>11. Differ' BY <2>5 DEF Differ, Contexts
  <2>12. Alone'
    <3>1. CASE c = "loop" BY <1>3, <1>7, <3>1 DEF Alone, Contexts, Reading
    <3>2. CASE c = "irq" BY <1>3, <1>7, <3>2 DEF Alone, WithinFrame, Contexts
    <3> QED BY <3>1, <3>2 DEF Contexts
  <2> QED BY <1>11, <2>9, <2>10, <2>11, <2>12
<1>13. CASE ~(n > 0)
  <2>1. n = 0 /\ next.i = sent[next.f] BY <1>5, <1>7, <1>9, <1>13
  <2>2. next' = [f |-> next.f + 1, i |-> 0] BY <1>1, <1>4, <2>1, PoppedIs DEF BaseInv
  <2>3. r.at = (IF rx[c].keep THEN "input" ELSE "off") /\ (r.at = "input" => r.data = g)
    BY <1>13 DEF RxNext, NextAt, More, RxOff
  <2>4. rx'[c].at \in {"input", "off"} /\ (rx'[c].at = "input" => rx[c].keep /\ rx'[c].data = g)
    BY <1>7, <2>3
  <2>5. rx'[c].at = "input" => rx'[c].data = Inward!Frame(next.f)
    BY <1>8, <2>1, <2>4 DEF Inward!Frame
  <2>6. Inward!Fresh(next.f)
    <3>1. ASSUME NEW k \in 1..Len(input) PROVE input[k] # Inward!Frame(next.f)
      <4>1. input[k] \in Seq(Words) BY DEF BaseInv, HistoryInv
      <4>2. AllBefore(input[k], next) BY DEF ReadInv
      <4> QED BY <1>4, <4>1, <4>2, NotYet
    <3> QED BY <3>1 DEF Inward!Fresh
  <2>7. ContextInv(c)'
    <3>1. (rx[c].at = "input")' => Holding(c)'
      BY <1>1, <1>5, <2>5, <2>6 DEF Holding, Inward!Frame, Inward!Fresh
    <3> QED BY <2>4, <3>1 DEF ContextInv, Reading
  <2>8. Between' BY <2>2 DEF Between
  <2>9. ASSUME NEW d \in Contexts PROVE rx[d].data # Inward!Frame(next.f)
    <3>1. rx[d].data \in Seq(Words) BY DEF BaseInv, RxInv, RxState
    <3>2. AllBefore(rx[d].data, next) BY DEF ReadInv
    <3> QED BY <1>4, <3>1, <3>2, NotYet
  <2>10. Differ' BY <1>7, <2>5, <2>9 DEF Differ, Contexts
  <2>11. Alone'
    <3>1. CASE c = "loop" BY <2>4, <3>1 DEF Alone, WithinFrame
    <3>2. CASE c = "irq" BY <1>3, <1>7, <3>2 DEF Alone, WithinFrame, Contexts
    <3> QED BY <3>1, <3>2 DEF Contexts
  <2> QED BY <1>11, <2>7, <2>8, <2>10, <2>11
<1> QED BY <1>12, <1>13

LEMMA InputFrame ==
    ASSUME BaseInv, FrameInv, NEW c \in Contexts, Input(c) PROVE FrameInv'
<1>1. /\ UNCHANGED <<sent, next, rxMixed>> /\ rx[c].at = "input"
      /\ input' = Append(input, rx[c].data)
      /\ rx' = [rx EXCEPT ![c] = [RxOff EXCEPT !.at = "test"]]
  BY DEF Input, InRx
<1> SUFFICES ASSUME ~rxMixed PROVE (Alone /\ Between /\ Differ /\ \A d \in Contexts : ContextInv(d))'
  BY <1>1 DEF FrameInv
<1>2. Alone /\ Between /\ Differ /\ \A d \in Contexts : ContextInv(d) BY DEF FrameInv
<1>3. rx'[c].at = "test" /\ \A d \in Contexts : d # c => rx'[d] = rx[d]
  BY <1>1 DEF BaseInv, RxInv, RxOff
<1>4. Len(input) \in Nat /\ Len(input') = Len(input) + 1
      /\ (\A k \in 1..Len(input) : input'[k] = input[k]) /\ input'[Len(input) + 1] = rx[c].data
  <2>1. rx[c].data \in Seq(Words) BY DEF BaseInv, RxInv, RxState
  <2>2. input \in Seq(Seq(Words)) BY DEF BaseInv, HistoryInv
  <2> QED BY <1>1, <2>1, <2>2, AppendOne
<1>5. ASSUME NEW d \in Contexts, d # c PROVE ContextInv(d)'
  <2>1. ContextInv(d) /\ rx'[d] = rx[d] BY <1>2, <1>3, <1>5
  <2>2. Reading(d)' => Following(d)'
    BY <1>1, <2>1 DEF ContextInv, Reading, Following, Empty
  <2>3. (rx[d].at = "input")' => Holding(d)'
    <3> SUFFICES ASSUME rx[d].at = "input" PROVE Holding(d)' BY <2>1
    <3>1. PICK f \in 1..Len(sent) : rx[d].data = Inward!Frame(f) /\ Inward!Fresh(f)
      BY <2>1 DEF ContextInv, Holding
    <3>2. rx[c].data # rx[d].data BY <1>1, <1>2, <1>5 DEF Differ, Contexts
    <3>3. ASSUME NEW k \in 1..(Len(input) + 1) PROVE input'[k] # Inward!Frame(f)
      <4>1. CASE k = Len(input) + 1 BY <1>4, <3>1, <3>2, <4>1
      <4>2. CASE k # Len(input) + 1
        <5>1. k \in 1..Len(input) BY <1>4, <4>2
        <5> QED BY <1>4, <3>1, <5>1 DEF Inward!Fresh
      <4> QED BY <4>1, <4>2
    <3>4. Inward!Frame(f)' = Inward!Frame(f) BY <1>1 DEF Inward!Frame
    <3>5. Inward!Fresh(f)' BY <1>4, <3>3, <3>4 DEF Inward!Fresh
    <3> QED BY <1>1, <2>1, <3>1, <3>4, <3>5 DEF Holding
  <2> QED BY <1>1, <2>1, <2>2, <2>3 DEF ContextInv, Empty
<1>6. ContextInv(c)' BY <1>3 DEF ContextInv, Reading
<1>7. Between' BY <1>1, <1>2, <1>3 DEF Between, Reading, Contexts
<1>8. Differ' BY <1>3 DEF Differ, Contexts
<1>9. Alone' BY <1>1, <1>2, <1>3 DEF Alone, WithinFrame, Reading, Contexts
<1> QED BY <1>5, <1>6, <1>7, <1>8, <1>9

LEMMA StepFrame ==
    ASSUME BaseInv, ReadInv, FrameInv, NEW c \in Contexts, Step(c) PROVE FrameInv'
<1>1. CASE Header(c)
  <2>1. CASE Reset(c) BY <1>1, <2>1, ResetFrame DEF Header
  <2>2. CASE ~Reset(c) BY <1>1, <2>2, HeaderFrame DEF Header
  <2> QED BY <2>1, <2>2
<1>2. CASE Room(c) \/ Push(c)
  <2>1. UNCHANGED <<sent, next, rx, input, rxMixed>> BY <1>2 DEF Room, Push, rxVars
  <2> QED BY <2>1, FrameStill
<1> QED BY <1>1, <1>2, TestFrame, WaitFrame, PopFrame, InputFrame DEF Step

LEMMA NextFrame == BaseInv /\ ReadInv /\ FrameInv /\ [Next]_vars => FrameInv'
<1>1. ASSUME FrameInv, TimerSends \/ Drain \/ UNCHANGED vars PROVE FrameInv'
  <2>1. UNCHANGED <<sent, next, rx, input, rxMixed>> BY <1>1 DEF TimerSends, Drain, vars, rxVars
  <2> QED BY <1>1, <2>1, FrameStill
<1> QED BY <1>1, ArriveFrame, TrapFrame, StepFrame DEF Next

-----------------------------------------------------------------------------
(* Every step is one of FrameChannel, or changes nothing there.            *)

LEMMA InitChannel == Init => Inward!Init
  BY DEF Init, Inward!Init

LEMMA StepChannel ==
    ASSUME BaseInv, FrameInv, BaseInv', [Next]_vars
    PROVE  [Inward!Next]_(Inward!channel)
<1> SUFFICES ASSUME ~rxMixed, ~rxMixed' PROVE [Inward!Next]_(Inward!channel)
  BY DEF Inward!Next
<1>1. rxMixed' = rxMixed
  <2>1. rxMixed \in BOOLEAN /\ rxMixed' \in BOOLEAN BY DEF BaseInv, HistoryInv
  <2> QED BY <2>1
<1>2. CASE Arrive
  <2>1. PICK n \in Lengths : sent' = Append(sent, n) BY <1>2 DEF Arrive
  <2>2. sent \in Seq(Lengths) BY DEF BaseInv, PositionInv
  <2>3. Len(sent') = Len(sent) + 1 /\ \A f \in 1..Len(sent) : sent'[f] = sent[f]
    BY <2>1, <2>2, AppendOne
  <2>4. input' = input BY <1>2 DEF Arrive
  <2> QED BY <1>1, <2>3, <2>4 DEF Inward!Next, Inward!Offer
<1>3. ASSUME NEW c \in Contexts, Input(c) PROVE [Inward!Next]_(Inward!channel)
  <2>1. sent' = sent /\ input' = Append(input, rx[c].data) /\ rx[c].at = "input"
    BY <1>3 DEF Input, InRx
  <2>2. Holding(c) BY <2>1 DEF FrameInv, ContextInv
  <2> QED BY <1>1, <2>1, <2>2 DEF Holding, Inward!Next, Inward!Deliver
<1>4. CASE UNCHANGED <<sent, input>> BY <1>1, <1>4 DEF Inward!channel
<1>5. ASSUME ~Arrive, \A c \in Contexts : ~Input(c) PROVE UNCHANGED <<sent, input>>
  BY <1>5 DEF Next, Trap, mac_poll, TimerSends, Drain, Step, Test, Header, Reset, Wait, Pop,
              Room, Push, vars, rxVars
<1> QED BY <1>2, <1>3, <1>4, <1>5

\* Unless the handler reads within a frame of the loop's, the stack is given
\* whole frames, each at most once, for frames and FIFOs of any size.
THEOREM DriverImplementsChannel == Spec => FramesArriveWhole
<1> DEFINE IInv == BaseInv /\ ReadInv /\ FrameInv
<1>1. Init => IInv BY InitBase, InitRead, InitFrame
<1>2. IInv /\ [Next]_vars => IInv' BY NextBase, NextRead, NextFrame
<1>3. IInv /\ IInv' /\ [Next]_vars => [Inward!Next]_(Inward!channel) BY StepChannel
<1> QED
  BY InitChannel, <1>1, <1>2, <1>3, PTL DEF Spec, FramesArriveWhole, Inward!Spec

(* Nothing is read that has not come: unless frames were mixed, whoever is  *)
(* within a frame of the receive FIFO finds its next word there, so the     *)
(* wait without limit in mac_rx() does not wait.                            *)
THEOREM ReadsWaitForNothing == Spec => []WordsAreThere
<1> DEFINE IInv == BaseInv /\ ReadInv /\ FrameInv
<1>1. Init => IInv BY InitBase, InitRead, InitFrame
<1>2. IInv /\ [Next]_vars => IInv' BY NextBase, NextRead, NextFrame
<1>3. IInv => WordsAreThere
  BY DEF FrameInv, ContextInv, Reading, Following, WordsAreThere
<1> QED BY <1>1, <1>2, <1>3, PTL DEF Spec

-----------------------------------------------------------------------------
(* Unless packets were mixed, the words on the wire, in the FIFO and to be *)
(* pushed are those of the packets, one after the other.                   *)

\* A context is between the words of a packet.
Mid(p, c) == p[c].at # "off" /\ p[c].word > 0
Only(p, c) == Mid(p, c) /\ \A d \in Contexts : d # c => ~Mid(p, d)
Idle(p) == \A c \in Contexts : ~Mid(p, c)

\* Word w may come behind word v.
Follows(q, v, w) ==
    IF v[2] = q[v[1]] THEN w[2] = 0 /\ v[1] < w[1] ELSE w = <<v[1], v[2] + 1>>

\* What is pushed next follows word v.
Ends(p, q, v) ==
    IF v[2] = q[v[1]] THEN Idle(p)
    ELSE \E c \in Contexts : Only(p, c) /\ p[c].no = v[1] /\ p[c].word = v[2] + 1

Below(s, n) == \A k \in 1..Len(s) : s[k][1] < n
AllBelow(l, n) == \A m \in 1..Len(l) : Below(l[m], n)

\* The packets of words are packets that were pushed; also when packets were mixed.
NumberInv ==
    /\ \A c \in Contexts : Mid(push, c) =>
          push[c].no \in 1..Len(queued) /\ push[c].len = queued[push[c].no]
    /\ Below(tx, Len(queued) + 1) /\ Below(wire.data, Len(queued) + 1)
    /\ AllBelow(left, Len(queued) + 1)

Quiet == rx["irq"].at = "off" => push["irq"].at = "off"

FifoInv ==
    /\ \A k \in 1..Len(tx) : tx[k][1] \in 1..Len(queued) /\ tx[k][2] <= queued[tx[k][1]]
    /\ \A k \in 1..(Len(tx) - 1) : Follows(queued, tx[k], tx[k + 1])
    /\ tx # <<>> => Ends(push, queued, tx[Len(tx)])

\* FIFO t continues behind word v.
Tied(t, p, q, v) == IF t = <<>> THEN Ends(p, q, v) ELSE Follows(q, v, t[1])

\* The controller is sending packet p, which is new.
OnWire(p) ==
    /\ wire.todo <= queued[p]
    /\ wire.data = [i \in 1..(queued[p] - wire.todo) |-> <<p, i>>]
    /\ AllBelow(left, p)
    /\ Tied(tx, push, queued, <<p, queued[p] - wire.todo>>)

AtStart == IF tx = <<>> THEN Idle(push) ELSE tx[1][2] = 0 /\ AllBelow(left, tx[1][1])

WireInv == IF wire.todo = 0 THEN AtStart ELSE \E p \in 1..Len(queued) : OnWire(p)

RoomInv == \A c \in Contexts : push[c].at = "push" => Len(tx) < TxRoom

PacketInv == ~txMixed => FifoInv /\ WireInv /\ RoomInv

SendInv == Quiet /\ NumberInv /\ PacketInv

LEMMA InitSend == Init => SendInv
<1> SUFFICES ASSUME Init PROVE SendInv OBVIOUS
<1>1. \A c \in Contexts : push[c].at = "off" BY DEF Init, PushOff
<1>2. "irq" \in Contexts BY DEF Contexts
<1>3. Idle(push) BY <1>1 DEF Idle, Mid
<1>4. tx = <<>> /\ left = <<>> /\ wire.data = <<>> /\ wire.todo = 0 BY DEF Init
<1>5. Quiet BY <1>1, <1>2 DEF Quiet
<1>6. NumberInv BY <1>1, <1>4 DEF NumberInv, Below, AllBelow, Mid
<1>7. FifoInv /\ WireInv BY <1>3, <1>4 DEF FifoInv, WireInv, AtStart
<1>8. RoomInv BY <1>1 DEF RoomInv
<1> QED BY <1>5, <1>6, <1>7, <1>8 DEF SendInv, PacketInv

\* What the properties see of a context.
Same(p, q, c) ==
    /\ Mid(q, c) <=> Mid(p, c)
    /\ Mid(p, c) => q[c].no = p[c].no /\ q[c].word = p[c].word /\ q[c].len = p[c].len

LEMMA SendStill ==
    ASSUME SendInv, UNCHANGED <<tx, queued, wire, left, txMixed>>,
           \A c \in Contexts : Same(push, push', c), RoomInv => RoomInv', Quiet'
    PROVE  SendInv'
<1>1. NumberInv' BY DEF SendInv, NumberInv, Same
<1>2. \A c \in Contexts : Mid(push', c) <=> Mid(push, c) BY DEF Same
<1>3. Idle(push') <=> Idle(push) BY <1>2 DEF Idle
<1>4. \A c \in Contexts : Only(push', c) <=> Only(push, c) BY <1>2 DEF Only
<1>5. ASSUME NEW v PROVE Ends(push', queued, v) <=> Ends(push, queued, v)
  <2>1. \A c \in Contexts : Only(push, c) => push'[c].no = push[c].no /\ push'[c].word = push[c].word
    BY DEF Only, Same
  <2> QED BY <1>3, <1>4, <2>1 DEF Ends
<1>6. FifoInv => FifoInv' BY <1>5 DEF FifoInv
<1>7. ASSUME NEW p, OnWire(p) PROVE OnWire(p)' BY <1>5, <1>7 DEF OnWire, Tied
<1>8. WireInv => WireInv' BY <1>3, <1>7 DEF WireInv, AtStart
<1> QED BY <1>1, <1>6, <1>8 DEF SendInv, PacketInv

\* A context is put into a state that is no packet's middle, or the same one.
LEMMA SamePut ==
    ASSUME BaseInv, NEW c \in Contexts, NEW r, push' = [push EXCEPT ![c] = r],
           (r.at # "off" /\ r.word > 0) <=> Mid(push, c),
           Mid(push, c) => r.no = push[c].no /\ r.word = push[c].word /\ r.len = push[c].len
    PROVE  /\ \A d \in Contexts : Same(push, push', d)
           /\ push'[c] = r /\ \A d \in Contexts : d # c => push'[d] = push[d]
<1>1. push'[c] = r /\ \A d \in Contexts : d # c => push'[d] = push[d] BY DEF BaseInv, PushInv
<1>2. Same(push, push', c)
  <2>1. Mid(push', c) <=> Mid(push, c) BY <1>1 DEF Mid
  <2> QED BY <1>1, <2>1 DEF Same
<1>3. ASSUME NEW d \in Contexts, d # c PROVE Same(push, push', d)
  BY <1>1, <1>3 DEF Same, Mid
<1> QED BY <1>1, <1>2, <1>3

LEMMA NoPush ==
    ASSUME BaseInv, SendInv, UNCHANGED <<tx, push, queued, wire, left, txMixed>>, Quiet'
    PROVE  SendInv'
<1>1. \A c \in Contexts : Same(push, push', c) BY DEF Same
<1>2. RoomInv => RoomInv' BY DEF RoomInv
<1> QED BY <1>1, <1>2, SendStill

\* The receiving steps of a context that sends nothing.
LEMMA ReceiveSend ==
    ASSUME BaseInv, SendInv, UNCHANGED txVars, Arrive \/ Trap \/ mac_poll \/
           \E c \in Contexts : Test(c) \/ Header(c) \/ Wait(c) \/ Pop(c)
    PROVE  SendInv'
<1>1. UNCHANGED <<tx, push, queued, wire, left, txMixed>> BY DEF txVars
<1>2. rx \in [Contexts -> RxState] BY DEF BaseInv, RxInv
<1>3. Quiet'
  <2>1. CASE Arrive BY <1>1, <2>1 DEF Arrive, SendInv, Quiet
  <2>2. CASE Trap BY <1>2, <2>2 DEF Trap, Quiet, RxOff, Contexts
  <2>3. CASE mac_poll
    <3>1. rx'["irq"] = rx["irq"] BY <1>2, <2>3 DEF mac_poll, Contexts
    <3> QED BY <1>1, <3>1 DEF SendInv, Quiet
  <2>4. ASSUME NEW c \in Contexts, Test(c) \/ Header(c) \/ Wait(c) \/ Pop(c) PROVE Quiet'
    <3>1. push[c].at = "off" /\ (c = "loop" => rx["irq"].at = "off")
      BY <2>4 DEF Test, Header, Wait, Pop, InRx, Runs
    <3>2. push["irq"].at = "off" BY <3>1 DEF SendInv, Quiet, Contexts
    <3> QED BY <1>1, <3>2 DEF Quiet
  <2> QED BY <2>1, <2>2, <2>3, <2>4
<1> QED BY <1>1, <1>3, NoPush

LEMMA StartSend ==
    ASSUME BaseInv, SendInv, NEW c \in Contexts, push[c].at = "off", mac_tx_packet(c),
           UNCHANGED <<tx, queued, wire, left, txMixed>>, Quiet'
    PROVE  SendInv'
<1>1. PICK n \in Lengths : push' = [push EXCEPT ![c] = [PushOff EXCEPT !.at = "room", !.len = n]]
  BY DEF mac_tx_packet
<1> DEFINE r == [PushOff EXCEPT !.at = "room", !.len = n]
<1>2. r.at = "room" /\ r.word = 0 BY DEF PushOff
<1>3. push' = [push EXCEPT ![c] = r] BY <1>1
<1> HIDE DEF r
<1>4. /\ \A d \in Contexts : Same(push, push', d)
      /\ push'[c] = r /\ \A d \in Contexts : d # c => push'[d] = push[d]
  <2>1. ~Mid(push, c) BY DEF Mid
  <2>2. (r.at # "off" /\ r.word > 0) <=> Mid(push, c) BY <1>2, <2>1
  <2> QED BY <1>3, <2>1, <2>2, SamePut
<1>5. RoomInv => RoomInv' BY <1>2, <1>4 DEF RoomInv
<1> QED BY <1>4, <1>5, SendStill

LEMMA InputSend ==
    ASSUME BaseInv, SendInv, NEW c \in Contexts, Input(c) PROVE SendInv'
<1>1. /\ UNCHANGED <<tx, queued, wire, left, txMixed>> /\ push[c].at = "off"
      /\ c = "loop" => rx["irq"].at = "off"
      /\ rx' = [rx EXCEPT ![c] = [RxOff EXCEPT !.at = "test"]]
      /\ mac_tx_packet(c) \/ UNCHANGED push
  BY DEF Input, InRx, Runs
<1>2. rx'[c].at = "test" /\ \A d \in Contexts : d # c => rx'[d] = rx[d]
  BY <1>1 DEF BaseInv, RxInv, RxOff
<1>3. Quiet'
  <2>1. CASE c = "irq" BY <1>2, <2>1 DEF Quiet
  <2>2. CASE c = "loop"
    <3>1. push["irq"].at = "off" BY <1>1, <2>2 DEF SendInv, Quiet
    <3>2. push'["irq"] = push["irq"] BY <1>1, <2>2 DEF mac_tx_packet, BaseInv, PushInv, Contexts
    <3> QED BY <3>1, <3>2 DEF Quiet
  <2> QED BY <2>1, <2>2 DEF Contexts
<1>4. CASE mac_tx_packet(c) BY <1>1, <1>3, <1>4, StartSend
<1>5. CASE UNCHANGED push BY <1>1, <1>3, <1>5, NoPush
<1> QED BY <1>1, <1>4, <1>5

LEMMA TimerSend ==
    ASSUME BaseInv, SendInv, TimerSends PROVE SendInv'
<1>1. /\ UNCHANGED <<rx, tx, queued, wire, left, txMixed>> /\ push["loop"].at = "off"
      /\ rx["irq"].at = "off" /\ mac_tx_packet("loop")
  BY DEF TimerSends, InRx, Runs, rxVars
<1>2. push'["irq"] = push["irq"] BY <1>1 DEF mac_tx_packet, BaseInv, PushInv, Contexts
<1>3. Quiet' BY <1>1, <1>2 DEF SendInv, Quiet
<1>4. "loop" \in Contexts BY DEF Contexts
<1> QED BY <1>1, <1>3, <1>4, StartSend

LEMMA RoomSend ==
    ASSUME BaseInv, SendInv, NEW c \in Contexts, Room(c) PROVE SendInv'
<1>1. UNCHANGED <<rx, tx, queued, wire, left, txMixed>> /\ Len(tx) < TxRoom /\ push[c].at = "room"
  BY DEF Room, HasRoom, rxVars
<1> DEFINE r == [push[c] EXCEPT !.at = "push"]
<1>2. push' = [push EXCEPT ![c] = r] BY DEF Room
<1>3. push[c] \in PushState BY DEF BaseInv, PushInv
<1>4. r.at = "push" /\ r.len = push[c].len /\ r.no = push[c].no /\ r.word = push[c].word
  BY <1>3 DEF PushState
<1> HIDE DEF r
<1>5. (r.at # "off" /\ r.word > 0) <=> Mid(push, c) BY <1>1, <1>4 DEF Mid
<1>6. /\ \A d \in Contexts : Same(push, push', d)
      /\ push'[c] = r /\ \A d \in Contexts : d # c => push'[d] = push[d]
  BY <1>2, <1>4, <1>5, SamePut
<1>7. RoomInv' BY <1>1 DEF RoomInv
<1>8. Quiet' BY <1>1, <1>6 DEF SendInv, Quiet, Contexts
<1> QED BY <1>1, <1>6, <1>7, <1>8, SendStill

\* The controller is reset.
LEMMA ResetSend ==
    ASSUME BaseInv, SendInv, NEW c \in Contexts, Reset(c), InRx(c, "header") PROVE SendInv'
<1>1. /\ UNCHANGED <<push, queued, left>> /\ tx' = <<>> /\ wire' = [todo |-> 0, data |-> <<>>]
      /\ txMixed' = (c = "irq" /\ WithinPacket) /\ rx' = [rx EXCEPT ![c] = RxOff]
  BY DEF Reset, Leave
<1>2. push[c].at = "off" /\ (c = "loop" => rx["irq"].at = "off") BY DEF InRx, Runs
<1>3. push["irq"].at = "off" BY <1>2 DEF SendInv, Quiet, Contexts
<1>4. Quiet' BY <1>1, <1>3 DEF Quiet
<1>5. NumberInv' BY <1>1 DEF SendInv, NumberInv, Below, AllBelow
<1>6. ASSUME ~txMixed' PROVE Idle(push')
  <2>1. ~Mid(push, "irq") BY <1>3 DEF Mid
  <2>2. CASE c = "loop" BY <1>1, <1>2, <2>1, <2>2 DEF Idle, Mid, Contexts
  <2>3. CASE c = "irq"
    <3>1. ~WithinPacket BY <1>1, <1>6, <2>3
    <3>2. push["loop"].at \in {"off", "room", "push"} BY DEF BaseInv, PushInv, PushState, Contexts
    <3>3. ~Mid(push, "loop") BY <3>1, <3>2 DEF WithinPacket, Mid
    <3> QED BY <1>1, <2>1, <3>3 DEF Idle, Contexts
  <2> QED BY <2>2, <2>3 DEF Contexts
<1>7. wire'.todo = 0 BY <1>1
<1>8. FifoInv' BY <1>1 DEF FifoInv
<1>9. ~txMixed' => WireInv' BY <1>1, <1>6, <1>7 DEF WireInv, AtStart
<1>10. RoomInv' BY <1>1, MacAssumption DEF RoomInv
<1> QED BY <1>4, <1>5, <1>8, <1>9, <1>10 DEF SendInv, PacketInv

-----------------------------------------------------------------------------
(* A word is pushed. *)

\* Nobody else is pushing, unless packets are being mixed.
LEMMA PushAlone ==
    ASSUME BaseInv, Quiet, NEW c \in Contexts, Push(c), ~txMixed'
    PROVE  /\ ~txMixed
           /\ \A d \in Contexts : d # c => ~Mid(push, d) /\ push[d].at # "push"
<1>1. push[c].at = "push" /\ (c = "loop" => rx["irq"].at = "off")
      /\ txMixed' = (txMixed \/ (c = "irq" /\ WithinPacket))
  BY DEF Push, Runs
<1>2. ~txMixed BY <1>1
<1>3. CASE c = "loop"
  <2>1. push["irq"].at = "off" BY <1>1, <1>3 DEF Quiet
  <2> QED BY <1>2, <1>3, <2>1 DEF Mid, Contexts
<1>4. CASE c = "irq"
  <2>1. ~WithinPacket BY <1>1, <1>4
  <2>2. push["loop"].at \in {"off", "room", "push"} BY DEF BaseInv, PushInv, PushState, Contexts
  <2>3. ~Mid(push, "loop") /\ push["loop"].at # "push" BY <2>1, <2>2 DEF WithinPacket, Mid
  <2> QED BY <1>2, <1>4, <2>3 DEF Contexts
<1> QED BY <1>3, <1>4 DEF Contexts

\* The queue of packets grows, or not.
Extends(p, q) == Len(p) <= Len(q) /\ \A f \in 1..Len(p) : q[f] = p[f]

LEMMA FollowsStays ==
    ASSUME NEW p, NEW q, Extends(p, q), NEW v, NEW w, v[1] \in 1..Len(p), Follows(p, v, w)
    PROVE  Follows(q, v, w)
  BY DEF Follows, Extends

\* A word that follows what is there goes into the FIFO.
LEMMA FifoGrows ==
    ASSUME BaseInv, FifoInv, queued' \in Seq(Lengths), Extends(queued, queued'), NEW w \in Words,
           tx' = Append(tx, w), w[1] \in 1..Len(queued'), w[2] <= queued'[w[1]],
           \A v \in Words : v[1] \in 1..Len(queued) /\ Ends(push, queued, v) => Follows(queued', v, w),
           Ends(push', queued', w)
    PROVE  FifoInv'
<1>1. tx \in Seq(Words) /\ Len(tx) \in Nat /\ Len(queued) \in Nat /\ Len(queued') \in Nat
  BY DEF BaseInv, TxInv
<1>2. /\ Len(tx') = Len(tx) + 1
      /\ \A k \in 1..Len(tx) : tx'[k] = tx[k]
      /\ tx'[Len(tx) + 1] = w
  BY <1>1, AppendOne
<1>3. ASSUME NEW k \in 1..Len(tx)
      PROVE  tx[k] \in Words /\ tx[k][1] \in 1..Len(queued) /\ tx[k][2] <= queued[tx[k][1]]
  BY <1>1 DEF FifoInv
<1>4. ASSUME NEW k \in 1..(Len(tx) + 1)
      PROVE  tx'[k][1] \in 1..Len(queued') /\ tx'[k][2] <= queued'[tx'[k][1]]
  <2>1. CASE k = Len(tx) + 1 BY <1>2, <2>1
  <2>2. CASE k # Len(tx) + 1
    <3>1. k \in 1..Len(tx) BY <1>1, <2>2
    <3>2. tx'[k] = tx[k] BY <1>2, <3>1
    <3>3. tx[k][1] \in 1..Len(queued) /\ tx[k][2] <= queued[tx[k][1]] BY <1>3, <3>1
    <3>4. queued'[tx[k][1]] = queued[tx[k][1]] BY <3>3 DEF Extends
    <3>5. tx[k][1] \in 1..Len(queued') BY <1>1, <3>3 DEF Extends
    <3> QED BY <3>2, <3>3, <3>4, <3>5
  <2> QED BY <2>1, <2>2
<1>5. ASSUME NEW k \in 1..Len(tx) PROVE Follows(queued', tx'[k], tx'[k + 1])
  <2>1. tx[k] \in Words /\ tx[k][1] \in 1..Len(queued) /\ tx'[k] = tx[k] BY <1>2, <1>3
  <2>2. CASE k = Len(tx)
    <3>1. tx # <<>> BY <2>2
    <3>2. Ends(push, queued, tx[k]) BY <2>2, <3>1 DEF FifoInv
    <3> QED BY <1>2, <2>1, <2>2, <3>2
  <2>3. CASE k # Len(tx)
    <3>1. k \in 1..(Len(tx) - 1) /\ k + 1 \in 1..Len(tx) BY <1>1, <2>3
    <3>2. Follows(queued, tx[k], tx[k + 1]) BY <3>1 DEF FifoInv
    <3>3. tx'[k + 1] = tx[k + 1] BY <1>2, <3>1
    <3> QED BY <2>1, <3>2, <3>3, FollowsStays
  <2> QED BY <2>2, <2>3
<1>6. Len(tx') - 1 = Len(tx) BY <1>1, <1>2
<1>7. tx'[Len(tx')] = w BY <1>2
<1> QED BY <1>2, <1>4, <1>5, <1>6, <1>7 DEF FifoInv

\* And the wire does not notice.
LEMMA WireGrows ==
    ASSUME BaseInv, FifoInv, WireInv, queued' \in Seq(Lengths), Extends(queued, queued'),
           NEW w \in Words, tx' = Append(tx, w), UNCHANGED <<wire, left>>,
           \A v \in Words : v[1] \in 1..Len(queued) /\ Ends(push, queued, v) => Follows(queued', v, w),
           Idle(push) => w[2] = 0 /\ AllBelow(left, w[1])
    PROVE  WireInv'
<1>1. tx \in Seq(Words) /\ Len(tx) \in Nat /\ Len(queued) \in Nat /\ Len(queued') \in Nat
  BY DEF BaseInv, TxInv
<1>2. /\ Len(tx') = Len(tx) + 1
      /\ \A k \in 1..Len(tx) : tx'[k] = tx[k]
      /\ tx'[Len(tx) + 1] = w
  BY <1>1, AppendOne
<1>3. tx' # <<>> BY <1>1, <1>2
<1>4. tx'[1] = IF tx = <<>> THEN w ELSE tx[1]
  <2>1. CASE tx = <<>> BY <1>2, <2>1
  <2>2. CASE tx # <<>>
    <3>1. 1 \in 1..Len(tx) BY <1>1, <2>2, TailOne
    <3> QED BY <1>2, <2>2, <3>1
  <2> QED BY <2>1, <2>2
<1>5. CASE wire.todo = 0
  <2>1. AtStart BY <1>5 DEF WireInv
  <2>2. AtStart' BY <1>3, <1>4, <2>1 DEF AtStart
  <2> QED BY <1>5, <2>2 DEF WireInv
<1>6. CASE wire.todo # 0
  <2>1. PICK p \in 1..Len(queued) : OnWire(p) BY <1>6 DEF WireInv
  <2>2. queued'[p] = queued[p] /\ p \in 1..Len(queued') BY <1>1 DEF Extends
  <2> DEFINE v == <<p, queued[p] - wire.todo>>
  <2>3. v \in Words /\ v[1] \in 1..Len(queued)
    <3>1. wire.todo \in Nat /\ queued[p] \in Nat /\ wire.todo <= queued[p]
      BY <2>1, Zero DEF OnWire, BaseInv, HistoryInv, TxInv, Lengths
    <3> QED BY <1>1, <3>1 DEF Words
  <2>4. Tied(tx, push, queued, v) BY <2>1 DEF OnWire
  <2> HIDE DEF v
  <2>5. Follows(queued', v, tx'[1])
    <3>1. CASE tx = <<>> BY <1>4, <2>3, <2>4, <3>1 DEF Tied
    <3>2. CASE tx # <<>>
      <4>1. Follows(queued, v, tx[1]) BY <2>4, <3>2 DEF Tied
      <4> QED BY <1>4, <2>3, <3>2, <4>1, FollowsStays
    <3> QED BY <3>1, <3>2
  <2>6. OnWire(p)' BY <1>3, <2>1, <2>2, <2>5 DEF OnWire, Tied, v
  <2> QED BY <1>6, <2>2, <2>6 DEF WireInv
<1> QED BY <1>5, <1>6

\* A bound on the numbers of words, with one more word and a larger bound.
LEMMA BelowMore ==
    ASSUME NEW s \in Seq(Words), NEW n \in Nat, NEW m \in Nat, n <= m, Below(s, n)
    PROVE  /\ Below(s, m)
           /\ \A w \in Words : w[1] < m => Below(Append(s, w), m)
<1>1. \A k \in 1..Len(s) : s[k] \in Words /\ s[k][1] < n BY DEF Below
<1>2. \A k \in 1..Len(s) : s[k][1] < m BY <1>1 DEF Words
<1>3. ASSUME NEW w \in Words, w[1] < m PROVE Below(Append(s, w), m)
  <2>1. /\ Len(Append(s, w)) = Len(s) + 1 /\ Len(s) \in Nat
        /\ \A k \in 1..Len(s) : Append(s, w)[k] = s[k]
        /\ Append(s, w)[Len(s) + 1] = w
    BY AppendOne
  <2>2. ASSUME NEW k \in 1..(Len(s) + 1) PROVE Append(s, w)[k][1] < m
    <3>1. CASE k = Len(s) + 1 BY <1>3, <2>1, <3>1
    <3>2. CASE k # Len(s) + 1
      <4>1. k \in 1..Len(s) BY <2>1, <3>2
      <4> QED BY <1>2, <2>1, <4>1
    <3> QED BY <3>1, <3>2
  <2> QED BY <2>1, <2>2 DEF Below
<1> QED BY <1>2, <1>3 DEF Below

\* What the history and the wire hold has numbers below a larger bound.
LEMMA NumbersStay ==
    ASSUME BaseInv, NumberInv, NEW m \in Nat, Len(queued) + 1 <= m
    PROVE  /\ Below(tx, m) /\ Below(wire.data, m) /\ AllBelow(left, m)
           /\ \A w \in Words : w[1] < m => Below(Stored(w), m)
<1>1. Len(queued) + 1 \in Nat /\ tx \in Seq(Words) BY DEF BaseInv, TxInv
<1>2. wire.data \in Seq(Words) /\ \A k \in 1..Len(left) : left[k] \in Seq(Words)
  BY DEF BaseInv, HistoryInv
<1>3. AllBelow(left, m) BY <1>1, <1>2, BelowMore DEF NumberInv, AllBelow
<1>4. Below(wire.data, m) BY <1>1, <1>2, BelowMore DEF NumberInv
<1>5. Below(tx, m) /\ \A w \in Words : w[1] < m => Below(Append(tx, w), m)
  BY <1>1, BelowMore DEF NumberInv
<1> QED BY <1>3, <1>4, <1>5 DEF Stored

\* The length of a packet is pushed, which gives it its number.
LEMMA PushLength ==
    ASSUME BaseInv, SendInv, NEW c \in Contexts, Push(c), push[c].word = 0, Quiet' PROVE SendInv'
<1> DEFINE n == Len(queued) + 1
           w == <<n, 0>>
           r == [push[c] EXCEPT !.at = "room", !.no = n, !.word = 1]
<1>1. push[c] \in PushState /\ push[c].at = "push" /\ push[c].len \in Lengths /\ push[c].len > 0
      /\ push \in [Contexts -> PushState]
  BY DEF Push, BaseInv, PushInv, Lengths
<1>2. UNCHANGED <<wire, left>> /\ tx' = Stored(w) /\ push' = [push EXCEPT ![c] = r]
      /\ queued' = Append(queued, push[c].len)
  BY DEF Push
<1>3. queued \in Seq(Lengths) /\ Len(queued) \in Nat BY DEF BaseInv, TxInv
<1>4. /\ queued' \in Seq(Lengths) /\ Len(queued') = n
      /\ \A f \in 1..Len(queued) : queued'[f] = queued[f]
      /\ queued'[n] = push[c].len
  BY <1>1, <1>2, <1>3, AppendOne
<1>5. n \in Nat /\ n \in 1..n /\ Len(queued) < n /\ w \in Words /\ w[1] = n /\ w[2] = 0
  BY <1>3 DEF Words
<1>6. r.at = "room" /\ r.no = n /\ r.word = 1 /\ r.len = push[c].len BY <1>1 DEF PushState
<1> HIDE DEF n, w, r
<1>7. push'[c] = r /\ \A d \in Contexts : d # c => push'[d] = push[d] BY <1>1, <1>2
<1>8. Mid(push', c) BY <1>6, <1>7 DEF Mid
<1>9. NumberInv'
  <2>1. ASSUME NEW d \in Contexts, Mid(push', d)
        PROVE  push'[d].no \in 1..n /\ push'[d].len = queued'[push'[d].no]
    <3>1. CASE d = c BY <1>4, <1>5, <1>6, <1>7, <3>1
    <3>2. CASE d # c
      <4>1. Mid(push, d) BY <1>7, <2>1, <3>2 DEF Mid
      <4>2. push[d].no \in 1..Len(queued) /\ push[d].len = queued[push[d].no]
        BY <4>1 DEF SendInv, NumberInv
      <4>3. push[d].no \in 1..n BY <1>3, <4>2 DEF n
      <4> QED BY <1>4, <1>7, <3>2, <4>2, <4>3
    <3> QED BY <3>1, <3>2
  <2>2. n + 1 \in Nat /\ Len(queued) + 1 <= n + 1 /\ n < n + 1 BY <1>3, <1>5 DEF n
  <2>3. /\ Below(wire.data, n + 1) /\ AllBelow(left, n + 1)
        /\ \A x \in Words : x[1] < n + 1 => Below(Stored(x), n + 1)
    BY <2>2, NumbersStay DEF SendInv
  <2>4. Below(tx', n + 1) BY <1>2, <1>5, <2>2, <2>3
  <2> QED BY <1>2, <1>4, <2>1, <2>3, <2>4 DEF NumberInv
<1>10. ASSUME ~txMixed' PROVE FifoInv' /\ WireInv' /\ RoomInv'
  <2>1. ~txMixed /\ \A d \in Contexts : d # c => ~Mid(push, d) /\ push[d].at # "push"
    BY <1>10, PushAlone DEF SendInv
  <2>2. FifoInv /\ WireInv /\ RoomInv BY <2>1 DEF SendInv, PacketInv
  <2>3. tx' = Append(tx, w) BY <1>1, <1>2, <2>2 DEF RoomInv, Stored
  <2>4. Idle(push)
    <3>1. ~Mid(push, c) BY DEF Mid
    <3> QED BY <2>1, <3>1 DEF Idle
  <2>5. Extends(queued, queued') BY <1>3, <1>4 DEF Extends, n
  <2>6. ASSUME NEW v \in Words, v[1] \in 1..Len(queued), Ends(push, queued, v)
        PROVE  Follows(queued', v, w)
    <3>1. \A d \in Contexts : ~Only(push, d) BY <2>4 DEF Idle, Only
    <3>2. v[2] = queued[v[1]] BY <2>6, <3>1 DEF Ends
    <3>3. queued'[v[1]] = queued[v[1]] /\ v[1] < n BY <1>3, <1>4, <2>6 DEF n
    <3> QED BY <1>5, <3>2, <3>3 DEF Follows
  <2>7. Ends(push', queued', w)
    <3>1. Only(push', c) BY <1>7, <1>8, <2>1 DEF Only, Mid
    <3>2. w[2] # queued'[w[1]] BY <1>1, <1>4, <1>5
    <3>3. push'[c].no = w[1] /\ push'[c].word = w[2] + 1 BY <1>5, <1>6, <1>7
    <3> QED BY <3>1, <3>2, <3>3 DEF Ends
  <2>8. w[2] = 0 /\ AllBelow(left, w[1]) BY <1>5 DEF SendInv, NumberInv, n
  <2>9. w[1] \in 1..Len(queued') /\ w[2] <= queued'[w[1]]
    <3>1. queued'[w[1]] \in Nat BY <1>1, <1>4, <1>5, Zero DEF Lengths
    <3> QED BY <1>4, <1>5, <3>1
  <2>10. FifoInv' BY <1>4, <1>5, <2>2, <2>3, <2>5, <2>6, <2>7, <2>9, FifoGrows
  <2>11. WireInv' BY <1>2, <1>4, <1>5, <2>2, <2>3, <2>5, <2>6, <2>8, WireGrows
  <2>12. RoomInv' BY <1>6, <1>7, <2>1 DEF RoomInv
  <2> QED BY <2>10, <2>11, <2>12
<1> QED BY <1>9, <1>10 DEF SendInv, PacketInv

\* The context goes on with its packet, or has pushed the last word.
LEMMA PushNext ==
    ASSUME BaseInv, NEW c \in Contexts, Push(c), push[c].word # 0
    PROVE  /\ push'[c].at \in {"off", "room"} /\ \A d \in Contexts : d # c => push'[d] = push[d]
           /\ push[c].word = push[c].len => ~Mid(push', c)
           /\ push[c].word # push[c].len =>
                Mid(push', c) /\ push'[c].no = push[c].no /\ push'[c].len = push[c].len
                /\ push'[c].word = push[c].word + 1
<1>1. push[c] \in PushState /\ push \in [Contexts -> PushState] /\ push[c].word \in Nat
  BY Zero DEF BaseInv, PushInv, PushState
<1>2. CASE push[c].word = push[c].len
  <2>1. push' = [push EXCEPT ![c] = PushOff] BY <1>2 DEF Push
  <2> QED BY <1>1, <1>2, <2>1 DEF PushOff, Mid
<1>3. CASE push[c].word # push[c].len
  <2> DEFINE r == [push[c] EXCEPT !.at = "room", !.word = push[c].word + 1]
  <2>1. push' = [push EXCEPT ![c] = r] BY <1>3 DEF Push
  <2>2. r.at = "room" /\ r.no = push[c].no /\ r.len = push[c].len /\ r.word = push[c].word + 1
    BY <1>1 DEF PushState
  <2> HIDE DEF r
  <2>3. push'[c] = r /\ \A d \in Contexts : d # c => push'[d] = push[d] BY <1>1, <2>1
  <2>4. r.word > 0 BY <1>1, <2>2
  <2>5. Mid(push', c) BY <2>2, <2>3, <2>4 DEF Mid
  <2> QED BY <1>3, <2>2, <2>3, <2>5
<1> QED BY <1>2, <1>3

\* A word of the data is pushed.
LEMMA PushWord ==
    ASSUME BaseInv, SendInv, NEW c \in Contexts, Push(c), push[c].word # 0, Quiet' PROVE SendInv'
<1> DEFINE w == <<push[c].no, push[c].word>>
<1>1. /\ push[c] \in PushState /\ push[c].at = "push" /\ push[c].word \in Nat
      /\ push[c].word > 0 /\ push[c].word <= push[c].len
  BY Zero DEF Push, BaseInv, PushInv, PushState
<1>2. UNCHANGED <<wire, left, queued>> /\ tx' = Stored(w) BY DEF Push
<1>3. queued \in Seq(Lengths) /\ Len(queued) \in Nat BY DEF BaseInv, TxInv
<1>4. Mid(push, c) BY <1>1 DEF Mid
<1>5. push[c].no \in 1..Len(queued) /\ push[c].len = queued[push[c].no]
  BY <1>4 DEF SendInv, NumberInv
<1>6. w \in Words /\ w[1] = push[c].no /\ w[2] = push[c].word BY <1>1, <1>3, <1>5 DEF Words
<1> HIDE DEF w
<1>7. /\ push'[c].at \in {"off", "room"} /\ \A d \in Contexts : d # c => push'[d] = push[d]
      /\ push[c].word = push[c].len => ~Mid(push', c)
      /\ push[c].word # push[c].len =>
           Mid(push', c) /\ push'[c].no = push[c].no /\ push'[c].len = push[c].len
           /\ push'[c].word = push[c].word + 1
  BY PushNext
<1>8. NumberInv'
  <2>1. ASSUME NEW d \in Contexts, Mid(push', d)
        PROVE  push'[d].no \in 1..Len(queued) /\ push'[d].len = queued[push'[d].no]
    <3>1. CASE d = c BY <1>5, <1>7, <2>1, <3>1
    <3>2. CASE d # c
      <4>1. Mid(push, d) BY <1>7, <2>1, <3>2 DEF Mid
      <4> QED BY <1>7, <3>2, <4>1 DEF SendInv, NumberInv
    <3> QED BY <3>1, <3>2
  <2>2. Len(queued) + 1 \in Nat /\ Len(queued) + 1 <= Len(queued) + 1 /\ w[1] < Len(queued) + 1
    BY <1>3, <1>5, <1>6
  <2>3. Below(tx', Len(queued) + 1) BY <1>2, <1>6, <2>2, NumbersStay DEF SendInv
  <2> QED BY <1>2, <2>1, <2>3 DEF SendInv, NumberInv
<1>9. ASSUME ~txMixed' PROVE FifoInv' /\ WireInv' /\ RoomInv'
  <2>1. ~txMixed /\ \A d \in Contexts : d # c => ~Mid(push, d) /\ push[d].at # "push"
    BY <1>9, PushAlone DEF SendInv
  <2>2. FifoInv /\ WireInv /\ RoomInv BY <2>1 DEF SendInv, PacketInv
  <2>3. tx' = Append(tx, w) BY <1>1, <1>2, <2>2 DEF RoomInv, Stored
  <2>4. ~Idle(push) BY <1>4 DEF Idle
  <2>5. Extends(queued, queued') BY <1>2, <1>3 DEF Extends
  <2>6. ASSUME NEW v \in Words, v[1] \in 1..Len(queued), Ends(push, queued, v)
        PROVE  Follows(queued', v, w)
    <3>1. PICK d \in Contexts : Only(push, d) /\ push[d].no = v[1] /\ push[d].word = v[2] + 1
      BY <2>4, <2>6 DEF Ends
    <3>2. d = c BY <1>4, <3>1 DEF Only
    <3>3. v[2] # queued[v[1]] BY <2>4, <2>6 DEF Ends
    <3>4. w = <<v[1], v[2] + 1>> BY <3>1, <3>2 DEF w
    <3> QED BY <1>2, <3>3, <3>4 DEF Follows
  <2>7. Ends(push', queued', w)
    <3>1. \A d \in Contexts : d # c => ~Mid(push', d) BY <1>7, <2>1 DEF Mid
    <3>2. CASE push[c].word = push[c].len
      <4>1. Idle(push') BY <1>7, <3>1, <3>2 DEF Idle
      <4> QED BY <1>2, <1>5, <1>6, <3>2, <4>1 DEF Ends
    <3>3. CASE push[c].word # push[c].len
      <4>1. Only(push', c) BY <1>7, <3>1, <3>3 DEF Only
      <4> QED BY <1>2, <1>5, <1>6, <1>7, <3>3, <4>1 DEF Ends
    <3> QED BY <3>2, <3>3
  <2>8. w[1] \in 1..Len(queued') /\ w[2] <= queued'[w[1]] BY <1>1, <1>2, <1>5, <1>6
  <2>9. FifoInv' BY <1>2, <1>3, <1>6, <2>2, <2>3, <2>5, <2>6, <2>7, <2>8, FifoGrows
  <2>10. WireInv' BY <1>2, <1>3, <1>6, <2>2, <2>3, <2>4, <2>5, <2>6, WireGrows
  <2>11. RoomInv' BY <1>7, <2>1 DEF RoomInv
  <2> QED BY <2>9, <2>10, <2>11
<1> QED BY <1>8, <1>9 DEF SendInv, PacketInv

LEMMA PushSend ==
    ASSUME BaseInv, SendInv, NEW c \in Contexts, Push(c) PROVE SendInv'
<1>1. UNCHANGED rx /\ push[c].at = "push" /\ (c = "loop" => rx["irq"].at = "off")
  BY DEF Push, Runs, rxVars
<1>2. Quiet'
  <2>1. CASE c = "irq"
    <3>1. rx["irq"].at # "off" BY <1>1, <2>1 DEF SendInv, Quiet
    <3> QED BY <1>1, <3>1 DEF Quiet
  <2>2. CASE c = "loop"
    <3>1. push'["irq"] = push["irq"]
      <4>1. CASE push[c].word = 0 BY <2>2, <4>1 DEF Push, BaseInv, PushInv, Contexts
      <4>2. CASE push[c].word # 0 BY <2>2, <4>2, PushNext DEF Contexts
      <4> QED BY <4>1, <4>2
    <3> QED BY <1>1, <3>1 DEF SendInv, Quiet
  <2> QED BY <2>1, <2>2 DEF Contexts
<1> QED BY <1>2, PushLength, PushWord

-----------------------------------------------------------------------------
(* The controller takes a word. *)

LEMMA FifoTail ==
    ASSUME BaseInv, FifoInv, tx # <<>>, tx' = Tail(tx), UNCHANGED <<push, queued>>
    PROVE  /\ FifoInv'
           /\ tx[1] \in Words /\ tx[1][1] \in 1..Len(queued) /\ tx[1][2] <= queued[tx[1][1]]
           /\ IF tx' = <<>> THEN Ends(push, queued, tx[1]) ELSE Follows(queued, tx[1], tx'[1])
<1>1. tx \in Seq(Words) /\ Len(tx) \in Nat BY DEF BaseInv, TxInv
<1>2. /\ tx' \in Seq(Words) /\ 1 \in 1..Len(tx) /\ tx[1] \in Words
      /\ Len(tx') = Len(tx) - 1
      /\ \A k \in 1..Len(tx') : tx'[k] = tx[k + 1] /\ k + 1 \in 1..Len(tx)
  BY <1>1, TailOne
<1>3. ASSUME NEW k \in 1..Len(tx')
      PROVE  tx'[k][1] \in 1..Len(queued) /\ tx'[k][2] <= queued[tx'[k][1]]
  BY <1>2 DEF FifoInv
<1>4. ASSUME NEW k \in 1..(Len(tx') - 1) PROVE Follows(queued, tx'[k], tx'[k + 1])
  <2>1. k + 1 \in 1..(Len(tx) - 1) /\ k \in 1..Len(tx') /\ k + 1 \in 1..Len(tx') BY <1>1, <1>2
  <2>2. tx'[k] = tx[k + 1] /\ tx'[k + 1] = tx[(k + 1) + 1] BY <1>2, <2>1
  <2> QED BY <2>1, <2>2 DEF FifoInv
<1>5. ASSUME tx' # <<>> PROVE Len(tx') \in 1..Len(tx') /\ 1 \in 1..Len(tx') BY <1>2, <1>5
<1>6. ASSUME tx' # <<>> PROVE Ends(push, queued, tx'[Len(tx')])
  <2>1. tx'[Len(tx')] = tx[Len(tx)] BY <1>1, <1>2, <1>5, <1>6
  <2> QED BY <2>1 DEF FifoInv
<1>7. FifoInv' BY <1>3, <1>4, <1>6 DEF FifoInv
<1>8. tx' = <<>> => Ends(push, queued, tx[1])
  <2>1. tx' = <<>> => Len(tx') = 0 OBVIOUS
  <2>2. tx' = <<>> => Len(tx) = 1 BY <1>1, <1>2, <2>1
  <2> QED BY <2>2 DEF FifoInv
<1>9. ASSUME tx' # <<>> PROVE Follows(queued, tx[1], tx'[1])
  <2>1. tx'[1] = tx[1 + 1] BY <1>2, <1>5, <1>9
  <2>2. 1 \in 1..(Len(tx) - 1) BY <1>2, <1>5, <1>9
  <2> QED BY <2>1, <2>2 DEF FifoInv
<1> QED BY <1>2, <1>7, <1>8, <1>9 DEF FifoInv

\* The numbers in a list of frames that grows by one.
LEMMA AllBelowMore ==
    ASSUME NEW l \in Seq(Seq(Words)), NEW s \in Seq(Words), NEW m \in Nat,
           AllBelow(l, m), Below(s, m)
    PROVE  AllBelow(Append(l, s), m)
<1>1. /\ Len(Append(l, s)) = Len(l) + 1 /\ Len(l) \in Nat
      /\ \A k \in 1..Len(l) : Append(l, s)[k] = l[k]
      /\ Append(l, s)[Len(l) + 1] = s
  BY AppendOne
<1>2. ASSUME NEW k \in 1..(Len(l) + 1) PROVE Below(Append(l, s)[k], m)
  <2>1. CASE k = Len(l) + 1 BY <1>1, <2>1
  <2>2. CASE k # Len(l) + 1
    <3>1. k \in 1..Len(l) BY <1>1, <2>2
    <3> QED BY <1>1, <3>1 DEF AllBelow
  <2> QED BY <2>1, <2>2
<1> QED BY <1>1, <1>2 DEF AllBelow

LEMMA DrainNumbers ==
    ASSUME BaseInv, NumberInv, Drain PROVE NumberInv'
<1> DEFINE n == Len(queued) + 1
           s == Append(wire.data, tx[1])
<1>1. UNCHANGED <<push, queued>> /\ tx # <<>> /\ tx' = Tail(tx) BY DEF Drain
<1>2. tx \in Seq(Words) /\ n \in Nat /\ wire.data \in Seq(Words) /\ left \in Seq(Seq(Words))
  BY DEF BaseInv, TxInv, HistoryInv
<1>3. /\ Head(tx) = tx[1] /\ 1 \in 1..Len(tx) /\ tx[1] \in Words
      /\ \A k \in 1..Len(tx') : tx'[k] = tx[k + 1] /\ k + 1 \in 1..Len(tx)
  BY <1>1, <1>2, TailOne
<1>4. Below(tx, n) /\ Below(wire.data, n) /\ AllBelow(left, n) BY DEF NumberInv
<1>5. tx[1][1] < n BY <1>3, <1>4 DEF Below
<1>6. s \in Seq(Words) BY <1>2, <1>3
<1> HIDE DEF n
<1>7. Below(tx', n) BY <1>3, <1>4 DEF Below
<1>8. Below(s, n) BY <1>2, <1>3, <1>4, <1>5, BelowMore
<1> HIDE DEF s
<1>9. AllBelow(Append(left, s), n) BY <1>2, <1>4, <1>6, <1>8, AllBelowMore
<1>10. wire'.data \in {<<>>, s} /\ left' \in {left, Append(left, s)}
  BY <1>3 DEF Drain, s
<1>11. Below(wire'.data, n) BY <1>8, <1>10 DEF Below
<1>12. AllBelow(left', n) BY <1>4, <1>9, <1>10
<1>13. NumberInv'
  <2>1. queued' = queued /\ push' = push BY <1>1
  <2>2. Len(queued') + 1 = n BY <2>1 DEF n
  <2> QED BY <1>7, <1>11, <1>12, <2>1, <2>2 DEF NumberInv
<1> QED BY <1>13

\* The controller takes a length.
LEMMA LengthOf ==
    ASSUME BaseInv, NEW p \in 1..Len(queued) PROVE queued[p] \in Nat /\ queued[p] > 0 /\ p \in Nat
<1>1. queued \in Seq(Lengths) /\ Len(queued) \in Nat BY DEF BaseInv, TxInv
<1>2. queued[p] \in Lengths /\ p \in Nat BY <1>1
<1> QED BY <1>2, Zero DEF Lengths

LEMMA DrainLength ==
    ASSUME BaseInv, FifoInv, WireInv, Drain, wire.todo = 0 PROVE WireInv' /\ left' = left
<1>1. UNCHANGED <<push, queued, left>> /\ tx # <<>> /\ tx' = Tail(tx) BY DEF Drain
<1>2. /\ tx[1] \in Words /\ tx[1][1] \in 1..Len(queued) /\ tx[1][2] <= queued[tx[1][1]]
      /\ IF tx' = <<>> THEN Ends(push, queued, tx[1]) ELSE Follows(queued, tx[1], tx'[1])
  BY <1>1, FifoTail
<1>3. tx[1][2] = 0 /\ AllBelow(left, tx[1][1]) BY <1>1 DEF WireInv, AtStart
<1>4. PICK p : p \in 1..Len(queued) /\ tx[1] = <<p, 0>> /\ AllBelow(left, p)
  <2>1. tx[1] = <<tx[1][1], 0>> BY <1>2, <1>3 DEF Words
  <2> QED BY <1>2, <1>3, <2>1
<1>5. PICK n : n = queued[p] OBVIOUS
<1>6. n \in Nat /\ n > 0 BY <1>4, <1>5, LengthOf
<1>7. wire' = [todo |-> n, data |-> <<>>]
  <2>1. Head(tx) = tx[1] BY <1>1
  <2>2. Head(tx)[2] = 0 /\ Head(tx)[1] = p BY <1>4, <2>1
  <2> QED BY <1>5, <2>2 DEF Drain
<1>8. wire'.todo = n /\ wire'.data = <<>> BY <1>7
<1>9. n - n = 0 /\ n <= n BY <1>6
<1>10. <<>> = [i \in 1..0 |-> <<p, i>>] OBVIOUS
<1>11. Tied(tx', push', queued', <<p, 0>>) BY <1>1, <1>2, <1>4 DEF Tied
<1>12. queued'[p] = n /\ p \in 1..Len(queued') /\ AllBelow(left', p) BY <1>1, <1>4, <1>5
<1>13. OnWire(p)' BY <1>8, <1>9, <1>10, <1>11, <1>12 DEF OnWire
<1>14. wire'.todo # 0 BY <1>6, <1>8
<1> QED BY <1>1, <1>12, <1>13, <1>14 DEF WireInv

\* The controller takes a word of a packet's data, the packet's next.
LEMMA WordOnWire ==
    ASSUME BaseInv, FifoInv, WireInv, Drain, wire.todo > 0
    PROVE  \E p \in 1..Len(queued) :
              /\ OnWire(p) /\ wire.todo \in Nat /\ queued[p] \in Nat /\ wire.todo <= queued[p]
              /\ tx[1] = <<p, queued[p] - wire.todo + 1>>
              /\ Append(wire.data, Head(tx)) = [i \in 1..(queued[p] - wire.todo + 1) |-> <<p, i>>]
<1>1. tx # <<>> BY DEF Drain
<1>2. wire.todo # 0 /\ wire.todo \in Nat
  <2>1. wire.todo \in 0..MaxWords BY DEF BaseInv, HistoryInv
  <2> QED BY <2>1, Zero
<1>3. PICK p : p \in 1..Len(queued) /\ OnWire(p) BY <1>2 DEF WireInv
<1>4. queued[p] \in Nat /\ p \in Nat BY <1>3, LengthOf
<1>5. wire.todo <= queued[p] BY <1>3 DEF OnWire
<1> DEFINE j == queued[p] - wire.todo
<1>6. j \in Nat /\ j # queued[p] /\ j + 1 \in Nat \ {0} /\ (j + 1) - 1 = j BY <1>2, <1>4, <1>5
<1>7. Follows(queued, <<p, j>>, tx[1]) BY <1>1, <1>3 DEF OnWire, Tied
<1>8. wire.data = [i \in 1..j |-> <<p, i>>] BY <1>3 DEF OnWire
<1>9. Head(tx) = tx[1] BY <1>1
<1> HIDE DEF j
<1>10. tx[1] = <<p, j + 1>> BY <1>6, <1>7 DEF Follows
<1>11. Append([i \in 1..((j + 1) - 1) |-> <<p, i>>], <<p, j + 1>>) = [i \in 1..(j + 1) |-> <<p, i>>]
  BY <1>4, <1>6, FrameGrows
<1>12. Append(wire.data, Head(tx)) = [i \in 1..(j + 1) |-> <<p, i>>]
  BY <1>6, <1>8, <1>9, <1>10, <1>11
<1> QED BY <1>2, <1>3, <1>4, <1>5, <1>10, <1>12 DEF j

\* Either it goes on with the packet, or a frame leaves that is new and whole.
LEMMA DrainWord ==
    ASSUME BaseInv, FifoInv, WireInv, Drain, wire.todo > 0
    PROVE  /\ WireInv'
           /\ \/ left' = left
              \/ \E p \in 1..Len(queued) :
                    Outward!Fresh(p) /\ left' = Append(left, Outward!Frame(p))
<1>1. /\ UNCHANGED <<push, queued>> /\ tx # <<>> /\ tx' = Tail(tx)
      /\ wire' = [todo |-> wire.todo - 1,
                  data |-> IF wire.todo = 1 THEN <<>> ELSE Append(wire.data, Head(tx))]
      /\ left' = IF wire.todo = 1 THEN Append(left, Append(wire.data, Head(tx))) ELSE left
  BY DEF Drain
<1>2. PICK p : /\ p \in 1..Len(queued)
               /\ OnWire(p) /\ wire.todo \in Nat /\ queued[p] \in Nat /\ wire.todo <= queued[p]
               /\ tx[1] = <<p, queued[p] - wire.todo + 1>>
               /\ Append(wire.data, Head(tx)) = [i \in 1..(queued[p] - wire.todo + 1) |-> <<p, i>>]
  BY WordOnWire
<1>3. IF tx' = <<>> THEN Ends(push, queued, tx[1]) ELSE Follows(queued, tx[1], tx'[1])
  BY <1>1, FifoTail
<1>4. AllBelow(left, p) BY <1>2 DEF OnWire
<1>5. left \in Seq(Seq(Words)) /\ queued \in Seq(Lengths) BY DEF BaseInv, HistoryInv, TxInv
<1> DEFINE n == queued[p]
<1>6. n \in Nat \ {0} /\ p \in Nat BY <1>2, LengthOf
<1>7. CASE wire.todo > 1
  <2>1. wire' = [todo |-> wire.todo - 1, data |-> Append(wire.data, Head(tx))] /\ left' = left
    <3>1. wire.todo # 1 BY <1>2, <1>7
    <3> QED BY <1>1, <3>1
  <2>2. wire'.todo = wire.todo - 1 /\ wire'.data = Append(wire.data, Head(tx)) BY <2>1
  <2>3. wire'.todo <= n /\ wire'.todo # 0 /\ n - wire'.todo = n - wire.todo + 1
    BY <1>2, <1>7, <2>2
  <2>4. queued'[p] = n BY <1>1
  <2> HIDE DEF n
  <2>5. tx[1] = <<p, n - wire'.todo>> BY <1>2, <2>3 DEF n
  <2>6. Tied(tx', push', queued', tx[1]) BY <1>1, <1>3 DEF Tied
  <2>7. Tied(tx', push', queued', <<p, n - wire'.todo>>) BY <2>5, <2>6
  <2>8. wire'.data = [i \in 1..(n - wire'.todo) |-> <<p, i>>] BY <1>2, <2>2, <2>3 DEF n
  <2>9. OnWire(p)' BY <1>4, <2>1, <2>3, <2>4, <2>7, <2>8 DEF OnWire
  <2> QED BY <1>1, <1>2, <2>1, <2>3, <2>9 DEF WireInv
<1>8. CASE ~(wire.todo > 1)
  <2>1. wire.todo = 1 BY <1>2, <1>8
  <2>2. wire'.todo = 0 BY <1>1, <2>1
  <2>3. n - wire.todo + 1 = n BY <1>6, <2>1
  <2> HIDE DEF n
  <2>4. tx[1] = <<p, n>> /\ Append(wire.data, Head(tx)) = [i \in 1..n |-> <<p, i>>]
    BY <1>2, <2>3 DEF n
  <2>5. [i \in 1..n |-> <<p, i>>] = Outward!Frame(p) BY DEF Outward!Frame, n
  <2>6. left' = Append(left, Outward!Frame(p)) BY <1>1, <2>1, <2>4, <2>5
  <2>7. Outward!Fresh(p)
    <3>1. ASSUME NEW k \in 1..Len(left), left[k] = [i \in 1..n |-> <<p, i>>] PROVE FALSE
      <4>1. Below(left[k], p) BY <1>4 DEF AllBelow
      <4>2. Len(left[k]) = n /\ left[k][1] = <<p, 1>> /\ 1 \in 1..n BY <1>6, <3>1
      <4>3. left[k][1][1] < p BY <4>1, <4>2 DEF Below
      <4> QED BY <1>6, <4>2, <4>3
    <3> QED BY <2>5, <3>1 DEF Outward!Fresh
  <2>8. AtStart'
    <3>1. CASE tx' = <<>>
      <4>1. Ends(push, queued, <<p, n>>) BY <1>3, <2>4, <3>1
      <4> QED BY <1>1, <3>1, <4>1 DEF AtStart, Ends, n
    <3>2. CASE tx' # <<>>
      <4>1. Follows(queued, <<p, n>>, tx'[1]) BY <1>3, <2>4, <3>2
      <4>2. tx'[1][2] = 0 /\ p < tx'[1][1] BY <4>1 DEF Follows, n
      <4>3. tx'[1] \in Words
        <5>1. tx' \in Seq(Words)
          <6>1. tx \in Seq(Words) BY DEF BaseInv, TxInv
          <6> QED BY <1>1, <6>1, TailOne
        <5> QED BY <3>2, <5>1, TailOne
      <4> DEFINE m == tx'[1][1]
      <4>4. m \in Nat /\ p < m BY <4>2, <4>3 DEF Words
      <4> HIDE DEF m
      <4>5. [i \in 1..n |-> <<p, i>>] \in Seq(Words) /\ Below([i \in 1..n |-> <<p, i>>], m)
        BY <1>6, <4>4 DEF Words, Below
      <4>6. AllBelow(left, m)
        <5>1. \A k \in 1..Len(left) : left[k] \in Seq(Words) /\ Below(left[k], p)
          BY <1>4, <1>5 DEF AllBelow
        <5>2. p <= m BY <1>6, <4>4
        <5> QED BY <1>6, <4>4, <5>1, <5>2, BelowMore DEF AllBelow
      <4>7. AllBelow(left', m) BY <1>5, <2>5, <2>6, <4>4, <4>5, <4>6, AllBelowMore
      <4> QED BY <3>2, <4>2, <4>7 DEF AtStart, m
    <3> QED BY <3>1, <3>2
  <2> QED BY <1>2, <2>2, <2>6, <2>7, <2>8 DEF WireInv
<1> QED BY <1>7, <1>8

LEMMA DrainSend ==
    ASSUME BaseInv, SendInv, Drain PROVE SendInv'
<1>1. UNCHANGED <<rx, push, queued, txMixed>> /\ tx # <<>> /\ tx' = Tail(tx) BY DEF Drain, rxVars
<1>2. NumberInv' BY DrainNumbers DEF SendInv
<1>3. Quiet' BY <1>1 DEF SendInv, Quiet
<1>4. ASSUME ~txMixed' PROVE FifoInv' /\ WireInv' /\ RoomInv'
  <2>1. FifoInv /\ WireInv /\ RoomInv BY <1>1, <1>4 DEF SendInv, PacketInv
  <2>2. FifoInv' BY <1>1, <2>1, FifoTail
  <2>3. WireInv'
    <3>1. wire.todo \in 0..MaxWords BY DEF BaseInv, HistoryInv
    <3>2. wire.todo = 0 \/ wire.todo > 0 BY <3>1, Zero
    <3> QED BY <2>1, <3>2, DrainLength, DrainWord
  <2>4. RoomInv'
    <3>1. tx \in Seq(Words) /\ Len(tx) \in Nat /\ Len(tx') = Len(tx) - 1
      BY <1>1, TailOne DEF BaseInv, TxInv
    <3>2. Len(tx) < TxRoom => Len(tx') < TxRoom BY <3>1, Zero
    <3> QED BY <1>1, <2>1, <3>2 DEF RoomInv
  <2> QED BY <2>2, <2>3, <2>4
<1> QED BY <1>2, <1>3, <1>4 DEF SendInv, PacketInv

LEMMA StepSend ==
    ASSUME BaseInv, SendInv, NEW c \in Contexts, Step(c) PROVE SendInv'
<1>1. CASE Header(c)
  <2>1. CASE Reset(c) BY <1>1, <2>1, ResetSend DEF Header
  <2>2. CASE ~Reset(c)
    <3>1. UNCHANGED txVars BY <1>1, <2>2 DEF Header
    <3> QED BY <1>1, <3>1, ReceiveSend
  <2> QED BY <2>1, <2>2
<1>2. CASE Test(c) \/ Wait(c) \/ Pop(c)
  <2>1. UNCHANGED txVars BY <1>2 DEF Test, Wait, Pop
  <2> QED BY <1>2, <2>1, ReceiveSend
<1> QED BY <1>1, <1>2, InputSend, RoomSend, PushSend DEF Step

LEMMA NextSend == BaseInv /\ SendInv /\ [Next]_vars => SendInv'
<1> SUFFICES ASSUME BaseInv, SendInv, [Next]_vars PROVE SendInv' OBVIOUS
<1>1. CASE UNCHANGED vars
  <2>1. UNCHANGED <<rx, tx, push, queued, wire, left, txMixed>> BY <1>1 DEF vars, rxVars, txVars
  <2>2. Quiet' BY <2>1 DEF SendInv, Quiet
  <2> QED BY <2>1, <2>2, NoPush
<1>2. CASE Arrive \/ Trap \/ mac_poll
  <2>1. UNCHANGED txVars BY <1>2 DEF Arrive, Trap, mac_poll
  <2> QED BY <1>2, <2>1, ReceiveSend
<1> QED BY <1>1, <1>2, TimerSend, DrainSend, StepSend DEF Next

-----------------------------------------------------------------------------
(* Every step is one of FrameChannel for the packets, too. *)

LEMMA InitOutward == Init => Outward!Init
  BY DEF Init, Outward!Init

LEMMA StepOutward ==
    ASSUME BaseInv, SendInv, BaseInv', [Next]_vars
    PROVE  [Outward!Next]_(Outward!channel)
<1> SUFFICES ASSUME ~txMixed, ~txMixed' PROVE [Outward!Next]_(Outward!channel)
  BY DEF Outward!Next
<1>1. txMixed' = txMixed
  <2>1. txMixed \in BOOLEAN /\ txMixed' \in BOOLEAN BY DEF BaseInv, HistoryInv
  <2> QED BY <2>1
<1>2. ASSUME NEW c \in Contexts, Push(c) PROVE [Outward!Next]_(Outward!channel)
  <2>1. left' = left BY <1>2 DEF Push
  <2>2. CASE push[c].word = 0
    <3>1. queued' = Append(queued, push[c].len) BY <1>2, <2>2 DEF Push
    <3>2. queued \in Seq(Lengths) /\ push[c].len \in Lengths
      BY <1>2 DEF Push, BaseInv, TxInv, PushInv
    <3>3. Len(queued') = Len(queued) + 1 /\ \A f \in 1..Len(queued) : queued'[f] = queued[f]
      BY <3>1, <3>2, AppendOne
    <3> QED BY <1>1, <2>1, <3>3 DEF Outward!Next, Outward!Offer
  <2>3. CASE push[c].word # 0
    <3>1. queued' = queued BY <1>2, <2>3 DEF Push
    <3> QED BY <1>1, <2>1, <3>1 DEF Outward!channel
  <2> QED BY <2>2, <2>3
<1>3. CASE Drain
  <2>1. queued' = queued BY <1>3 DEF Drain
  <2>2. FifoInv /\ WireInv BY DEF SendInv, PacketInv
  <2>3. CASE left' = left BY <1>1, <2>1, <2>3 DEF Outward!channel
  <2>4. CASE left' # left
    <3>1. wire.todo > 0 BY <1>3, <2>4 DEF Drain
    <3>2. \E p \in 1..Len(queued) : Outward!Fresh(p) /\ left' = Append(left, Outward!Frame(p))
      BY <1>3, <2>2, <2>4, <3>1, DrainWord
    <3> QED BY <1>1, <2>1, <3>2 DEF Outward!Next, Outward!Deliver
  <2> QED BY <2>3, <2>4
<1>4. CASE UNCHANGED <<queued, left>> BY <1>1, <1>4 DEF Outward!channel
<1>5. ASSUME ~Drain, \A c \in Contexts : ~Push(c) PROVE UNCHANGED <<queued, left>>
  BY <1>5 DEF Next, Arrive, Trap, mac_poll, TimerSends, Step, Test, Header, Reset, Wait, Pop,
              Input, Room, vars, txVars
<1> QED BY <1>2, <1>3, <1>4, <1>5

\* Unless the handler pushes within a packet of the loop's, packets leave whole
\* and once, for packets and FIFOs of any size, whatever the controller's resets
\* discard.
THEOREM DriverSendsWhole == Spec => FramesLeaveWhole
<1> DEFINE IInv == BaseInv /\ SendInv
<1>1. Init => IInv BY InitBase, InitSend
<1>2. IInv /\ [Next]_vars => IInv' BY NextBase, NextSend
<1>3. IInv /\ IInv' /\ [Next]_vars => [Outward!Next]_(Outward!channel) BY StepOutward
<1> QED
  BY InitOutward, <1>1, <1>2, <1>3, PTL DEF Spec, FramesLeaveWhole, Outward!Spec
=============================================================================
