---------------------------- MODULE ConsoleInput ----------------------------
(***************************************************************************)
(* The console's input buffer.  UART0's interrupt appends what was typed   *)
(* on the serial line, the event loop appends what was typed on the USB    *)
(* keyboard and takes what is there for the command line.                  *)
(*                                                                         *)
(* The handler runs to its end before the loop goes on and is one step;    *)
(* the loop's steps are its accesses to the buffer and to its volatile     *)
(* length.  Bytes are numbered in the order in which they were accepted.   *)
(* Which of put_queue()'s stores comes first, that of the length or that   *)
(* of the byte, is the compiler's choice.                                  *)
(***************************************************************************)
EXTENDS Integers

CONSTANTS Size,         \* CONSOLE_RX_BUF_SIZE
          StringLen,    \* length of what puts_queue() appends
          FifoDepth,    \* receive FIFO of UART0
          MaxArrivals,  \* bound on the bytes that come over the line
          MaxKeys       \* bound on the keys that are pressed

ASSUME ConsoleAssumption ==
    /\ Size \in Nat \ {0} /\ StringLen \in Nat \ {0}
    /\ FifoDepth \in Nat \ {0}
    /\ MaxArrivals \in Nat /\ MaxKeys \in Nat

\* Keys that append a character, two (ESC first), or a string.
Kinds == {"char", "pair", "string"}

\* The buffer and what an append that was overtaken can reach behind it.
Cells == 0..(Size + StringLen)

Points == {"events", "poll", "lock", "copy", "reset", "work",
           "put_test", "put_read", "grow_first", "store_last", "store_first", "grow_last",
           "put_end", "put_zero", "puts_test", "puts_copy", "puts_read", "puts_write", "notify"}

VARIABLES arrivals,   \* bytes that came over the line so far
          fifo,       \* bytes in the receive FIFO of UART0
          cells,      \* console_rx_buf and the memory behind it
          len,        \* console_rx_buf_len
          flag,       \* events_console_poll
          mie,        \* mstatus.MIE
          loop,       \* where the event loop is
          key,        \* the key served: characters left to put, quiet: it raises no event
          reg,        \* the length as the loop has read it
          byte,       \* the character being put
          keys,       \* keys so far
          accepted,   \* history: bytes accepted so far
          settled,    \* history: of those, bytes taken from the buffer
          raced,      \* history: an append was overtaken since the last take
          silent      \* history: a key that raises no event was put since then

input == <<arrivals, fifo>>
vars == <<input, cells, len, flag, mie, loop, key, reg, byte, keys, accepted, settled,
          raced, silent>>

TypeOK ==
    /\ arrivals \in 0..MaxArrivals /\ fifo \in 0..FifoDepth
    /\ cells \in [Cells -> Nat] /\ len \in Cells
    /\ flag \in BOOLEAN /\ mie \in BOOLEAN
    /\ loop \in Points
    /\ key \in [left: 1..2, quiet: BOOLEAN]
    /\ reg \in Cells /\ byte \in Nat /\ keys \in 0..MaxKeys
    /\ accepted \in Nat /\ settled \in 0..accepted
    /\ raced \in BOOLEAN /\ silent \in BOOLEAN

Init ==
    /\ arrivals = 0 /\ fifo = 0
    /\ cells = [i \in Cells |-> 0] /\ len = 0
    /\ flag = FALSE /\ mie = TRUE
    /\ loop = "events" /\ key = [left |-> 1, quiet |-> FALSE]
    /\ reg = 0 /\ byte = 0 /\ keys = 0
    /\ accepted = 0 /\ settled = 0
    /\ raced = FALSE /\ silent = FALSE

-----------------------------------------------------------------------------
(* The serial line and the interrupt handler. *)

Arrive ==
    /\ arrivals < MaxArrivals /\ fifo < FifoDepth
    /\ arrivals' = arrivals + 1 /\ fifo' = fifo + 1
    /\ UNCHANGED <<cells, len, flag, mie, loop, key, reg, byte, keys, accepted, settled,
                   raced, silent>>

\* Within an append, the handler's bytes may be stored over, or over the
\* append's, and one of the two lengths is lost.
Windows == {"put_read", "grow_first", "store_first", "grow_last", "put_zero",
            "puts_copy", "puts_read", "puts_write"}

Room == IF len >= Size THEN 0 ELSE Size - len

\* A bug: a full buffer is noticed one byte late.
FitsOneMore == IF fifo <= Room + 1 THEN fifo ELSE Room + 1

\* The bytes console_rx() keeps; what the buffer has no room for is dropped.
Fits == IF fifo <= Room THEN fifo ELSE Room

\* UART0's branch of externalInterrupt(): console_rx() and the event.
console_rx ==
    /\ mie /\ fifo > 0
    /\ fifo' = 0
    /\ cells' = [i \in Cells |-> IF len <= i /\ i < len + Fits THEN accepted + 1 + i - len
                                 ELSE cells[i]]
    /\ len' = len + Fits
    /\ accepted' = accepted + Fits
    /\ raced' = (raced \/ (Fits > 0 /\ loop \in Windows))
    /\ flag' = TRUE
    /\ UNCHANGED <<arrivals, mie, loop, key, reg, byte, keys, settled, silent>>

-----------------------------------------------------------------------------
(* process_and_wait() and console_poll(). *)

CheckFlag ==
    /\ loop = "events"
    /\ flag' = FALSE
    /\ loop' = IF flag THEN "poll" ELSE "work"
    /\ UNCHANGED <<input, cells, len, mie, key, reg, byte, keys, accepted, settled,
                   raced, silent>>

\* A bug: the test for an empty buffer is off by one.
PollForTwo ==
    /\ loop = "poll"
    /\ loop' = IF len <= 1 THEN "work" ELSE "lock"
    /\ UNCHANGED <<input, cells, len, flag, mie, key, reg, byte, keys, accepted, settled,
                   raced, silent>>

Poll ==
    /\ loop = "poll"
    /\ loop' = IF len = 0 THEN "work" ELSE "lock"
    /\ UNCHANGED <<input, cells, len, flag, mie, key, reg, byte, keys, accepted, settled,
                   raced, silent>>

\* A bug: the interrupts stay on.
LockMissing ==
    /\ loop = "lock"
    /\ loop' = "copy"
    /\ UNCHANGED <<input, cells, len, flag, mie, key, reg, byte, keys, accepted, settled,
                   raced, silent>>

Lock ==
    /\ loop = "lock"
    /\ mie' = FALSE
    /\ loop' = "copy"
    /\ UNCHANGED <<input, cells, len, flag, key, reg, byte, keys, accepted, settled,
                   raced, silent>>

\* rx_len, in reg, and the copy.
Copy ==
    /\ loop = "copy"
    /\ reg' = IF len < Size THEN len ELSE Size
    /\ loop' = "reset"
    /\ UNCHANGED <<input, cells, len, flag, mie, key, byte, keys, accepted, settled,
                   raced, silent>>

\* The buffer is empty and the interrupts are on again; the history starts
\* afresh after an append that was overtaken.
Reset ==
    /\ loop = "reset"
    /\ len' = 0 /\ mie' = TRUE
    /\ settled' = IF raced THEN accepted ELSE settled + reg
    /\ raced' = FALSE /\ silent' = FALSE
    /\ loop' = "work"
    /\ UNCHANGED <<input, cells, flag, key, reg, byte, keys, accepted>>

-----------------------------------------------------------------------------
(* kbd_hid_keycode() after a report of the keyboard: any number of keys. *)

NoKey ==
    /\ loop = "work"
    /\ loop' = "events"
    /\ UNCHANGED <<input, cells, len, flag, mie, key, reg, byte, keys, accepted, settled,
                   raced, silent>>

\* A key has a callback or not: k_self(), k_lowercase(), k_fn() and k_cur() call
\* theirs, k_unicode(), k_shift(), k_ascii() and the keypad's 5 have none, and
\* neither has k_meta(), the only one with two characters.
Key(kind, quiet) ==
    /\ loop = "work" /\ keys < MaxKeys
    /\ kind = "pair" => quiet
    /\ keys' = keys + 1
    /\ key' = [left |-> IF kind = "pair" THEN 2 ELSE 1, quiet |-> quiet]
    /\ loop' = IF kind = "string" THEN "puts_test" ELSE "put_test"
    /\ UNCHANGED <<input, cells, len, flag, mie, reg, byte, accepted, settled,
                   raced, silent>>

\* The next character, or the end of the key.
AfterChar ==
    IF key.left > 1 THEN loop' = "put_test" /\ key' = [key EXCEPT !.left = @ - 1]
                    ELSE loop' = "notify" /\ UNCHANGED key

\* put_queue(): the character is refused when the buffer is full.
PutTest ==
    /\ loop = "put_test"
    /\ IF len >= Size THEN AfterChar ELSE loop' = "put_read" /\ UNCHANGED key
    /\ UNCHANGED <<input, cells, len, flag, mie, reg, byte, keys, accepted, settled,
                   raced, silent>>

\* buffer[(*len)++] = ch: the length is read, ...
PutRead ==
    /\ loop = "put_read"
    /\ reg' = len
    /\ byte' = accepted + 1 /\ accepted' = accepted + 1
    /\ loop' \in {"grow_first", "store_first"}
    /\ UNCHANGED <<input, cells, len, flag, mie, key, keys, settled, raced, silent>>

\* ... one more is stored as the length, ...
PutGrow ==
    /\ loop \in {"grow_first", "grow_last"}
    /\ len' = reg + 1
    /\ loop' = IF loop = "grow_first" THEN "store_last" ELSE "put_end"
    /\ UNCHANGED <<input, cells, flag, mie, key, reg, byte, keys, accepted, settled,
                   raced, silent>>

\* ... and the character is stored.
PutStore ==
    /\ loop \in {"store_first", "store_last"}
    /\ cells' = [cells EXCEPT ![reg] = byte]
    /\ loop' = IF loop = "store_first" THEN "grow_last" ELSE "put_end"
    /\ UNCHANGED <<input, len, flag, mie, key, reg, byte, keys, accepted, settled,
                   raced, silent>>

\* buffer[*len] = 0: the length is read again, ...
PutEnd ==
    /\ loop = "put_end"
    /\ reg' = len
    /\ loop' = "put_zero"
    /\ UNCHANGED <<input, cells, len, flag, mie, key, byte, keys, accepted, settled,
                   raced, silent>>

\* ... and the zero is stored.
PutZero ==
    /\ loop = "put_zero"
    /\ cells' = [cells EXCEPT ![reg] = 0]
    /\ AfterChar
    /\ UNCHANGED <<input, len, flag, mie, reg, byte, keys, accepted, settled, raced, silent>>

\* puts_queue(): the string is refused unless some room is left behind it.
PutsTest ==
    /\ loop = "puts_test"
    /\ loop' = IF len + StringLen >= Size THEN "notify" ELSE "puts_copy"
    /\ UNCHANGED <<input, cells, len, flag, mie, key, reg, byte, keys, accepted, settled,
                   raced, silent>>

\* memcpy() to where the length now points, ...
PutsCopy ==
    /\ loop = "puts_copy"
    /\ cells' = [i \in Cells |-> IF len <= i /\ i < len + StringLen
                                   THEN accepted + 1 + i - len ELSE cells[i]]
    /\ accepted' = accepted + StringLen
    /\ loop' = "puts_read"
    /\ UNCHANGED <<input, len, flag, mie, key, reg, byte, keys, settled, raced, silent>>

\* ... and *len += n, a read ...
PutsRead ==
    /\ loop = "puts_read"
    /\ reg' = len
    /\ loop' = "puts_write"
    /\ UNCHANGED <<input, cells, len, flag, mie, key, byte, keys, accepted, settled,
                   raced, silent>>

\* ... and a write.
PutsWrite ==
    /\ loop = "puts_write"
    /\ len' = reg + StringLen
    /\ loop' = "notify"
    /\ UNCHANGED <<input, cells, flag, mie, key, reg, byte, keys, accepted, settled,
                   raced, silent>>

\* A bug: no key raises the event.
NotifyNever ==
    /\ loop = "notify"
    /\ loop' = "work"
    /\ silent' = (silent \/ key.quiet)
    /\ UNCHANGED <<input, cells, len, flag, mie, key, reg, byte, keys, accepted, settled,
                   raced>>

\* The key's callback raises the event, if it has one; the report may hold
\* another key.
Notify ==
    /\ loop = "notify"
    /\ loop' = "work"
    /\ flag' = (flag \/ ~key.quiet)
    /\ silent' = (silent \/ key.quiet)
    /\ UNCHANGED <<input, cells, len, mie, key, reg, byte, keys, accepted, settled,
                   raced>>

-----------------------------------------------------------------------------
console_poll == Poll \/ Lock \/ Copy \/ Reset
put_queue == PutTest \/ PutRead \/ PutGrow \/ PutStore \/ PutEnd \/ PutZero
puts_queue == PutsTest \/ PutsCopy \/ PutsRead \/ PutsWrite

Loop == CheckFlag \/ console_poll \/ NoKey \/ put_queue \/ puts_queue \/ Notify

Next == Arrive \/ console_rx \/ Loop \/ \E kind \in Kinds, quiet \in BOOLEAN : Key(kind, quiet)

(* The processor runs: a handler whose line is high, and the loop.  Nobody  *)
(* need ever type anything.                                                *)
Fairness == WF_vars(console_rx) /\ WF_vars(Loop)
Spec == Init /\ [][Next]_vars /\ Fairness

-----------------------------------------------------------------------------
\* Between two appends of the keyboard the buffer holds, in order, exactly
\* the bytes accepted from line and keyboard since it was last emptied.
Kept == /\ settled + len = accepted
        /\ \A i \in Cells : i < len => cells[i] = settled + 1 + i

AtRest == loop \in {"events", "poll", "lock", "copy", "reset", "work",
                    "put_test", "puts_test", "notify"}

\* (put_queue(), puts_queue(), console_rx() and console_poll() share it: an
\* interrupt does harm only within an append, and only until the next take.)
BytesKept == AtRest /\ ~raced => Kept

\* Where the loop has seen the buffer to hold something, or is about to.
Taking == {"poll", "lock", "copy", "reset"}

\* Where a key's event is still to come.
Appending == Windows \union {"store_last", "put_test", "put_end", "puts_test", "notify"}

\* No wake-up is lost: the event is up as long as bytes wait that nobody is
\* about to take or to raise it for, unless the last of them was put by a key
\* that raises none.  (The loop takes the event down before console_poll()
\* looks at the length, and console_rx() and the keys raise it after they have
\* changed it.)
BytesAnnounced == len > 0 /\ ~silent => flag \/ loop \in Taking \union Appending

\* What is in the buffer is taken, however interrupt, key and poll come
\* together, unless the last of it was put by a key that raises no event.
\* (main.c takes the event down before it polls.)
BytesTaken == len > 0 /\ ~silent ~> len = 0 \/ silent
=============================================================================
