------------------------------ MODULE BoardLinks ------------------------------
(***************************************************************************)
(* The board's two links: to the ESP32 over a UART driven by DMA, and to a *)
(* desktop over USB.                                                       *)
(*   rf5340 src/modules/esp_conn.c and src/modules/wire.c                  *)
(*                                                                         *)
(* Drivers call back from interrupts, between any two steps of a thread.   *)
(* What a command of the ESP32 does to the mode is AuracastSink's matter.  *)
(* The UART driver, the peers and the writers' callers are external.       *)
(***************************************************************************)
EXTENDS Naturals, FiniteSets

CONSTANTS RxLineQueueDepth,  \* RX_LINE_QUEUE_DEPTH
          TapNames           \* the taps of the wire

ASSUME BoardLinksAssumption == RxLineQueueDepth \in Nat

VARIABLES esp_tx,       \* writer -> what esp_write is at
          esp_tx_done,  \* tx_done_sem
          uart_tx,      \* the driver: whose line it sends, and whether it is aborting
          tx_timed_out, \* a completion has not come in time
          esp_rx,       \* the driver: the buffer it fills, the one after, and whether it asks
          rx_in_use,    \* rx_buf_a_in_use and rx_buf_b_in_use
          rx_line,      \* rx_line_pos and rx_discard: nothing, a part, or an overlong line
          rx_lines,     \* how many lines rx_line_msgq holds
          wire_rx,      \* the wire's thread: what it is at, and what it read of the command
          wire_ready,   \* rx_ready: the last line, and the semaphore
          taps
espVars == <<esp_tx, esp_tx_done, uart_tx, tx_timed_out, esp_rx, rx_in_use, rx_line, rx_lines>>
wireVars == <<wire_rx, wire_ready, taps>>
boardLinksVars == <<espVars, wireVars>>

Writers == {"answer", "report"}   \* the receive thread, and whoever reports or announces
Nobody == "nobody"
NoBuffer == "none"
NoLine == [verb |-> "none", tap |-> "none"]
WireLines == {NoLine} \cup [verb : {"tap_enable", "tap_disable", "unknown"}, tap : TapNames]

BoardLinksInit ==
    /\ esp_tx = [w \in Writers |-> "idle"]
    /\ esp_tx_done = FALSE
    /\ uart_tx = [line |-> Nobody, aborting |-> FALSE]
    /\ tx_timed_out = FALSE
    /\ esp_rx = [cur |-> "a", next |-> NoBuffer, asks |-> TRUE]
    /\ rx_in_use = {"a"}
    /\ rx_line = "empty"
    /\ rx_lines = 0
    /\ wire_rx = [at |-> "host", verb |-> "none"]
    /\ wire_ready = [line |-> NoLine, given |-> FALSE]
    /\ taps = {}

-----------------------------------------------------------------------------
(* esp_conn.c: sending.                                                    *)

rxVars == <<esp_rx, rx_in_use, rx_line, rx_lines>>
Mutex(w) == \A v \in Writers : esp_tx[v] = "idle"
Goes(w, to) == esp_tx' = [esp_tx EXCEPT ![w] = to]

\* esp_write: the mutex, and the old completions drained.  An answer is for a line of the
\* queue (handle_line); a line without an id is answered by nobody.
WriteBegins(w) ==
    /\ Mutex(w)
    /\ w = "answer" => rx_lines > 0
    /\ rx_lines' = IF w = "answer" THEN rx_lines - 1 ELSE rx_lines
    /\ Goes(w, "drained")
    /\ esp_tx_done' = FALSE
    /\ UNCHANGED <<uart_tx, tx_timed_out, esp_rx, rx_in_use, rx_line, wireVars>>

LineIgnored ==
    /\ esp_tx["answer"] = "idle" /\ rx_lines > 0
    /\ rx_lines' = rx_lines - 1
    /\ UNCHANGED <<esp_tx, esp_tx_done, uart_tx, tx_timed_out, esp_rx, rx_in_use, rx_line, wireVars>>

\* uart_tx refuses while the driver still sends.
TxStart(w) ==
    /\ esp_tx[w] = "drained"
    /\ IF uart_tx.line = Nobody THEN Goes(w, "waiting") /\ uart_tx' = [uart_tx EXCEPT !.line = w]
       ELSE Goes(w, "idle") /\ UNCHANGED uart_tx
    /\ UNCHANGED <<esp_tx_done, tx_timed_out, rxVars, wireVars>>

\* UART_TX_DONE and UART_TX_ABORTED
TxEvent ==
    /\ uart_tx.line # Nobody
    /\ uart_tx' = [line |-> Nobody, aborting |-> FALSE]
    /\ esp_tx_done' = TRUE
    /\ UNCHANGED <<esp_tx, tx_timed_out, rxVars, wireVars>>

TxCompleted(w) ==
    /\ esp_tx[w] = "waiting" /\ esp_tx_done
    /\ esp_tx_done' = FALSE
    /\ Goes(w, "idle")
    /\ UNCHANGED <<uart_tx, tx_timed_out, rxVars, wireVars>>

\* The abort is not waited for.
TxTimeout(w) ==
    /\ esp_tx[w] = "waiting" /\ ~esp_tx_done
    /\ uart_tx' = [uart_tx EXCEPT !.aborting = (uart_tx.line # Nobody)]
    /\ tx_timed_out' = TRUE
    /\ Goes(w, "idle")
    /\ UNCHANGED <<esp_tx_done, rxVars, wireVars>>

-----------------------------------------------------------------------------
(* esp_conn.c: receiving, in the driver's interrupt.                       *)

txVars_ == <<esp_tx, esp_tx_done, uart_tx, tx_timed_out>>

\* rx_process_byte, for a part of a line, its end, or one byte too many.
RxBytes(what) ==
    /\ rx_line' = CASE what = "end" -> "empty"
                    [] what = "overflow" /\ rx_line = "part" -> "discard"
                    [] what = "part" /\ rx_line = "empty" -> "part"
                    [] OTHER -> rx_line
    /\ rx_lines' = IF what = "end" /\ rx_line = "part" /\ rx_lines < RxLineQueueDepth
                   THEN rx_lines + 1 ELSE rx_lines
    /\ UNCHANGED <<txVars_, esp_rx, rx_in_use, wireVars>>

\* UART_RX_BUF_REQUEST: rx_acquire_spare_buffer
RxBufRequest ==
    /\ esp_rx.asks
    /\ LET free == {"a", "b"} \ rx_in_use
           spare == IF "a" \in free THEN "a" ELSE IF free # {} THEN "b" ELSE NoBuffer
       IN  /\ esp_rx' = [esp_rx EXCEPT !.next = spare, !.asks = FALSE]
           /\ rx_in_use' = rx_in_use \cup ({spare} \ {NoBuffer})
    /\ UNCHANGED <<txVars_, rx_line, rx_lines, wireVars>>

\* Mutant: the flags are left as the released buffers left them.
RestartedInUse == {}
RestartInUse == {"a"}
\* UART_RX_DISABLED, when both buffers are released: a line that was begun goes on.
RxRestarts ==
    /\ rx_in_use' = RestartInUse
    /\ esp_rx' = [cur |-> "a", next |-> NoBuffer, asks |-> TRUE]

\* A full buffer is released, the next one filled; without one the receiver stops.
RxBufFull ==
    /\ IF esp_rx.next = NoBuffer THEN RxRestarts
       ELSE /\ rx_in_use' = rx_in_use \ {esp_rx.cur}
            /\ esp_rx' = [cur |-> esp_rx.next, next |-> NoBuffer, asks |-> TRUE]
    /\ UNCHANGED <<txVars_, rx_line, rx_lines, wireVars>>

\* UART_RX_STOPPED: an error on the line.
RxStopped ==
    /\ RxRestarts
    /\ UNCHANGED <<txVars_, rx_line, rx_lines, wireVars>>

-----------------------------------------------------------------------------
(* wire.c: the commands that open and close taps.                          *)

\* wire_rx_thread_fn waits for the host, then lets lines in.
WireHostOpens ==
    /\ wire_rx.at = "host"
    /\ wire_rx' = [wire_rx EXCEPT !.at = "wait"]
    /\ UNCHANGED <<espVars, wire_ready, taps>>

\* uart_irq_handler: the line before is overwritten, read or not.
WireLine(line) ==
    /\ wire_rx.at # "host"
    /\ wire_ready' = [line |-> line, given |-> TRUE]
    /\ UNCHANGED <<espVars, wire_rx, taps>>

WireTake ==
    /\ wire_rx.at = "wait" /\ wire_ready.given
    /\ wire_ready' = [wire_ready EXCEPT !.given = FALSE]
    /\ wire_rx' = [wire_rx EXCEPT !.at = "verb"]
    /\ UNCHANGED <<espVars, taps>>

\* wire_process_cmd reads rx_ready twice: for what to do, and for the tap.
WireVerb ==
    /\ wire_rx.at = "verb"
    /\ wire_rx' = [at |-> IF wire_ready.line.verb = "unknown" THEN "wait" ELSE "tap",
                   verb |-> wire_ready.line.verb]
    /\ UNCHANGED <<espVars, wire_ready, taps>>

WireTap ==
    /\ wire_rx.at = "tap"
    /\ wire_rx' = [at |-> "wait", verb |-> "none"]
    /\ taps' = IF wire_rx.verb = "tap_enable" THEN taps \cup {wire_ready.line.tap}
               ELSE taps \ {wire_ready.line.tap}
    /\ UNCHANGED <<espVars, wire_ready>>

BoardLinksNext == \/ \E w \in Writers :
                         \/ WriteBegins(w)
                         \/ TxStart(w)
                         \/ TxCompleted(w)
                         \/ TxTimeout(w)
                  \/ LineIgnored
                  \/ TxEvent
                  \/ \E what \in {"part", "end", "overflow"} : RxBytes(what)
                  \/ RxBufRequest
                  \/ RxBufFull
                  \/ RxStopped
                  \/ WireHostOpens
                  \/ \E line \in WireLines \ {NoLine} : WireLine(line)
                  \/ WireTake
                  \/ WireVerb
                  \/ WireTap

-----------------------------------------------------------------------------
BoardLinksTypeOK ==
    /\ esp_tx \in [Writers -> {"idle", "drained", "waiting"}]
    /\ esp_tx_done \in BOOLEAN /\ tx_timed_out \in BOOLEAN
    /\ uart_tx \in [line : Writers \cup {Nobody}, aborting : BOOLEAN]
    /\ esp_rx \in [cur : {"a", "b"}, next : {"a", "b", NoBuffer}, asks : BOOLEAN]
    /\ rx_in_use \subseteq {"a", "b"}
    /\ rx_line \in {"empty", "part", "discard"}
    /\ rx_lines \in 0..RxLineQueueDepth
    /\ wire_rx \in [at : {"host", "wait", "verb", "tap"}, verb : {"none", "tap_enable", "tap_disable", "unknown"}]
    /\ wire_ready \in [line : WireLines, given : BOOLEAN]
    /\ taps \subseteq TapNames

\* The buffers the DMA fills are two, and the ones marked in use, over every error and
\* restart; and a line it reads is on the stack of a writer that is still in esp_write, as
\* long as no completion was late.
DmaOwnsItsBuffers ==
    /\ esp_rx.cur # esp_rx.next
    /\ rx_in_use = {esp_rx.cur, esp_rx.next} \ {NoBuffer}
    /\ (~tx_timed_out /\ uart_tx.line # Nobody) => esp_tx[uart_tx.line] = "waiting"

\* Commands that come faster than they are read get lost or mixed up, but the last one
\* takes effect: no tap stays open that was closed last.
LastCommandHolds ==
    (wire_rx.at = "wait" /\ ~wire_ready.given)
        => /\ wire_ready.line.verb = "tap_enable" => wire_ready.line.tap \in taps
           /\ wire_ready.line.verb = "tap_disable" => wire_ready.line.tap \notin taps

\* What interrupts and threads share on the two links stays coherent, with no lock
\* between them.
SharedBuffersHold == DmaOwnsItsBuffers /\ LastCommandHolds
=============================================================================
