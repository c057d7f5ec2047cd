-------------------------------- MODULE Uart --------------------------------
(***************************************************************************)
(* Output to the UART (uart.c): write() puts characters into a ring under  *)
(* uart_tx_lock and sleeps when it is full; echo and printf() write to the *)
(* device without the lock when it is idle; an interrupt says that it has  *)
(* become idle.  Looking at the device (LSR) and writing to it (THR) are   *)
(* steps of their own: two CPUs may see it idle at the same time.          *)
(*                                                                         *)
(* A character of the ring is its number; Echo is one written directly.    *)
(***************************************************************************)
EXTENDS Naturals, Sequences

CONSTANTS Writers, Printers, Handler, Nobody,
          UART_TX_BUF_SIZE,
          FIFO,       \* characters that the device takes before it is idle again
          MaxOut      \* bound on the characters of the ring and of each printer

VARIABLES
  tx_w, tx_r,   \* uart_tx_w and uart_tx_r; the ring is what is between them
  txlock,       \* holder of uart_tx_lock
  fifo,         \* characters in the device
  line,         \* characters that have left it
  overrun,      \* a character came when the device was full
  txirq,        \* the device requests an interrupt
  ua,           \* place of a writer, a printer or the handler
  echoed        \* characters written directly

vars == <<tx_w, tx_r, txlock, fifo, line, overrun, txirq, ua, echoed>>
Echo == MaxOut
Agents == Writers \cup Printers \cup {Handler}

Init ==
  /\ tx_w = 0 /\ tx_r = 0
  /\ txlock = Nobody
  /\ fifo = <<>> /\ line = <<>>
  /\ overrun = FALSE /\ txirq = FALSE
  /\ ua = [a \in Agents |-> "idle"]
  /\ echoed = 0

Goto(a, where) == ua' = [ua EXCEPT ![a] = where]
TxIdle == fifo = <<>>

\* Slip: uartinit() leaves the device's queue disabled.
Depth_one == 1
Depth == FIFO

\* WriteReg(THR, c)
Transmit(c) ==
  /\ overrun' = (overrun \/ Len(fifo) >= Depth)
  /\ fifo' = IF Len(fifo) >= Depth THEN fifo ELSE Append(fifo, c)

-----------------------------------------------------------------------------
\* uartputc(): the writer waits for room, or stores its character.
UartputcFull(a) ==
  /\ ua[a] \in {"idle", "woken"} /\ txlock = Nobody
  /\ tx_w < MaxOut
  /\ tx_w = tx_r + UART_TX_BUF_SIZE
  /\ Goto(a, "sleep")
  /\ UNCHANGED <<tx_w, tx_r, txlock, fifo, line, overrun, txirq, echoed>>

Uartputc(a) ==
  /\ ua[a] \in {"idle", "woken"} /\ txlock = Nobody
  /\ tx_w < MaxOut
  /\ tx_w # tx_r + UART_TX_BUF_SIZE
  /\ txlock' = a
  /\ tx_w' = tx_w + 1
  /\ Goto(a, "start")
  /\ UNCHANGED <<tx_r, fifo, line, overrun, txirq, echoed>>

\* uartintr(): the handler has no input left and comes to the output.
UartIntr ==
  /\ ua[Handler] = "idle" /\ txirq
  /\ txlock = Nobody
  /\ txirq' = FALSE
  /\ txlock' = Handler
  /\ Goto(Handler, "start")
  /\ UNCHANGED <<tx_w, tx_r, fifo, line, overrun, echoed>>

\* uartstart(): nothing to send or the device is busy ...
UartstartReturn(a) ==
  /\ ua[a] = "start"
  /\ tx_w = tx_r \/ ~TxIdle
  /\ txlock' = Nobody
  /\ Goto(a, "idle")
  /\ UNCHANGED <<tx_w, tx_r, fifo, line, overrun, txirq, echoed>>

\* ... or it is seen idle ...
UartstartLook(a) ==
  /\ ua[a] = "start"
  /\ tx_w # tx_r /\ TxIdle
  /\ Goto(a, "send")
  /\ UNCHANGED <<tx_w, tx_r, txlock, fifo, line, overrun, txirq, echoed>>

Woken(a) == ua[a] = "sleep"

\* ... and gets the next character, and a sleeping writer is woken.
UartstartSend(a) ==
  /\ ua[a] = "send"
  /\ tx_r' = tx_r + 1
  /\ Transmit(tx_r)
  /\ ua' = [b \in Agents |-> IF b = a THEN "start" ELSE IF Woken(b) THEN "woken" ELSE ua[b]]
  /\ UNCHANGED <<tx_w, txlock, line, txirq, echoed>>

\* uartputc_sync(): spin until the device is idle, then write.
SyncLook(a) ==
  /\ ua[a] = "idle" /\ echoed < MaxOut
  /\ TxIdle
  /\ Goto(a, "thr")
  /\ echoed' = echoed + 1
  /\ UNCHANGED <<tx_w, tx_r, txlock, fifo, line, overrun, txirq>>

SyncSend(a) ==
  /\ ua[a] = "thr"
  /\ Transmit(Echo)
  /\ Goto(a, "idle")
  /\ UNCHANGED <<tx_w, tx_r, txlock, line, txirq, echoed>>

\* The device sends a character, and interrupts when it was the last.
DeviceSends ==
  /\ fifo # <<>>
  /\ line' = Append(line, Head(fifo))
  /\ fifo' = Tail(fifo)
  /\ txirq' = (txirq \/ Len(fifo) = 1)
  /\ UNCHANGED <<tx_w, tx_r, txlock, overrun, ua, echoed>>

-----------------------------------------------------------------------------
AgentStep(a) == UartstartReturn(a) \/ UartstartLook(a) \/ UartstartSend(a)

Next ==
  \/ \E a \in Writers : UartputcFull(a) \/ Uartputc(a)
  \/ \E a \in Writers \cup {Handler} : AgentStep(a)
  \/ \E a \in Printers : SyncLook(a) \/ SyncSend(a)
  \/ UartIntr \/ DeviceSends

-----------------------------------------------------------------------------
RingChars(s) == SelectSeq(s, LAMBDA c : c # Echo)

\* What write() put into the ring leaves the machine complete and in order,
\* whatever is echoed in between: the device is never given more than it holds
\* by CPUs that saw it idle together, and it is not left idle with characters
\* waiting and nobody to look; a writer sleeps only while the ring is full.
OutputFlows ==
  /\ ~overrun
  /\ LET out == RingChars(line \o fifo) IN out = [k \in 1 .. tx_r |-> k - 1]
  /\ tx_w # tx_r /\ TxIdle =>
       txirq \/ \E a \in Agents : ua[a] \in {"start", "send", "thr"}
  /\ \A a \in Writers : ua[a] = "sleep" => tx_w = tx_r + UART_TX_BUF_SIZE
=============================================================================
