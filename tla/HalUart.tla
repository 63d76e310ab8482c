------------------------------ MODULE HalUart -------------------------------
(***************************************************************************)
(* The UART driver of the terminal (halstm32f4/hal/uart/hal_uart.c).       *)
(* Tasks put bytes into a queue and then enable the interrupt "transmit    *)
(* register empty"; the handler moves them to the transmit register and    *)
(* disables it when there are none.  Received bytes go the other way.      *)
(*                                                                         *)
(* The handler runs on a single core: no task runs while it does, but the  *)
(* UART goes on sending and receiving between any two of its accesses.     *)
(***************************************************************************)
EXTENDS Naturals, Sequences

CONSTANTS
  Bytes,
  None,
  Writers,      (* tasks that print                                       *)
  TxLen,        (* HAL_UART_QUEUE_TX_LEN                                  *)
  RxLen         (* HAL_UART_QUEUE_RX_LEN                                  *)

ASSUME HalUartAssumption ==
  /\ None \notin Bytes
  /\ TxLen \in Nat \ {0}
  /\ RxLen \in Nat \ {0}

VARIABLES
  txq, rxq,     (* hal_uart_queue_tx, hal_uart_queue_rx                   *)
  txe,          (* the interrupt "transmit register empty" is enabled     *)
  tdr, rdr,     (* the registers, None when empty                         *)
  ore,          (* a byte was overrun                                     *)
  irq,          (* where the handler is, "out" when it does not run       *)
  enabling,     (* writers that have put a byte and not enabled txe yet   *)
  resetting,    (* the shell task is between the two halves of a reset    *)
  put, sent,    (* history: flip with each byte put, sent,                *)
  received, got,  (* received, and read by the shell                      *)
  settled       (* history: no more Ctrl-C                                *)

history == <<put, sent, received, got>>
vars == <<txq, rxq, txe, tdr, rdr, ore, irq, enabling, resetting,
          history, settled>>

Init ==
  /\ txq = <<>> /\ rxq = <<>> /\ txe = FALSE
  /\ tdr = None /\ rdr = None /\ ore = FALSE
  /\ irq = "out" /\ enabling = {} /\ resetting = FALSE
  /\ put = FALSE /\ sent = FALSE /\ received = FALSE /\ got = FALSE
  /\ settled = FALSE

-----------------------------------------------------------------------------
(* The tasks.                                                              *)

\* hal_uart_putc: waits for room in the queue, then enables the interrupt.
Put(w) ==
  /\ irq = "out"
  /\ w \notin enabling
  /\ Len(txq) < TxLen
  /\ \E b \in Bytes : txq' = Append(txq, b)
  /\ enabling' = enabling \union {w}
  /\ put' = ~ put
  /\ UNCHANGED <<rxq, txe, tdr, rdr, ore, irq, resetting, sent, received, got, settled>>

Enable_Bug(w) ==
  /\ irq = "out"
  /\ w \in enabling
  /\ enabling' = enabling \ {w}
  /\ txe' = (txe \/ Len(txq) = TxLen)             \* only when it is full
  /\ UNCHANGED <<txq, rxq, tdr, rdr, ore, irq, resetting, history, settled>>

Enable(w) ==
  /\ irq = "out"
  /\ w \in enabling
  /\ enabling' = enabling \ {w}
  /\ txe' = TRUE
  /\ UNCHANGED <<txq, rxq, tdr, rdr, ore, irq, resetting, history, settled>>

\* hal_uart_getc, by the shell task.
Get ==
  /\ irq = "out"
  /\ ~ resetting
  /\ rxq # <<>>
  /\ got' = ~ got
  /\ rxq' = Tail(rxq)
  /\ UNCHANGED <<txq, txe, tdr, rdr, ore, irq, enabling, resetting, put, sent,
                 received, settled>>

\* hal_uart_reset, by the shell task on Ctrl-C: one queue, then the other.
ResetRx ==
  /\ irq = "out"
  /\ ~ settled
  /\ ~ resetting
  /\ resetting' = TRUE
  /\ rxq' = <<>>
  /\ UNCHANGED <<txq, txe, tdr, rdr, ore, irq, enabling, history, settled>>

ResetTx ==
  /\ irq = "out"
  /\ resetting
  /\ resetting' = FALSE
  /\ txq' = <<>>
  /\ UNCHANGED <<rxq, txe, tdr, rdr, ore, irq, enabling, history, settled>>

\* From here on nobody presses Ctrl-C.
Settle ==
  /\ ~ resetting
  /\ ~ settled
  /\ settled' = TRUE
  /\ UNCHANGED <<txq, rxq, txe, tdr, rdr, ore, irq, enabling, resetting, history>>

-----------------------------------------------------------------------------
(* The handler, HAL_UARTx_IRQHandler: three questions to the UART.         *)

IrqPending == (txe /\ tdr = None) \/ rdr # None \/ ore

IrqTx_Bug ==
  /\ irq = "out" /\ IrqPending
  /\ irq' = "rx"
  /\ IF txe /\ tdr = None /\ txq # <<>>
       THEN tdr' = Head(txq) /\ txq' = Tail(txq) /\ UNCHANGED txe
       ELSE txe' = FALSE /\ UNCHANGED <<tdr, txq>>   \* also while it is busy
  /\ UNCHANGED <<rxq, rdr, ore, enabling, resetting, history, settled>>

IrqTx_Overwrite ==
  /\ irq = "out" /\ IrqPending
  /\ irq' = "rx"
  /\ IF txe /\ txq # <<>>                         \* the flag TXE is not asked
       THEN tdr' = Head(txq) /\ txq' = Tail(txq) /\ UNCHANGED txe
       ELSE txe' = FALSE /\ UNCHANGED <<tdr, txq>>
  /\ UNCHANGED <<rxq, rdr, ore, enabling, resetting, history, settled>>

IrqTx ==
  /\ irq = "out" /\ IrqPending
  /\ irq' = "rx"
  /\ \/ /\ txe /\ tdr = None /\ txq # <<>>
        /\ tdr' = Head(txq) /\ txq' = Tail(txq)
        /\ UNCHANGED txe
     \/ /\ txe /\ tdr = None /\ txq = <<>>
        /\ txe' = FALSE
        /\ UNCHANGED <<tdr, txq>>
     \/ /\ ~ (txe /\ tdr = None)
        /\ UNCHANGED <<txe, tdr, txq>>
  /\ UNCHANGED <<rxq, rdr, ore, enabling, resetting, history, settled>>

IrqRx_Full ==
  /\ irq = "rx"
  /\ irq' = "ore"
  /\ rxq' = IF rdr # None THEN Append(rxq, rdr) ELSE rxq   \* full or not
  /\ rdr' = None
  /\ UNCHANGED <<txq, txe, tdr, ore, enabling, resetting, history, settled>>

IrqRx_Bug ==
  /\ irq = "rx"
  /\ irq' = "ore"
  /\ rxq' = IF rdr # None /\ Len(rxq) < RxLen THEN Append(rxq, rdr) ELSE rxq
  /\ UNCHANGED <<rdr, txq, txe, tdr, ore, enabling, resetting, history, settled>>
                                                  \* looked at, not taken

\* A byte that finds the queue full is dropped.  Reading the register also
\* takes back the overrun, if it was there when the status was read.
IrqRx ==
  /\ irq = "rx"
  /\ irq' = "ore"
  /\ rdr' = None
  /\ rxq' = IF rdr # None /\ Len(rxq) < RxLen THEN Append(rxq, rdr) ELSE rxq
  /\ IF rdr # None THEN ore' \in {ore, FALSE} ELSE UNCHANGED ore
  /\ UNCHANGED <<txq, txe, tdr, enabling, resetting, history, settled>>

\* After an overrun the register is read once more, whatever is in it by now.
IrqOre ==
  /\ irq = "ore"
  /\ irq' = "out"
  /\ rdr' = IF ore THEN None ELSE rdr
  /\ ore' = FALSE
  /\ UNCHANGED <<txq, rxq, txe, tdr, enabling, resetting, history, settled>>

Irq == IrqTx \/ IrqRx \/ IrqOre

-----------------------------------------------------------------------------
(* The UART.                                                               *)

Send ==
  /\ tdr # None
  /\ sent' = ~ sent
  /\ tdr' = None
  /\ UNCHANGED <<txq, rxq, txe, rdr, ore, irq, enabling, resetting, put,
                 received, got, settled>>

Receive(b) ==
  /\ IF rdr = None THEN rdr' = b /\ UNCHANGED ore
                   ELSE ore' = TRUE /\ UNCHANGED rdr
  /\ received' = (received # (rdr = None))
  /\ UNCHANGED <<txq, rxq, txe, tdr, irq, enabling, resetting, put, sent, got, settled>>

Next ==
  \/ \E w \in Writers : Put(w) \/ Enable(w)
  \/ Get \/ ResetRx \/ ResetTx \/ Settle
  \/ Irq
  \/ Send \/ \E b \in Bytes : Receive(b)

\* The UART shifts bytes out at its own pace, an enabled interrupt is served,
\* and a task that has put its byte gets to enable the interrupt, however often
\* the handler interrupts it: it waits for nothing any more.
Fairness ==
  /\ WF_vars(Send)
  /\ WF_vars(Irq)
  /\ \A w \in Writers : SF_vars(Enable(w))

Spec == Init /\ [][Next]_vars /\ Fairness

-----------------------------------------------------------------------------
InRegister(r) == IF r = None THEN <<>> ELSE <<r>>

TypeOK ==
  /\ txq \in Seq(Bytes) /\ Len(txq) <= TxLen
  /\ rxq \in Seq(Bytes) /\ Len(rxq) <= RxLen
  /\ txe \in BOOLEAN /\ ore \in BOOLEAN
  /\ tdr \in Bytes \union {None} /\ rdr \in Bytes \union {None}
  /\ irq \in {"out", "rx", "ore"}
  /\ enabling \subseteq Writers
  /\ resetting \in BOOLEAN /\ settled \in BOOLEAN
  /\ put \in BOOLEAN /\ sent \in BOOLEAN /\ received \in BOOLEAN /\ got \in BOOLEAN

\* No byte waits in the queue with nobody to take it out: the interrupt is
\* enabled, or a task is about to enable it, although the handler disables it
\* at any time between the two steps of a put (hal_uart.c:136-146, 190-193).
NoByteStranded == txq # <<>> => txe \/ enabling # {}

\* Bytes of all tasks leave in the order of their puts, each once; only a
\* reset by Ctrl-C loses any, namely those in the queue (hal_uart.c:136-141,
\* 167-175).
Tx == INSTANCE ByteChannel WITH pending <- InRegister(tdr) \o txq,
                                ins <- put, outs <- sent
TransmitsInOrder == Tx!Spec

\* What the shell reads is what was received in that order, each byte at most
\* once, although bytes are dropped by a full queue, an overrun and a reset
\* (hal_uart.c:150-160).
Rx == INSTANCE ByteChannel WITH pending <- rxq \o InRegister(rdr), 
                                ins <- received, outs <- got, settled <- FALSE
ReceivesInOrder == Rx!Spec

\* When the tasks have stopped printing, or are all waiting for room in the
\* queue, everything they have put leaves.
LastByteLeaves == <>[](enabling = {}) => []<>(txq = <<>> /\ tdr = None)
=============================================================================
