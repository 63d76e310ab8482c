------------------------------- MODULE VcpTx --------------------------------
(***************************************************************************)
(* The output of the terminal over USB (halstm32f4/hal/vcp/hal_usb_uart.c, *)
(* usbd_cdc_if.c).  Tasks put bytes into a queue; a task collects them in  *)
(* one of two banks while the other one is sent, and a semaphore that the  *)
(* end of a transfer gives back says when the next may start.              *)
(*                                                                         *)
(* The host comes and goes: a reset of the bus or SET_CONFIGURATION(0)     *)
(* ends a transfer without its completion (external: the USB stack of ST,  *)
(* and the host).  Interrupts come between any two steps of the tasks.     *)
(***************************************************************************)
EXTENDS Naturals, Sequences

CONSTANTS
  Bytes,
  None,
  QLen,         (* length of hal_vcp_tx_queue                             *)
  BLen          (* length of a bank; both HAL_VCP_TX_QUEUE_LEN            *)

ASSUME VcpTxAssumption ==
  /\ None \notin Bytes
  /\ None \notin {1, 2} \X Nat
  /\ QLen \in Nat \ {0}
  /\ BLen \in Nat \ {0}

Banks == {1, 2}

VARIABLES
  queue,        (* hal_vcp_tx_queue                                       *)
  buf, len,     (* hal_vcp_tx_buf1, _buf2 and their _len                  *)
  bank,         (* hal_vcp_tx_use_buf2                                    *)
  sem,          (* hal_vcp_tx_sem: 0 or 1                                 *)
  broken,       (* shell_driver_write: the connection is taken for broken *)
  pc, c,        (* task_vcp_tx: where it is, the byte in its hand         *)
  config,       (* hUsbDeviceFS.dev_config # 0                            *)
  class,        (* hUsbDeviceFS.pClassData # NULL                         *)
  txbuf,        (* hcdc->TxBuffer, TxLength: <<bank, length>> between     *)
                (* setting and using them, otherwise None                 *)
  busy,         (* hcdc->TxState                                          *)
  sending,      (* <<bank, length>> of the transfer under way, or None    *)
  aborted,      (* history: a transfer was ended without completion       *)
  put, sent,    (* history: flip with each byte put, each transfer sent   *)
  settled       (* history: host and keyboard do not interfere any more   *)

taskVars == <<bank, pc, c>>
usbVars == <<config, class, txbuf, busy, sending, aborted>>
writerVars == <<broken, put>>
vars == <<queue, buf, len, sem, taskVars, usbVars, writerVars, sent, settled>>

Init ==
  /\ queue = <<>>
  /\ buf = [k \in Banks |-> [i \in 1 .. BLen |-> None]]
  /\ len = [k \in Banks |-> 0]
  /\ bank = 1 /\ sem = 1
  /\ broken = FALSE
  /\ pc = "first" /\ c = None
  /\ config = FALSE /\ class = FALSE
  /\ txbuf = None /\ busy = FALSE /\ sending = None
  /\ aborted = FALSE /\ put = FALSE /\ sent = FALSE /\ settled = FALSE

-----------------------------------------------------------------------------
(* shell_driver_write, byte by byte, by any number of tasks.               *)

Accept ==
  /\ Len(queue) < QLen
  /\ \E b \in Bytes : queue' = Append(queue, b)
  /\ put' = ~ put

\* Room within VCP_WRITE_BLOCK_AUTO_ADAPTED_BLOCK_TICK.  A task that began to
\* wait before broken was set takes no notice of it, here and in GiveUp.
Write ==
  /\ Accept
  /\ UNCHANGED <<broken, buf, len, sem, taskVars, usbVars, sent, settled>>

GiveUp ==
  /\ Len(queue) = QLen
  /\ broken' = TRUE
  /\ UNCHANGED <<queue, put, buf, len, sem, taskVars, usbVars, sent, settled>>

\* A broken connection: the byte goes into the queue at once or is ignored.
WriteBroken ==
  /\ broken
  /\ \/ Accept /\ broken' = FALSE
     \/ Len(queue) = QLen /\ UNCHANGED <<queue, put, broken>>
  /\ UNCHANGED <<buf, len, sem, taskVars, usbVars, sent, settled>>

\* Ctrl-C, shell_driver_reset.
Reset ==
  /\ ~ settled
  /\ len' = [k \in Banks |-> 0]
  /\ UNCHANGED <<queue, buf, sem, taskVars, usbVars, writerVars, sent, settled>>

-----------------------------------------------------------------------------
(* task_vcp_tx_entry.                                                      *)

At(from, to) ==
  /\ pc = from /\ pc' = to
  /\ UNCHANGED <<writerVars, settled>>

\* A byte from the queue, the first one or one more.
Take(from, to) ==
  /\ At(from, to)
  /\ queue # <<>>
  /\ c' = Head(queue)
  /\ queue' = Tail(queue)
  /\ UNCHANGED <<buf, len, bank, sem, usbVars, sent>>

Begin ==
  /\ At("begin", "fill")
  /\ buf' = [buf EXCEPT ![bank][1] = c]
  /\ len' = [len EXCEPT ![bank] = 1]
  /\ c' = None
  /\ UNCHANGED <<queue, bank, sem, usbVars, sent>>

More_Bug == len[bank] <= BLen /\ Take("fill", "append")

More == len[bank] < BLen /\ Take("fill", "append")

Store ==
  /\ At("append", "count")
  /\ buf' = [buf EXCEPT ![bank][len[bank] + 1] = c]
  /\ c' = None
  /\ UNCHANGED <<queue, len, bank, sem, usbVars, sent>>

Count ==
  /\ At("count", "fill")
  /\ len' = [len EXCEPT ![bank] = @ + 1]
  /\ UNCHANGED <<queue, buf, bank, c, sem, usbVars, sent>>

\* The bank is full or its time is over.
Filled ==
  /\ At("fill", "send")
  /\ UNCHANGED <<queue, buf, len, bank, c, sem, usbVars, sent>>

NextBank_Bug == bank' = bank                      \* one bank for all

NextBank == bank' = 3 - bank

\* No host: the bank is dropped.
Drop ==
  /\ At("send", "first")
  /\ ~ config
  /\ NextBank
  /\ UNCHANGED <<queue, buf, len, c, sem, usbVars, sent>>

\* A host: the task asks for the semaphore, whatever becomes of the host then.
Connected ==
  /\ At("send", "wait")
  /\ config
  /\ UNCHANGED <<queue, buf, len, bank, c, sem, usbVars, sent>>

\* Waits without end for the last transfer to be over.
WaitSent ==
  /\ At("wait", "check")
  /\ sem = 1
  /\ sem' = 0
  /\ UNCHANGED <<queue, buf, len, bank, c, usbVars, sent>>

\* CDC_Transmit_FS up to USBD_CDC_SetTxBuffer.  Without class data it reads
\* TxState through a null pointer; what it finds there, it does not send.
Check ==
  /\ \/ /\ ~ class \/ busy
        /\ At("check", "back")
        /\ UNCHANGED txbuf
     \/ /\ class /\ ~ busy
        /\ At("check", "transmit")
        /\ txbuf' = <<bank, len[bank]>>
  /\ UNCHANGED <<queue, buf, len, bank, c, sem, config, class, busy, sending,
                 aborted, sent>>

\* USBD_CDC_TransmitPacket: what is sent is what the bus driver finds set.
Transmit_Bug ==
  /\ At("transmit", "first")
  /\ NextBank
  /\ busy' = TRUE /\ sending' = txbuf            \* whether there is a host or not
  /\ txbuf' = None
  /\ UNCHANGED <<queue, buf, len, c, sem, config, class, aborted, sent>>

Transmit ==
  /\ \/ /\ class /\ ~ busy
        /\ At("transmit", "first")
        /\ busy' = TRUE /\ sending' = txbuf
        /\ NextBank
     \/ /\ ~ class \/ busy
        /\ At("transmit", "back")
        /\ UNCHANGED <<busy, sending, bank>>
  /\ txbuf' = None
  /\ UNCHANGED <<queue, buf, len, c, sem, config, class, aborted, sent>>

\* Not sent: the semaphore goes back, and the loop asks for a host again.
Back_Bug ==
  /\ At("back", "send")
  /\ UNCHANGED <<queue, buf, len, bank, c, sem, usbVars, sent>>   \* keeps it

Back ==
  /\ At("back", "send")
  /\ sem' = 1
  /\ UNCHANGED <<queue, buf, len, bank, c, usbVars, sent>>

Task ==
  \/ Take("first", "begin") \/ Begin \/ More \/ Store \/ Count \/ Filled
  \/ Drop \/ Connected \/ WaitSent \/ Check \/ Transmit \/ Back

-----------------------------------------------------------------------------
(* Interrupts: the USB stack and the host.                                 *)

\* USBD_CDC_DataIn and its hook.
DataIn ==
  /\ sending # None
  /\ sending' = None
  /\ busy' = FALSE
  /\ sem' = 1
  /\ sent' = ~ sent
  /\ UNCHANGED <<queue, buf, len, taskVars, config, class, txbuf, aborted, writerVars,
                 settled>>

\* A reset of the bus ends a transfer without its completion and leaves
\* dev_config alone (USBD_LL_Reset, also after the cable was pulled);
\* SET_CONFIGURATION(0) clears it (USBD_SetConfig).
HostLeaves ==
  /\ ~ settled
  /\ class
  /\ class' = FALSE
  /\ config' \in {config, FALSE}
  /\ sending' = None
  /\ aborted' = (aborted \/ sending # None)
  /\ UNCHANGED <<queue, buf, len, sem, taskVars, txbuf, busy, writerVars, sent, settled>>

\* SET_CONFIGURATION(1): USBD_CDC_Init calls CDC_Init_FS.
Configure ==
  /\ ~ settled
  /\ ~ class
  /\ class' = TRUE /\ config' = TRUE
  /\ busy' = FALSE
  /\ txbuf' = IF txbuf = None THEN None ELSE <<1, 0>>
  /\ len' = [k \in Banks |-> 0]
  /\ UNCHANGED <<queue, buf, sem, taskVars, sending, aborted, writerVars, sent, settled>>

\* From here on the host stays and nobody presses Ctrl-C.
Settle ==
  /\ ~ settled
  /\ class
  /\ settled' = TRUE
  /\ UNCHANGED <<queue, buf, len, sem, taskVars, usbVars, writerVars, sent>>

Next ==
  \/ Write \/ GiveUp \/ WriteBroken
  \/ Reset
  \/ Task
  \/ DataIn \/ HostLeaves \/ Configure \/ Settle

\* The task has the priority of the shell and gets its share of the time; a
\* host that stays asks for data.
Fairness ==
  /\ WF_vars(Task)
  /\ WF_vars(settled /\ DataIn)

Spec == Init /\ [][Next]_vars /\ Fairness

-----------------------------------------------------------------------------
Labels == {"first", "begin", "fill", "append", "count", "send", "wait", "check",
           "transmit", "back"}

TypeOK ==
  /\ queue \in Seq(Bytes) /\ Len(queue) <= QLen
  /\ buf \in [Banks -> [1 .. BLen -> Bytes \union {None}]]
  /\ len \in [Banks -> 0 .. BLen]
  /\ bank \in Banks /\ sem \in {0, 1}
  /\ broken \in BOOLEAN
  /\ pc \in Labels /\ c \in Bytes \union {None}
  /\ config \in BOOLEAN /\ class \in BOOLEAN /\ busy \in BOOLEAN
  /\ txbuf \in (Banks \X (0 .. BLen)) \union {None}
  /\ sending \in (Banks \X (0 .. BLen)) \union {None}
  /\ aborted \in BOOLEAN /\ put \in BOOLEAN /\ sent \in BOOLEAN /\ settled \in BOOLEAN

\* The permission to send is in one place: the semaphore, the task, or the
\* transfer under way.  So there is one transfer at a time, the task fills a
\* bank that is not being sent, and the permission is lost only with a
\* transfer that the host ended (hal_usb_uart.c:81-97, 39-42).
PermissionOwned ==
  /\ sem = 1 => sending = None /\ pc \notin {"check", "transmit", "back"}
  /\ pc \in {"check", "transmit", "back"} => sending = None
  /\ sending # None => sending[1] # bank \/ sending[2] = 0
  /\ \/ aborted \/ sem = 1 \/ sending # None
     \/ pc \in {"check", "transmit", "back"}

\* What the task has taken from the queue and not given to the bus.
First(n) == SubSeq(buf[bank], 1, n)
Collected ==
  CASE pc = "first" -> <<>>
    [] pc \in {"begin", "append"} ->
         (IF pc = "begin" THEN <<>> ELSE First(len[bank])) \o <<c>>
    [] pc = "count" -> First(len[bank] + 1)
    [] pc = "transmit" -> SubSeq(buf[txbuf[1]], 1, txbuf[2])
    [] OTHER -> First(len[bank])

UnderWay == IF sending = None THEN <<>> ELSE SubSeq(buf[sending[1]], 1, sending[2])

\* Bytes reach the host in the order they were written, each at most once, and
\* all that the queue accepted once the host stays (shell_driver_write ignores
\* what finds it full): whatever writers, resets and the host did between
\* the steps of the task (hal_usb_uart.c:58-101, usbd_cdc_if.c:200-212).
Channel == INSTANCE ByteChannel WITH pending <- UnderWay \o Collected \o queue,
                                     ins <- put, outs <- sent
SendsInOrder == Channel!Spec

\* A host that stays gets what is written, unless it ended a transfer earlier.
OutputFlows ==
  settled /\ ~ aborted /\ Len(queue) = QLen ~> Len(queue) < QLen

\* "auto adapt, ignore short-time continuous data if connection broken and
\* queue full" (hal_usb_uart.c:200): data is ignored for a short time, while the
\* connection is broken, not for ever after it is back.
AdaptsBack == settled /\ broken ~> Len(queue) < QLen
=============================================================================
