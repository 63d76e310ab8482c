--------------------------- MODULE VcpTx_proofs ----------------------------
(***************************************************************************)
(* Proofs about VcpTx, for every set of bytes and every length of the      *)
(* queue and of the banks.                                                 *)
(***************************************************************************)
EXTENDS VcpTx, SequenceTheorems, TLAPS

USE VcpTxAssumption

Holding == {"check", "transmit", "back"}

\* A bank never gets more than it holds, although a reset of its length can
\* come between any two steps.
RoomInBank == pc \in {"append", "count"} => len[bank] < BLen

\* What is set for sending is the task's bank, or the empty one of CDC_Init_FS,
\* and it is set exactly between setting and sending.
SetBank ==
  /\ txbuf # None <=> pc = "transmit"
  /\ txbuf # None => txbuf[1] = bank \/ txbuf[2] = 0

\* A transfer needs the host, and a host has configured the device.
HostThere ==
  /\ sending # None => class
  /\ class => config

\* The inductive invariant.
IInv ==
  /\ TypeOK
  /\ RoomInBank
  /\ SetBank
  /\ HostThere
  /\ PermissionOwned

-----------------------------------------------------------------------------
LEMMA InitIInv == Init => IInv
<1>. SUFFICES ASSUME Init PROVE IInv
  OBVIOUS
<1>1. queue \in Seq(Bytes) /\ Len(queue) <= QLen
  BY EmptySeq DEF Init
<1>2. TypeOK
  <2>1. /\ buf \in [Banks -> [1 .. BLen -> Bytes \union {None}]]
        /\ len \in [Banks -> 0 .. BLen]
    BY DEF Init
  <2>2. bank \in Banks /\ sem \in {0, 1} /\ pc \in Labels /\ c \in Bytes \union {None}
    BY DEF Init, Banks, Labels
  <2>3. /\ broken \in BOOLEAN /\ config \in BOOLEAN /\ class \in BOOLEAN /\ busy \in BOOLEAN
        /\ aborted \in BOOLEAN /\ put \in BOOLEAN /\ sent \in BOOLEAN /\ settled \in BOOLEAN
        /\ txbuf = None /\ sending = None
    BY DEF Init
  <2>. QED  BY <1>1, <2>1, <2>2, <2>3, Zenon DEF TypeOK
<1>3. RoomInBank /\ SetBank /\ HostThere
  BY DEF Init, RoomInBank, SetBank, HostThere
<1>4. PermissionOwned
  BY DEF Init, PermissionOwned
<1>. QED  BY <1>2, <1>3, <1>4 DEF IInv

LEMMA NextIInv == IInv /\ [Next]_vars => IInv'
<1>. SUFFICES ASSUME IInv, [Next]_vars PROVE IInv'
  OBVIOUS
<1>. USE DEF IInv, TypeOK, RoomInBank, SetBank, HostThere, PermissionOwned, Labels, Banks
<1>. USE DEF taskVars, usbVars, writerVars
<1>1. ASSUME Accept, UNCHANGED <<buf, len, sem, taskVars, usbVars, sent, settled>>,
             broken' \in BOOLEAN
      PROVE  IInv'
  <2>1. PICK b \in Bytes : queue' = Append(queue, b)
    BY <1>1 DEF Accept
  <2>2. queue' \in Seq(Bytes) /\ Len(queue') <= QLen
    BY <1>1, <2>1, AppendProperties, LenProperties DEF Accept
  <2>3. put' \in BOOLEAN
    BY <1>1 DEF Accept
  <2>. QED  BY <1>1, <2>2, <2>3
<1>2. CASE Write
  <2>. broken' \in BOOLEAN
    BY <1>2 DEF Write
  <2>. QED  BY <1>1, <1>2 DEF Write
<1>3. CASE GiveUp
  BY <1>3 DEF GiveUp
<1>4. CASE WriteBroken
  <2>1. CASE Accept /\ broken' = FALSE
    BY <1>1, <1>4, <2>1 DEF WriteBroken
  <2>2. CASE UNCHANGED <<queue, put, broken>>
    BY <1>4, <2>2 DEF WriteBroken
  <2>. QED  BY <1>4, <2>1, <2>2 DEF WriteBroken
<1>5. CASE Reset
  BY <1>5 DEF Reset
<1>6. ASSUME NEW from, NEW to, Take(from, to),
             \/ from = "first" /\ to = "begin"
             \/ from = "fill" /\ to = "append" /\ len[bank] < BLen
      PROVE  IInv'
  <2>1. /\ Head(queue) \in Bytes /\ Tail(queue) \in Seq(Bytes)
        /\ Len(Tail(queue)) = Len(queue) - 1
    BY <1>6, HeadTailProperties DEF Take
  <2>2. c' \in Bytes /\ queue' \in Seq(Bytes) /\ Len(queue') <= QLen
    BY <1>6, <2>1, LenProperties DEF Take
  <2>. QED  BY <1>6, <2>2 DEF Take, At
<1>7. CASE Begin
  <2>1. /\ buf' = [buf EXCEPT ![bank] = [@ EXCEPT ![1] = c]]
        /\ len' = [len EXCEPT ![bank] = 1]
    BY <1>7 DEF Begin
  <2>2. 1 \in 1 .. BLen /\ 1 \in 0 .. BLen
    OBVIOUS
  <2>3. [buf[bank] EXCEPT ![1] = c] \in [1 .. BLen -> Bytes \union {None}]
    BY <2>2
  <2>4. buf' \in [Banks -> [1 .. BLen -> Bytes \union {None}]]
    BY <2>1, <2>3
  <2>5. len' \in [Banks -> 0 .. BLen]
    BY <2>1, <2>2
  <2>. QED  BY <1>7, <2>4, <2>5 DEF Begin, At
<1>8. CASE More
  BY <1>6, <1>8 DEF More
<1>9. CASE Store
  BY <1>9 DEF Store, At
<1>10. CASE Count
  BY <1>10 DEF Count, At
<1>11. CASE Filled
  BY <1>11 DEF Filled, At
<1>12. CASE Drop
  BY <1>12 DEF Drop, At, NextBank
<1>13. CASE Connected \/ WaitSent
  BY <1>13 DEF Connected, WaitSent, At
<1>14. CASE Check
  BY <1>14 DEF Check, At
<1>15. CASE Transmit
  <2>1. pc = "transmit" /\ txbuf # None /\ txbuf' = None /\ sending = None
    BY <1>15 DEF Transmit, At
  <2>2. UNCHANGED <<queue, buf, len, c, sem, config, class, aborted, sent, broken, put, settled>>
    BY <1>15 DEF Transmit, At
  <2>3. CASE class /\ ~ busy
    <3>1. /\ pc' = "first" /\ busy' = TRUE /\ sending' = txbuf /\ bank' = 3 - bank
      BY <1>15, <2>3 DEF Transmit, At, NextBank
    <3>2. txbuf \in Banks \X (0 .. BLen) /\ bank' \in Banks /\ bank' # bank
      BY <2>1, <3>1
    <3>3. TypeOK'
      BY <2>1, <2>2, <3>1, <3>2
    <3>4. sending'[1] # bank' \/ sending'[2] = 0
      BY <2>1, <3>1, <3>2
    <3>5. PermissionOwned'
      BY <2>1, <2>2, <3>1, <3>4
    <3>. QED  BY <2>1, <2>2, <2>3, <3>1, <3>3, <3>5
  <2>4. CASE ~ class \/ busy
    <3>1. pc' = "back" /\ UNCHANGED <<busy, sending, bank>>
      BY <1>15, <2>4 DEF Transmit, At
    <3>. QED  BY <2>1, <2>2, <3>1
  <2>. QED  BY <2>3, <2>4
<1>16. CASE Back
  BY <1>16 DEF Back, At
<1>17. CASE DataIn
  BY <1>17 DEF DataIn
<1>18. CASE HostLeaves
  <2>1. /\ UNCHANGED <<queue, buf, len, sem, bank, pc, c, txbuf, busy, broken, put, sent,
                       settled>>
        /\ class' = FALSE /\ sending' = None /\ config' \in {config, FALSE}
    BY <1>18 DEF HostLeaves
  <2>2. aborted' = (aborted \/ sending # None)
    BY <1>18 DEF HostLeaves
  <2>3. config' \in BOOLEAN /\ aborted' \in BOOLEAN
    BY <2>1, <2>2
  <2>4. TypeOK'
    BY <2>1, <2>3
  <2>5. aborted \/ sending # None => aborted'
    BY <2>2
  <2>6. PermissionOwned'
    BY <2>1, <2>5
  <2>. QED  BY <2>1, <2>4, <2>6
<1>19. CASE Configure
  <2>1. /\ UNCHANGED <<queue, buf, sem, bank, pc, c, sending, aborted, broken, put, sent,
                       settled>>
        /\ class' = TRUE /\ config' = TRUE /\ busy' = FALSE
        /\ len' = [k \in Banks |-> 0]
    BY <1>19 DEF Configure
  <2>2. CASE txbuf = None
    <3>1. txbuf' = None
      BY <1>19, <2>2 DEF Configure
    <3>2. len' \in [Banks -> 0 .. BLen] /\ len'[bank] < BLen
      BY <2>1
    <3>3. TypeOK'
      <4>1. /\ class' \in BOOLEAN /\ config' \in BOOLEAN /\ busy' \in BOOLEAN
            /\ txbuf' \in (Banks \X (0 .. BLen)) \union {None}
        BY <2>1, <3>1
      <4>2. UNCHANGED <<queue, buf, sem, bank, pc, c, sending, aborted, broken, put, sent,
                        settled>>
        BY <2>1
      <4>. QED  BY <3>2, <4>1, <4>2
    <3>4. RoomInBank' /\ SetBank' /\ HostThere'
      BY <2>1, <2>2, <3>1, <3>2
    <3>5. PermissionOwned'
      BY <2>1
    <3>. QED  BY <3>3, <3>4, <3>5
  <2>3. CASE txbuf # None
    <3>1. txbuf' = <<1, 0>>
      BY <1>19, <2>3 DEF Configure
    <3>2. <<1, 0>> \in Banks \X (0 .. BLen) /\ <<1, 0>> \in {1, 2} \X Nat
      OBVIOUS
    <3>3. txbuf' # None /\ txbuf'[2] = 0 /\ txbuf' \in Banks \X (0 .. BLen)
      BY <3>1, <3>2
    <3>. QED  BY <2>1, <2>3, <3>3
  <2>. QED  BY <2>2, <2>3
<1>20. CASE Settle
  BY <1>20 DEF Settle
<1>21. CASE UNCHANGED vars
  BY <1>21 DEF vars
<1>. QED
  BY <1>2, <1>3, <1>4, <1>5, <1>6, <1>7, <1>8, <1>9, <1>10, <1>11, <1>12, <1>13, <1>14,
     <1>15, <1>16, <1>17, <1>18, <1>19, <1>20, <1>21 DEF Next, Task

THEOREM Invariance == Spec => []IInv
BY InitIInv, NextIInv, PTL DEF Spec

\* Types of the driver's state; a bank never gets more bytes than it holds
\* (hal_usb_uart.c:58-80).
THEOREM TypeCorrect == Spec => []TypeOK
BY Invariance, PTL DEF IInv

\* The permission to send is in one place, and only a host that ends a transfer
\* loses it, whatever the tasks, Ctrl-C and the host do between the steps of
\* task_vcp_tx_entry.
THEOREM PermissionAlwaysOwned == Spec => []PermissionOwned
BY Invariance, PTL DEF IInv

-----------------------------------------------------------------------------
(* Prefixes of banks, and parts of a concatenation.                        *)

Values == Bytes \union {None}

LEMMA PrefixType ==
  ASSUME NEW f \in [1 .. BLen -> Values], NEW n \in 0 .. BLen
  PROVE  /\ SubSeq(f, 1, n) \in Seq(Values)
         /\ Len(SubSeq(f, 1, n)) = n
         /\ \A i \in 1 .. n : SubSeq(f, 1, n)[i] = f[i]
<1>1. \A i \in 1 .. n : f[i] \in Values
  OBVIOUS
<1>. QED  BY <1>1, SubSeqProperties

LEMMA PrefixSame ==
  ASSUME NEW f \in [1 .. BLen -> Values], NEW g \in [1 .. BLen -> Values],
         NEW n \in 0 .. BLen, \A i \in 1 .. n : f[i] = g[i]
  PROVE  SubSeq(f, 1, n) = SubSeq(g, 1, n)
<1>. DEFINE s == SubSeq(f, 1, n)
            t == SubSeq(g, 1, n)
<1>1. /\ s \in Seq(Values) /\ t \in Seq(Values)
      /\ Len(s) = n /\ Len(t) = n
      /\ \A i \in 1 .. n : s[i] = t[i]
  BY PrefixType
<1>. HIDE DEF s, t
<1>2. s = t
  BY <1>1, SeqEqual
<1>. QED  BY <1>2 DEF s, t

LEMMA PrefixMore ==
  ASSUME NEW f \in [1 .. BLen -> Values], NEW n \in 0 .. BLen - 1
  PROVE  SubSeq(f, 1, n + 1) = SubSeq(f, 1, n) \o <<f[n + 1]>>
<1>1. f \in Seq(Values) /\ Len(f) = BLen
  <2>1. f \in UNION {[1 .. m -> Values] : m \in Nat}
    OBVIOUS
  <2>. QED  BY <2>1, SeqDef, LenProperties
<1>2. 1 \in 1 .. Len(f) /\ n + 1 \in 1 .. Len(f) /\ (n + 1) - 1 = n
  BY <1>1
<1>. QED  BY <1>1, <1>2, SubSeqRecursiveSecond

LEMMA PrefixNone == ASSUME NEW f PROVE SubSeq(f, 1, 0) = <<>>
BY SubSeqEmpty

LEMMA FrontOf ==
  ASSUME NEW s \in Seq(Values), NEW t \in Seq(Values)
  PROVE  SubSeq(s \o t, 1, Len(s)) = s
<1>1. CASE s = <<>>
  <2>1. Len(s) = 0
    BY <1>1, EmptySeq
  <2>. QED  BY <1>1, <2>1, SubSeqEmpty
<1>2. CASE s # <<>>
  <2>1. 1 \in 1 .. Len(s) /\ Len(s) \in 1 .. Len(s)
    BY <1>2, EmptySeq
  <2>2. SubSeq(s \o t, 1, Len(s)) = SubSeq(s, 1, Len(s))
    BY <2>1, SubSeqOfConcat1
  <2>. QED  BY <2>2, SubSeqFull
<1>. QED  BY <1>1, <1>2

LEMMA RearOf ==
  ASSUME NEW s \in Seq(Values), NEW t \in Seq(Values)
  PROVE  SubSeq(s \o t, Len(s) + 1, Len(s \o t)) = t
<1>1. Len(s) \in Nat /\ Len(t) \in Nat /\ Len(s \o t) = Len(s) + Len(t)
  BY LenProperties, ConcatProperties
<1>2. CASE t = <<>>
  <2>1. Len(s \o t) < Len(s) + 1
    BY <1>1, <1>2, EmptySeq
  <2>. QED  BY <1>1, <1>2, <2>1, SubSeqEmpty
<1>3. CASE t # <<>>
  <2>1. Len(t) # 0
    BY <1>3, EmptySeq
  <2>2. /\ Len(s) + 1 \in Len(s) + 1 .. Len(s) + Len(t)
        /\ Len(s) + Len(t) \in Len(s) + 1 .. Len(s) + Len(t)
    BY <1>1, <2>1
  <2>3. SubSeq(s \o t, Len(s) + 1, Len(s) + Len(t))
          = SubSeq(t, (Len(s) + 1) - Len(s), (Len(s) + Len(t)) - Len(s))
    BY <2>2, SubSeqOfConcat2
  <2>4. (Len(s) + 1) - Len(s) = 1 /\ (Len(s) + Len(t)) - Len(s) = Len(t)
    BY <1>1
  <2>. QED  BY <1>1, <2>3, <2>4, SubSeqFull
<1>. QED  BY <1>2, <1>3

\* Losing a stretch, as ByteChannel says it.
Loses(p, q) ==
  \E i, n \in 0 .. Len(p) :
    i + n <= Len(p) /\ q = SubSeq(p, 1, i) \o SubSeq(p, Len(p) - n + 1, Len(p))

LEMMA LoseMiddle ==
  ASSUME NEW s \in Seq(Values), NEW t \in Seq(Values), NEW r \in Seq(Values)
  PROVE  Loses((s \o t) \o r, s \o r)
<1>. DEFINE p == (s \o t) \o r
<1>1. /\ s \o t \in Seq(Values) /\ t \o r \in Seq(Values)
      /\ Len(s) \in Nat /\ Len(t) \in Nat /\ Len(r) \in Nat
      /\ Len(s \o t) = Len(s) + Len(t)
  BY LenProperties, ConcatProperties
<1>2. Len(p) = Len(s) + Len(t) + Len(r)
  BY <1>1, ConcatProperties
<1>3. SubSeq(p, 1, Len(s)) = s
  <2>1. p = s \o (t \o r)
    BY ConcatAssociative
  <2>. QED  BY <1>1, <2>1, FrontOf
<1>4. SubSeq(p, Len(p) - Len(r) + 1, Len(p)) = r
  <2>1. Len(p) - Len(r) + 1 = Len(s \o t) + 1
    BY <1>1, <1>2
  <2>. QED  BY <1>1, <2>1, RearOf
<1>5. Len(s) \in 0 .. Len(p) /\ Len(r) \in 0 .. Len(p) /\ Len(s) + Len(r) <= Len(p)
  BY <1>1, <1>2
<1>. QED  BY <1>3, <1>4, <1>5 DEF Loses

\* Said without the set of the elements, for the provers.
LEMMA Associative ==
  ASSUME NEW s \in Seq(Values), NEW t \in Seq(Values), NEW r \in Seq(Values)
  PROVE  (s \o t) \o r = s \o (t \o r)
BY ConcatAssociative

Regrouped(u, k, h, t) == (u \o (k \o h)) \o t = (u \o k) \o (h \o t)

LEMMA Regroup ==
  ASSUME NEW u \in Seq(Values), NEW k \in Seq(Values),
         NEW h \in Seq(Values), NEW t \in Seq(Values)
  PROVE  Regrouped(u, k, h, t)
<1>1. u \o k \in Seq(Values)
  BY ConcatProperties
<1>2. u \o (k \o h) = (u \o k) \o h
  BY Associative, Zenon
<1>3. ((u \o k) \o h) \o t = (u \o k) \o (h \o t)
  BY <1>1, Associative, Zenon
<1>. QED  BY <1>2, <1>3, Zenon DEF Regrouped

\* The head of the queue goes to the end of what was collected.
Moved(u, k, q) == (u \o (k \o <<Head(q)>>)) \o Tail(q) = (u \o k) \o q

LEMMA MoveHead ==
  ASSUME NEW u \in Seq(Values), NEW k \in Seq(Values), NEW q \in Seq(Values), q # <<>>
  PROVE  Moved(u, k, q)
<1>1. <<Head(q)>> \in Seq(Values) /\ Tail(q) \in Seq(Values)
  <2>1. Head(q) \in Values /\ Tail(q) \in Seq(Values)
    BY HeadTailProperties
  <2>. QED  BY <2>1
<1>2. q = <<Head(q)>> \o Tail(q)
  <2>1. 1 \in 1 .. Len(q) /\ Len(q) \in 1 .. Len(q)
    BY EmptySeq
  <2>2. SubSeq(q, 1, Len(q)) = <<q[1]>> \o SubSeq(q, 1 + 1, Len(q))
    BY <2>1, SubSeqRecursiveFirst
  <2>3. Head(q) = q[1] /\ Tail(q) = SubSeq(q, 2, Len(q))
    BY <2>1, TailIsSubSeq, HeadTailProperties
  <2>. QED  BY <2>2, <2>3, SubSeqFull
<1>3. Regrouped(u, k, <<Head(q)>>, Tail(q))
  BY <1>1, Regroup, Zenon
<1>. QED  BY <1>2, <1>3, Zenon DEF Moved, Regrouped

LEMMA AppendLast ==
  ASSUME NEW s \in Seq(Values), NEW t \in Seq(Values), NEW b \in Values
  PROVE  s \o Append(t, b) = Append(s \o t, b)
<1>1. <<b>> \in Seq(Values) /\ s \o t \in Seq(Values)
  BY ConcatProperties
<1>2. s \o Append(t, b) = s \o (t \o <<b>>)
  BY AppendIsConcat
<1>3. s \o (t \o <<b>>) = (s \o t) \o <<b>>
  BY <1>1, ConcatAssociative
<1>. QED  BY <1>1, <1>2, <1>3, AppendIsConcat

\* Of what was collected, the first part t or the last part r is lost.
LEMMA DropFirst ==
  ASSUME NEW u \in Seq(Values), NEW t \in Seq(Values), NEW r \in Seq(Values),
         NEW q \in Seq(Values)
  PROVE  Loses((u \o (t \o r)) \o q, (u \o r) \o q)
<1>1. r \o q \in Seq(Values)
  BY ConcatProperties
<1>2. (u \o r) \o q = u \o (r \o q)
  BY Associative, Zenon
<1>3. Regrouped(u, t, r, q)
  BY Regroup, Zenon
<1>4. Loses((u \o t) \o (r \o q), u \o (r \o q))
  BY <1>1, LoseMiddle, Zenon
<1>. QED  BY <1>2, <1>3, <1>4, Zenon DEF Regrouped

LEMMA DropLast ==
  ASSUME NEW u \in Seq(Values), NEW t \in Seq(Values), NEW r \in Seq(Values),
         NEW q \in Seq(Values)
  PROVE  Loses((u \o (t \o r)) \o q, (u \o t) \o q)
<1>1. u \o t \in Seq(Values)
  BY ConcatProperties
<1>2. u \o (t \o r) = (u \o t) \o r
  BY Associative, Zenon
<1>3. Loses(((u \o t) \o r) \o q, (u \o t) \o q)
  BY <1>1, LoseMiddle, Zenon
<1>. QED  BY <1>2, <1>3

-----------------------------------------------------------------------------
(* The driver implements the channel.                                      *)

Pending == UnderWay \o Collected \o queue

\* Once the host stays it is there; what is set for sending is what the task
\* has collected, unless the length was reset since.
SendInv ==
  /\ settled => class
  /\ pc = "transmit" => ~ busy /\ (txbuf = <<bank, len[bank]>> \/ len[bank] = 0)

LEMMA InitSendInv == Init => SendInv
BY DEF Init, SendInv

LEMMA NextSendInv == IInv /\ SendInv /\ [Next]_vars => SendInv'
<1>. SUFFICES ASSUME IInv, SendInv, [Next]_vars PROVE SendInv'
  OBVIOUS
<1>. USE DEF SendInv
<1>1. CASE Write \/ GiveUp \/ WriteBroken
  BY <1>1 DEF Write, GiveUp, WriteBroken, Accept, taskVars, usbVars
<1>2. CASE Reset
  BY <1>2 DEF Reset, taskVars, usbVars, IInv, TypeOK
<1>3. CASE Take("first", "begin") \/ Begin \/ More \/ Store \/ Count \/ Filled
  BY <1>3 DEF Take, Begin, More, Store, Count, Filled, At, usbVars
<1>4. CASE Drop \/ Connected \/ WaitSent \/ Back
  BY <1>4 DEF Drop, Connected, WaitSent, Back, At, usbVars
<1>5. CASE Check
  BY <1>5 DEF Check, At
<1>6. CASE Transmit
  BY <1>6 DEF Transmit, At
<1>7. CASE DataIn
  BY <1>7 DEF DataIn, taskVars, writerVars
<1>8. CASE HostLeaves
  <2>1. ~ settled' /\ UNCHANGED <<pc, busy, txbuf, bank, len>>
    BY <1>8 DEF HostLeaves, taskVars
  <2>. QED  BY <2>1
<1>9. CASE Configure
  BY <1>9 DEF Configure, taskVars, writerVars, IInv, TypeOK
<1>10. CASE Settle
  BY <1>10 DEF Settle, taskVars, usbVars
<1>11. CASE UNCHANGED vars
  BY <1>11 DEF vars, taskVars, usbVars
<1>. QED
  BY <1>1, <1>2, <1>3, <1>4, <1>5, <1>6, <1>7, <1>8, <1>9, <1>10, <1>11
     DEF Next, Task

\* Collected, label by label.
Parts ==
  /\ pc = "first" => Collected = <<>>
  /\ pc = "begin" => Collected = <<>> \o <<c>>
  /\ pc = "append" => Collected = First(len[bank]) \o <<c>>
  /\ pc = "count" => Collected = First(len[bank] + 1)
  /\ pc = "transmit" => Collected = SubSeq(buf[txbuf[1]], 1, txbuf[2])
  /\ pc \in {"fill", "send", "wait", "check", "back"} => Collected = First(len[bank])

LEMMA PartsNow == Parts
BY DEF Parts, Collected

LEMMA PartsNext == Parts'
BY DEF Parts, Collected

LEMMA PendingType ==
  ASSUME IInv
  PROVE  /\ UnderWay \in Seq(Values) /\ Collected \in Seq(Values) /\ queue \in Seq(Values)
         /\ Pending \in Seq(Values)
<1>. USE DEF IInv, TypeOK
<1>1. \A k \in Banks : buf[k] \in [1 .. BLen -> Values]
  BY DEF Values
<1>2. queue \in Seq(Values)
  BY SeqMonotonic DEF Values
<1>3. UnderWay \in Seq(Values)
  <2>1. CASE sending = None
    BY <2>1, EmptySeq DEF UnderWay
  <2>2. CASE sending # None
    <3>1. sending[1] \in Banks /\ sending[2] \in 0 .. BLen
      BY <2>2
    <3>. QED  BY <1>1, <2>2, <3>1, PrefixType DEF UnderWay
  <2>. QED  BY <2>1, <2>2
<1>4. Collected \in Seq(Values)
  <2>1. /\ <<>> \in Seq(Values) /\ <<c>> \in Seq(Values)
        /\ bank \in Banks /\ len[bank] \in 0 .. BLen
    BY EmptySeq DEF Values
  <2>2. First(len[bank]) \in Seq(Values)
    BY <1>1, <2>1, PrefixType DEF First
  <2>3. CASE pc \in {"first", "fill", "send", "wait", "check", "back"}
    BY <2>1, <2>2, <2>3, PartsNow DEF Parts
  <2>4. CASE pc \in {"begin", "append"}
    <3>1. <<>> \o <<c>> \in Seq(Values) /\ First(len[bank]) \o <<c>> \in Seq(Values)
      BY <2>1, <2>2, ConcatProperties
    <3>. QED  BY <2>4, <3>1, PartsNow DEF Parts
  <2>5. CASE pc = "count"
    <3>1. len[bank] + 1 \in 0 .. BLen
      BY <2>1, <2>5 DEF RoomInBank
    <3>. QED  BY <1>1, <2>1, <2>5, <3>1, PrefixType, PartsNow DEF Parts, First
  <2>6. CASE pc = "transmit"
    <3>1. txbuf[1] \in Banks /\ txbuf[2] \in 0 .. BLen
      BY <2>6 DEF SetBank
    <3>2. SubSeq(buf[txbuf[1]], 1, txbuf[2]) \in Seq(Values)
      BY <1>1, <3>1, PrefixType
    <3>. QED  BY <2>6, <3>2, PartsNow DEF Parts
  <2>. QED  BY <2>3, <2>4, <2>5, <2>6 DEF Labels
<1>. QED  BY <1>2, <1>3, <1>4, ConcatProperties DEF Pending

\* A transfer under way is not touched by what the task does to its own bank.
LEMMA UnderWaySame ==
  ASSUME IInv, sending' = sending, \A k \in Banks : k # bank => buf'[k] = buf[k]
  PROVE  UnderWay' = UnderWay
<1>1. CASE sending = None
  BY <1>1 DEF UnderWay
<1>2. CASE sending # None
  <2>1. sending[1] \in Banks /\ (sending[1] # bank \/ sending[2] = 0)
    BY <1>2 DEF IInv, TypeOK, PermissionOwned
  <2>2. CASE sending[1] # bank
    BY <1>2, <2>1, <2>2 DEF UnderWay
  <2>3. CASE sending[2] = 0
    BY <1>2, <2>3, PrefixNone DEF UnderWay
  <2>. QED  BY <2>1, <2>2, <2>3
<1>. QED  BY <1>1, <1>2

\* Dropping all that was collected, or what was collected first.
LEMMA LoseCollected ==
  ASSUME IInv, UnderWay' = UnderWay, queue' = queue, Collected' = <<>>
  PROVE  Loses(Pending, Pending')
<1>1. /\ UnderWay \in Seq(Values) /\ Collected \in Seq(Values) /\ queue \in Seq(Values)
  BY PendingType
<1>2. Pending' = UnderWay \o queue
  BY <1>1, ConcatEmptySeq DEF Pending
<1>. QED  BY <1>1, <1>2, LoseMiddle DEF Pending

LEMMA LoseFirst ==
  ASSUME IInv, UnderWay' = UnderWay, queue' = queue,
         NEW t \in Seq(Values), NEW r \in Seq(Values), Collected = t \o r, Collected' = r
  PROVE  Loses(Pending, Pending')
<1>1. UnderWay \in Seq(Values) /\ queue \in Seq(Values)
  BY PendingType
<1>2. Pending = (UnderWay \o (t \o r)) \o queue /\ Pending' = (UnderWay \o r) \o queue
  BY DEF Pending
<1>. QED  BY <1>1, <1>2, DropFirst

LEMMA LoseLast ==
  ASSUME IInv, UnderWay' = UnderWay, queue' = queue,
         NEW t \in Seq(Values), NEW r \in Seq(Values), Collected = t \o r, Collected' = t
  PROVE  Loses(Pending, Pending')
<1>1. UnderWay \in Seq(Values) /\ queue \in Seq(Values)
  BY PendingType
<1>2. Pending = (UnderWay \o (t \o r)) \o queue /\ Pending' = (UnderWay \o t) \o queue
  BY DEF Pending
<1>. QED  BY <1>1, <1>2, DropLast

\* Ctrl-C and CDC_Init_FS: what they forget at each place the task can be.
LEMMA LenReset ==
  ASSUME IInv, UNCHANGED <<queue, buf, bank, pc, c, sending>>,
         len' = [k \in Banks |-> 0],
         txbuf' = txbuf \/ txbuf'[2] = 0
  PROVE  Pending' = Pending \/ Loses(Pending, Pending')
<1>. USE DEF IInv
<1>1. UnderWay' = UnderWay
  BY UnderWaySame
<1>2. /\ bank \in Banks /\ len[bank] \in 0 .. BLen /\ len'[bank] = 0
      /\ buf[bank] \in [1 .. BLen -> Values]
  BY DEF TypeOK, Values
<1>3. First(len[bank])' = <<>>
  BY <1>2, PrefixNone DEF First
<1>4. CASE pc \in {"first", "begin"}
  BY <1>1, <1>4, PartsNow, PartsNext DEF Parts, Pending
<1>5. CASE pc \in {"fill", "send", "wait", "check", "back"}
  <2>1. Collected' = <<>>
    BY <1>3, <1>5, PartsNext DEF Parts
  <2>. QED  BY <1>1, <2>1, LoseCollected
<1>6. CASE pc = "append"
  <2>1. First(len[bank]) \in Seq(Values)
    BY <1>2, PrefixType DEF First
  <2>2. c \in Values /\ <<c>> \in Seq(Values)
    BY DEF TypeOK, Values
  <2>3. Collected = First(len[bank]) \o <<c>>
    BY <1>6, PartsNow DEF Parts
  <2>4. Collected' = <<>> \o <<c>>
    BY <1>3, <1>6, PartsNext DEF Parts
  <2>5. <<>> \o <<c>> = <<c>>
    BY <2>2, ConcatEmptySeq
  <2>. QED  BY <1>1, <2>1, <2>2, <2>3, <2>4, <2>5, LoseFirst
<1>7. CASE pc = "count"
  <2>. DEFINE f == buf[bank]
              n == len[bank]
  <2>1. n < BLen /\ n \in Nat /\ f \in [1 .. BLen -> Values] /\ 1 \in 0 .. BLen
    BY <1>2, <1>7 DEF RoomInBank
  <2>2. Collected = SubSeq(f, 1, n + 1) /\ Collected' = SubSeq(f, 1, 1)
    <3>1. Collected = First(len[bank] + 1) /\ Collected' = First(len[bank] + 1)'
      BY <1>7, PartsNow, PartsNext DEF Parts
    <3>. QED  BY <1>2, <3>1 DEF First
  <2>3. CASE n = 0
    BY <1>1, <2>2, <2>3 DEF Pending
  <2>4. CASE n # 0
    <3>1. f \in Seq(Values) /\ Len(f) = BLen
      <4>1. f \in UNION {[1 .. m -> Values] : m \in Nat}
        BY <2>1
      <4>. QED  BY <2>1, <4>1, SeqDef, LenProperties
    <3>2. 1 \in 1 .. Len(f) /\ n + 1 \in 1 .. Len(f)
      BY <2>1, <3>1
    <3>3. SubSeq(f, 1, n + 1) = <<f[1]>> \o SubSeq(f, 1 + 1, n + 1)
      BY <3>1, <3>2, SubSeqRecursiveFirst
    <3>4. SubSeq(f, 1, 1) = <<f[1]>>
      <4>1. SubSeq(f, 1, 0 + 1) = SubSeq(f, 1, 0) \o <<f[0 + 1]>>
        BY <2>1, PrefixMore
      <4>2. f[1] \in Values /\ <<f[1]>> \in Seq(Values) /\ 0 + 1 = 1
        BY <2>1
      <4>3. <<>> \o <<f[1]>> = <<f[1]>>
        BY <4>2, ConcatEmptySeq
      <4>. QED  BY <4>1, <4>2, <4>3, PrefixNone
    <3>5. <<f[1]>> \in Seq(Values) /\ SubSeq(f, 1 + 1, n + 1) \in Seq(Values)
      <4>1. \A i \in 2 .. n + 1 : f[i] \in Values
        BY <2>1
      <4>. QED  BY <2>1, <4>1, SubSeqProperties
    <3>. HIDE DEF f, n
    <3>. QED  BY <1>1, <2>2, <3>3, <3>4, <3>5, LoseLast
  <2>. QED  BY <2>3, <2>4
<1>8. CASE pc = "transmit"
  <2>1. CASE txbuf' = txbuf
    BY <1>1, <1>8, <2>1, PartsNow, PartsNext DEF Parts, Pending
  <2>2. CASE txbuf'[2] = 0
    <3>1. Collected' = <<>>
      BY <1>8, <2>2, PartsNext, PrefixNone DEF Parts
    <3>. QED  BY <1>1, <3>1, LoseCollected
  <2>. QED  BY <2>1, <2>2
<1>. QED  BY <1>4, <1>5, <1>6, <1>7, <1>8 DEF TypeOK, Labels


\* Two ways to take a step of the channel: none, and a loss.
LEMMA Stutters ==
  ASSUME UNCHANGED <<put, sent, settled>>, Pending' = Pending
  PROVE  UNCHANGED Channel!vars
BY DEF Channel!vars, Pending

LEMMA Lossy ==
  ASSUME ~ settled, UNCHANGED <<put, sent, settled>>, Loses(Pending, Pending')
  PROVE  Channel!Lose
BY DEF Channel!Lose, Loses, Pending

LEMMA Accepts ==
  ASSUME IInv, Accept, UNCHANGED <<buf, len, sem, taskVars, usbVars, sent, settled>>
  PROVE  Channel!Accept
<1>1. PICK b \in Bytes : queue' = Append(queue, b)
  BY DEF Accept
<1>2. UnderWay' = UnderWay
  BY DEF UnderWay, usbVars
<1>3. Collected' = Collected
  BY DEF Collected, First, taskVars, usbVars
<1>4. UnderWay \o Collected \in Seq(Values) /\ queue \in Seq(Values) /\ b \in Values
  <2>1. UnderWay \in Seq(Values) /\ Collected \in Seq(Values) /\ queue \in Seq(Values)
    BY PendingType
  <2>. QED  BY <2>1, ConcatProperties DEF Values
<1>5. Pending' = Append(Pending, b)
  BY <1>1, <1>2, <1>3, <1>4, AppendLast DEF Pending
<1>. QED  BY <1>5 DEF Accept, Channel!Accept, Pending

\* A byte from the queue to the task's hand, when it was the last collected.
LEMMA HeadTaken ==
  ASSUME IInv, queue # <<>>
  PROVE  Moved(UnderWay, Collected, queue)
<1>1. UnderWay \in Seq(Values) /\ Collected \in Seq(Values) /\ queue \in Seq(Values)
  BY PendingType
<1>. QED  BY <1>1, MoveHead, Zenon

LEMMA Takes ==
  ASSUME IInv, queue # <<>>, queue' = Tail(queue), UnderWay' = UnderWay,
         Collected' = Collected \o <<Head(queue)>>
  PROVE  Pending' = Pending
BY HeadTaken DEF Pending, Moved

\* The steps in which the task fills its bank.
LEMMA FillStep ==
  ASSUME IInv, Take("first", "begin") \/ Begin \/ More \/ Store \/ Count \/ Filled
  PROVE  Pending' = Pending /\ UNCHANGED <<put, sent, settled>>
<1>. USE DEF IInv
<1>1. UNCHANGED <<put, sent, settled>>
  BY DEF Take, Begin, More, Store, Count, Filled, At, writerVars
<1>2. UnderWay' = UnderWay
  <2>1. sending' = sending
    BY DEF Take, Begin, More, Store, Count, Filled, usbVars
  <2>2. \A k \in Banks : k # bank => buf'[k] = buf[k]
    BY DEF Take, Begin, More, Store, Count, Filled, TypeOK
  <2>. QED  BY <2>1, <2>2, UnderWaySame
<1>3. /\ bank \in Banks /\ len[bank] \in 0 .. BLen
      /\ buf[bank] \in [1 .. BLen -> Values]
      /\ c \in Values /\ BLen \in Nat \ {0}
  BY DEF TypeOK, Values
<1>4. CASE Take("first", "begin")
  <2>1. Collected = <<>> /\ Collected' = <<>> \o <<c'>>
    BY <1>4, PartsNow, PartsNext DEF Parts, Take, At
  <2>. QED  BY <1>1, <1>2, <1>4, <2>1, Takes DEF Take
<1>5. CASE More
  <2>1. /\ Collected = First(len[bank])
        /\ Collected' = First(len[bank])' \o <<c'>>
    BY <1>5, PartsNow, PartsNext DEF Parts, More, Take, At
  <2>2. First(len[bank])' = First(len[bank])
    BY <1>5 DEF More, Take, First
  <2>. QED  BY <1>1, <1>2, <1>5, <2>1, <2>2, Takes DEF More, Take
<1>6. CASE Begin
  <2>. DEFINE g == buf'[bank]
  <2>1. pc = "begin" /\ pc' = "fill" /\ bank' = bank /\ queue' = queue /\ len'[bank] = 1
    BY <1>3, <1>6 DEF Begin, At, TypeOK
  <2>2. g = [buf[bank] EXCEPT ![1] = c]
    BY <1>3, <1>6 DEF Begin, TypeOK
  <2>3. g \in [1 .. BLen -> Values] /\ g[0 + 1] = c /\ 0 \in 0 .. BLen - 1 /\ 0 + 1 = 1
    BY <1>3, <2>2
  <2>4. Collected = <<>> \o <<c>>
    BY <2>1, PartsNow DEF Parts
  <2>5. Collected' = SubSeq(g, 1, 1)
    BY <2>1, PartsNext DEF Parts, First
  <2>. HIDE DEF g
  <2>6. SubSeq(g, 1, 0 + 1) = SubSeq(g, 1, 0) \o <<g[0 + 1]>>
    BY <2>3, PrefixMore
  <2>7. SubSeq(g, 1, 0) = <<>>
    BY PrefixNone
  <2>8. Collected' = Collected
    BY <2>3, <2>4, <2>5, <2>6, <2>7
  <2>. QED  BY <1>1, <1>2, <2>1, <2>8 DEF Pending
<1>7. CASE Store
  <2>. DEFINE f == buf[bank]
              g == buf'[bank]
              n == len[bank]
  <2>1. pc = "append" /\ pc' = "count" /\ bank' = bank /\ queue' = queue /\ len' = len
    BY <1>7 DEF Store, At
  <2>2. n \in 0 .. BLen - 1
    BY <1>3, <2>1 DEF RoomInBank
  <2>3. g = [f EXCEPT ![n + 1] = c]
    BY <1>3, <1>7 DEF Store, TypeOK
  <2>4. Collected = SubSeq(f, 1, n) \o <<c>>
    BY <2>1, PartsNow DEF Parts, First
  <2>5. Collected' = SubSeq(g, 1, n + 1)
    BY <2>1, PartsNext DEF Parts, First
  <2>6. f \in [1 .. BLen -> Values]
    BY <1>3
  <2>. HIDE DEF f, g, n
  <2>7. /\ g \in [1 .. BLen -> Values] /\ g[n + 1] = c /\ n \in 0 .. BLen
        /\ \A i \in 1 .. n : f[i] = g[i]
    BY <1>3, <2>2, <2>3, <2>6
  <2>8. SubSeq(g, 1, n + 1) = SubSeq(g, 1, n) \o <<g[n + 1]>>
    BY <2>2, <2>7, PrefixMore
  <2>9. SubSeq(f, 1, n) = SubSeq(g, 1, n)
    BY <2>6, <2>7, PrefixSame
  <2>10. Collected' = Collected
    BY <2>4, <2>5, <2>7, <2>8, <2>9
  <2>. QED  BY <1>1, <1>2, <2>1, <2>10 DEF Pending
<1>8. CASE Count
  <2>1. /\ pc = "count" /\ pc' = "fill" /\ UNCHANGED <<queue, buf, bank>>
        /\ len'[bank] = len[bank] + 1
    BY <1>3, <1>8 DEF Count, At, TypeOK
  <2>2. Collected' = Collected
    BY <2>1, PartsNow, PartsNext DEF Parts, First
  <2>. QED  BY <1>1, <1>2, <2>1, <2>2 DEF Pending
<1>9. CASE Filled
  <2>1. pc = "fill" /\ pc' = "send" /\ UNCHANGED <<queue, buf, len, bank>>
    BY <1>9 DEF Filled, At
  <2>2. Collected' = Collected
    BY <2>1, PartsNow, PartsNext DEF Parts, First
  <2>. QED  BY <1>1, <1>2, <2>1, <2>2 DEF Pending
<1>. QED  BY <1>4, <1>5, <1>6, <1>7, <1>8, <1>9

\* The steps in which it drops the bank or gives it to the bus.
LEMMA SendStep ==
  ASSUME IInv, SendInv, Drop \/ Connected \/ WaitSent \/ Check \/ Transmit \/ Back
  PROVE  /\ UNCHANGED <<put, sent, settled>>
         /\ Pending' = Pending \/ (~ settled /\ Loses(Pending, Pending'))
<1>. USE DEF IInv
<1>1. UNCHANGED <<put, sent, settled, queue, buf, len>>
  BY DEF Drop, Connected, WaitSent, Check, Transmit, Back, At, writerVars
<1>2. bank \in Banks /\ len[bank] \in 0 .. BLen
  BY DEF TypeOK
<1>3. CASE Drop
  <2>1. UnderWay' = UnderWay
    BY <1>3, <1>1 DEF Drop, UnderWay, usbVars
  <2>2. Collected' = <<>>
    BY <1>3, PartsNext DEF Parts, Drop, At
  <2>3. ~ settled
    BY <1>3 DEF Drop, HostThere, SendInv
  <2>. QED  BY <1>1, <2>1, <2>2, <2>3, LoseCollected
<1>4. CASE Connected \/ WaitSent \/ Back
  <2>1. UnderWay' = UnderWay
    BY <1>4, <1>1 DEF Connected, WaitSent, Back, UnderWay, usbVars
  <2>2. /\ pc \in {"fill", "send", "wait", "check", "back"} /\ pc' \in {"fill", "send", "wait", "check", "back"}
        /\ bank' = bank
    BY <1>4 DEF Connected, WaitSent, Back, At
  <2>3. Collected' = Collected
    BY <1>1, <2>2, PartsNow, PartsNext DEF Parts, First
  <2>. QED  BY <1>1, <2>1, <2>3 DEF Pending
<1>5. CASE Check
  <2>1. UnderWay' = UnderWay
    BY <1>5, <1>1 DEF Check, UnderWay
  <2>2. bank' = bank /\ pc = "check"
    BY <1>5 DEF Check, At
  <2>3. Collected = First(len[bank])
    BY <2>2, PartsNow DEF Parts
  <2>4. CASE pc' = "back"
    <3>1. Collected' = Collected
      BY <1>1, <2>2, <2>3, <2>4, PartsNext DEF Parts, First
    <3>. QED  BY <1>1, <2>1, <3>1 DEF Pending
  <2>5. CASE pc' = "transmit" /\ txbuf' = <<bank, len[bank]>>
    <3>1. Collected' = SubSeq(buf'[txbuf'[1]], 1, txbuf'[2])
      BY <2>5, PartsNext DEF Parts
    <3>2. Collected' = Collected
      BY <1>1, <2>3, <2>5, <3>1 DEF First
    <3>. QED  BY <1>1, <2>1, <3>2 DEF Pending
  <2>. QED  BY <1>5, <2>4, <2>5 DEF Check, At
<1>6. CASE Transmit
  <2>1. /\ pc = "transmit" /\ txbuf # None /\ sending = None /\ ~ busy
        /\ Collected = SubSeq(buf[txbuf[1]], 1, txbuf[2])
        /\ UnderWay = <<>>
    BY <1>6, PartsNow DEF Transmit, At, Parts, SetBank, PermissionOwned, SendInv, UnderWay
  <2>2. CASE class
    <3>1. pc' = "first" /\ sending' = txbuf
      BY <1>6, <2>1, <2>2 DEF Transmit, At
    <3>2. UnderWay' = Collected
      BY <1>1, <2>1, <3>1 DEF UnderWay
    <3>3. Collected' = <<>>
      BY <3>1, PartsNext DEF Parts
    <3>4. Collected \in Seq(Values)
      BY PendingType
    <3>5. Pending' = Pending
      <4>1. Pending = (<<>> \o Collected) \o queue
        BY <2>1 DEF Pending
      <4>2. Pending' = (Collected \o <<>>) \o queue
        BY <1>1, <3>2, <3>3 DEF Pending
      <4>. QED  BY <3>4, <4>1, <4>2, ConcatEmptySeq
    <3>. QED  BY <1>1, <3>5
  <2>3. CASE ~ class
    <3>1. pc' = "back" /\ UNCHANGED <<sending, bank>>
      BY <1>6, <2>1, <2>3 DEF Transmit, At
    <3>2. UnderWay' = UnderWay
      BY <1>1, <3>1 DEF UnderWay
    <3>3. Collected' = First(len[bank])
      BY <1>1, <3>1, PartsNext DEF Parts, First
    <3>4. ~ settled
      BY <2>3 DEF SendInv
    <3>5. CASE txbuf = <<bank, len[bank]>>
      <4>1. Collected' = Collected
        BY <2>1, <3>3, <3>5 DEF First
      <4>. QED  BY <1>1, <3>2, <4>1 DEF Pending
    <3>6. CASE len[bank] = 0
      <4>1. Collected' = <<>>
        BY <3>3, <3>6, PrefixNone DEF First
      <4>. QED  BY <1>1, <3>2, <3>4, <4>1, LoseCollected
    <3>. QED  BY <2>1, <3>5, <3>6 DEF SendInv
  <2>. QED  BY <2>2, <2>3
<1>. QED  BY <1>3, <1>4, <1>5, <1>6

LEMMA ResetStep ==
  ASSUME IInv, Reset \/ Configure
  PROVE  /\ UNCHANGED <<put, sent, settled>> /\ ~ settled
         /\ Pending' = Pending \/ Loses(Pending, Pending')
<1>1. UNCHANGED <<put, sent, settled>> /\ ~ settled
  BY DEF Reset, Configure, writerVars
<1>2. UNCHANGED <<queue, buf, bank, pc, c, sending>> /\ len' = [k \in Banks |-> 0]
  BY DEF Reset, Configure, taskVars, usbVars
<1>3. txbuf' = txbuf \/ txbuf'[2] = 0
  <2>1. CASE Reset
    BY <2>1 DEF Reset, usbVars
  <2>2. CASE Configure
    BY <2>2 DEF Configure
  <2>. QED  BY <2>1, <2>2
<1>. QED  BY <1>1, <1>2, <1>3, LenReset

LEMMA LeavesStep ==
  ASSUME IInv, HostLeaves
  PROVE  /\ UNCHANGED <<put, sent, settled>> /\ ~ settled
         /\ Loses(Pending, Pending')
<1>1. UNCHANGED <<put, sent, settled, queue, buf, len, bank, pc, c, txbuf>> /\ ~ settled
  BY DEF HostLeaves, taskVars, writerVars
<1>2. UnderWay' = <<>>
  BY DEF HostLeaves, UnderWay
<1>3. Collected' = Collected
  BY <1>1 DEF Collected, First
<1>4. UnderWay \in Seq(Values) /\ Collected \in Seq(Values) /\ queue \in Seq(Values)
  BY PendingType
<1>5. Collected \o queue \in Seq(Values) /\ <<>> \in Seq(Values)
  BY <1>4, ConcatProperties, EmptySeq
<1>6. Pending = (<<>> \o UnderWay) \o (Collected \o queue)
  <2>1. Pending = UnderWay \o (Collected \o queue)
    BY <1>4, Associative DEF Pending
  <2>2. <<>> \o UnderWay = UnderWay
    BY <1>4, ConcatEmptySeq
  <2>. QED  BY <2>1, <2>2
<1>7. Pending' = <<>> \o (Collected \o queue)
  <2>1. Pending' = (<<>> \o Collected) \o queue
    BY <1>1, <1>2, <1>3 DEF Pending
  <2>2. <<>> \o Collected = Collected /\ <<>> \o (Collected \o queue) = Collected \o queue
    BY <1>4, <1>5, ConcatEmptySeq
  <2>. QED  BY <2>1, <2>2
<1>. QED  BY <1>1, <1>4, <1>5, <1>6, <1>7, LoseMiddle

LEMMA DataInStep ==
  ASSUME IInv, DataIn
  PROVE  Channel!Deliver
<1>1. UNCHANGED <<put, settled, queue, buf, len, bank, pc, c, txbuf>> /\ sent' = ~ sent
  BY DEF DataIn, taskVars, writerVars
<1>2. UnderWay' = <<>>
  BY DEF DataIn, UnderWay
<1>3. Collected' = Collected
  BY <1>1 DEF Collected, First
<1>4. UnderWay \in Seq(Values) /\ Collected \in Seq(Values) /\ queue \in Seq(Values)
  BY PendingType
<1>5. Collected \o queue \in Seq(Values)
  BY <1>4, ConcatProperties
<1>6. Pending = UnderWay \o (Collected \o queue)
  BY <1>4, Associative DEF Pending
<1>7. Pending' = Collected \o queue
  <2>1. Pending' = (<<>> \o Collected) \o queue
    BY <1>1, <1>2, <1>3 DEF Pending
  <2>. QED  BY <1>4, <2>1, ConcatEmptySeq
<1>8. Len(UnderWay) \in 0 .. Len(Pending)
  <2>1. Len(Pending) = Len(UnderWay) + Len(Collected \o queue)
    BY <1>4, <1>5, <1>6, ConcatProperties
  <2>. QED  BY <1>4, <1>5, <2>1, LenProperties
<1>9. Pending' = SubSeq(Pending, Len(UnderWay) + 1, Len(Pending))
  BY <1>4, <1>5, <1>6, <1>7, RearOf
<1>. QED  BY <1>1, <1>8, <1>9 DEF Channel!Deliver, Pending

LEMMA ChannelStep == IInv /\ SendInv /\ [Next]_vars => [Channel!Next]_(Channel!vars)
<1>. SUFFICES ASSUME IInv, SendInv, [Next]_vars PROVE [Channel!Next]_(Channel!vars)
  OBVIOUS
<1>1. ASSUME UNCHANGED <<queue, buf, len, bank, pc, c, txbuf, sending, put, sent, settled>>
      PROVE  UNCHANGED Channel!vars
  BY <1>1, Stutters DEF Pending, UnderWay, Collected, First
<1>2. CASE Write
  BY <1>2, Accepts DEF Write, Channel!Next
<1>3. CASE GiveUp
  BY <1>1, <1>3 DEF GiveUp, taskVars, usbVars
<1>4. CASE WriteBroken
  <2>1. CASE Accept
    BY <1>4, <2>1, Accepts DEF WriteBroken, Channel!Next
  <2>2. CASE UNCHANGED <<queue, put, broken>>
    BY <1>1, <1>4, <2>2 DEF WriteBroken, taskVars, usbVars
  <2>. QED  BY <1>4, <2>1, <2>2 DEF WriteBroken
<1>5. CASE Reset \/ Configure
  BY <1>5, ResetStep, Stutters, Lossy DEF Channel!Next
<1>6. CASE Take("first", "begin") \/ Begin \/ More \/ Store \/ Count \/ Filled
  BY <1>6, FillStep, Stutters
<1>7. CASE Drop \/ Connected \/ WaitSent \/ Check \/ Transmit \/ Back
  BY <1>7, SendStep, Stutters, Lossy DEF Channel!Next
<1>8. CASE DataIn
  BY <1>8, DataInStep DEF Channel!Next
<1>9. CASE HostLeaves
  BY <1>9, LeavesStep, Lossy DEF Channel!Next
<1>10. CASE Settle
  <2>1. /\ settled' = TRUE
        /\ UNCHANGED <<queue, buf, len, bank, pc, c, txbuf, sending, put, sent>>
    BY <1>10 DEF Settle, taskVars, usbVars, writerVars
  <2>2. Pending' = Pending
    BY <2>1 DEF Pending, UnderWay, Collected, First
  <2>. QED  BY <2>1, <2>2 DEF Channel!Settle, Channel!Next, Pending
<1>11. CASE UNCHANGED vars
  BY <1>1, <1>11 DEF vars, taskVars, usbVars, writerVars
<1>. QED
  BY <1>2, <1>3, <1>4, <1>5, <1>6, <1>7, <1>8, <1>9, <1>10, <1>11 DEF Next, Task

\* Whatever writers, Ctrl-C and the host do between the steps of
\* task_vcp_tx_entry, bytes reach the host in the order they were written, each
\* at most once, and none that the queue accepted is lost once the host stays:
\* the driver implements ByteChannel.
THEOREM OutputOrder == Spec => SendsInOrder
<1>1. Init => Channel!Init
  <2>. SUFFICES ASSUME Init PROVE Channel!Init
    OBVIOUS
  <2>1. UnderWay = <<>> /\ Collected = <<>> /\ queue = <<>>
    BY DEF Init, UnderWay, Collected
  <2>2. UnderWay \o Collected \o queue = <<>>
    <3>1. <<>> \in Seq(Values)
      BY EmptySeq
    <3>. QED  BY <2>1, <3>1, ConcatEmptySeq
  <2>. QED  BY <2>2 DEF Init, Channel!Init
<1>. QED
  BY <1>1, Invariance, InitSendInv, NextSendInv, ChannelStep, PTL
     DEF Spec, SendsInOrder, Channel!Spec
=============================================================================
