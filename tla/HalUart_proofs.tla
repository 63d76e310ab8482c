-------------------------- MODULE HalUart_proofs ---------------------------
(***************************************************************************)
(* Proofs about HalUart, for every set of bytes and of writing tasks and   *)
(* every length of the queues.                                             *)
(***************************************************************************)
EXTENDS HalUart, SequenceTheorems, TLAPS

\* The inductive invariant: a reset under way means that the line is not
\* settled, which is what makes its loss legal.
IInv ==
  /\ TypeOK
  /\ NoByteStranded
  /\ resetting => ~ settled

USE HalUartAssumption

-----------------------------------------------------------------------------
(* The invariant.                                                          *)

LEMMA NoBytes == <<>> \in Seq(Bytes) /\ Len(<<>>) = 0
BY EmptySeq

LEMMA InitIInv == Init => IInv
<1>. SUFFICES ASSUME Init PROVE IInv
  OBVIOUS
<1>1. /\ txq \in Seq(Bytes) /\ Len(txq) = 0
      /\ rxq \in Seq(Bytes) /\ Len(rxq) = 0
  BY NoBytes DEF Init
<1>2. TypeOK
  <2>1. Len(txq) <= TxLen /\ Len(rxq) <= RxLen
    BY <1>1
  <2>2. /\ txe \in BOOLEAN /\ ore \in BOOLEAN
        /\ tdr \in Bytes \union {None} /\ rdr \in Bytes \union {None}
        /\ irq \in {"out", "rx", "ore"}
    BY DEF Init
  <2>3. /\ enabling \subseteq Writers
        /\ resetting \in BOOLEAN /\ settled \in BOOLEAN
    BY DEF Init
  <2>4. put \in BOOLEAN /\ sent \in BOOLEAN /\ received \in BOOLEAN /\ got \in BOOLEAN
    BY DEF Init
  <2>. QED  BY <1>1, <2>1, <2>2, <2>3, <2>4, Zenon DEF TypeOK
<1>. QED  BY <1>2 DEF Init, IInv, NoByteStranded

\* What taking the first byte and adding one do to a queue of bytes.
LEMMA TakeFirst ==
  ASSUME NEW q \in Seq(Bytes), q # <<>>
  PROVE  /\ Head(q) \in Bytes
         /\ Tail(q) \in Seq(Bytes)
         /\ Len(Tail(q)) = Len(q) - 1
         /\ <<Head(q)>> \in Seq(Bytes)
         /\ q = <<Head(q)>> \o Tail(q)
<1>1. /\ Head(q) \in Bytes /\ Tail(q) \in Seq(Bytes) /\ Len(Tail(q)) = Len(q) - 1
      /\ \A i \in 1 .. Len(Tail(q)) : Tail(q)[i] = q[i + 1]
  BY HeadTailProperties
<1>2. Len(q) \in Nat /\ Len(q) # 0
  BY EmptySeq, LenProperties
<1>3. <<Head(q)>> \in Seq(Bytes) /\ Len(<<Head(q)>>) = 1 /\ <<Head(q)>>[1] = Head(q)
  BY <1>1
<1>4. /\ <<Head(q)>> \o Tail(q) \in Seq(Bytes)
      /\ Len(<<Head(q)>> \o Tail(q)) = Len(q)
      /\ \A i \in 1 .. Len(q) : (<<Head(q)>> \o Tail(q))[i] =
            IF i <= 1 THEN <<Head(q)>>[i] ELSE Tail(q)[i - 1]
  BY <1>1, <1>2, <1>3, ConcatProperties
<1>5. \A i \in 1 .. Len(q) : (<<Head(q)>> \o Tail(q))[i] = q[i]
  <2>. SUFFICES ASSUME NEW i \in 1 .. Len(q)
                PROVE  (<<Head(q)>> \o Tail(q))[i] = q[i]
    OBVIOUS
  <2>1. CASE i = 1
    <3>1. Head(q) = q[1]
      BY <1>2
    <3>. QED  BY <2>1, <3>1, <1>3, <1>4
  <2>2. CASE i # 1
    <3>1. i - 1 \in 1 .. Len(Tail(q)) /\ (i - 1) + 1 = i /\ ~ i <= 1
      BY <2>2, <1>1, <1>2
    <3>. QED  BY <3>1, <1>1, <1>4
  <2>. QED  BY <2>1, <2>2
<1>6. q = <<Head(q)>> \o Tail(q)
  BY <1>4, <1>5, SeqEqual
<1>. QED  BY <1>1, <1>3, <1>6

LEMMA NextIInv == IInv /\ [Next]_vars => IInv'
<1>. SUFFICES ASSUME IInv, [Next]_vars PROVE IInv'
  OBVIOUS
<1>. USE DEF IInv, TypeOK, NoByteStranded, history
<1>1. ASSUME NEW w \in Writers, Put(w) PROVE IInv'
  <2>1. PICK b \in Bytes : txq' = Append(txq, b)
    BY <1>1 DEF Put
  <2>2. txq' \in Seq(Bytes) /\ Len(txq') = Len(txq) + 1 /\ Len(txq') <= TxLen
    BY <1>1, <2>1, AppendProperties, LenProperties DEF Put
  <2>. QED  BY <1>1, <2>2 DEF Put
<1>2. ASSUME NEW w \in Writers, Enable(w) PROVE IInv'
  BY <1>2 DEF Enable
<1>3. CASE Get
  BY <1>3, TakeFirst, LenProperties DEF Get
<1>4. CASE ResetRx
  BY <1>4, NoBytes DEF ResetRx
<1>5. CASE ResetTx
  <2>1. txq' = <<>> /\ txq' \in Seq(Bytes) /\ Len(txq') = 0
    BY <1>5, NoBytes DEF ResetTx
  <2>2. TypeOK'
    <3>1. Len(txq') <= TxLen
      BY <2>1
    <3>2. UNCHANGED <<rxq, txe, tdr, rdr, ore, irq, enabling, settled>>
      BY <1>5 DEF ResetTx
    <3>3. UNCHANGED <<put, sent, received, got>> /\ resetting' = FALSE
      BY <1>5 DEF ResetTx
    <3>. QED  BY <2>1, <3>1, <3>2, <3>3
  <2>. QED  BY <1>5, <2>1, <2>2 DEF ResetTx
<1>6. CASE Settle
  BY <1>6 DEF Settle
<1>7. CASE IrqTx
  <2>1. CASE txe /\ tdr = None /\ txq # <<>>
    <3>1. tdr' = Head(txq) /\ txq' = Tail(txq) /\ txe' = txe
      BY <1>7, <2>1 DEF IrqTx
    <3>2. Head(txq) \in Bytes /\ Tail(txq) \in Seq(Bytes) /\ Len(Tail(txq)) = Len(txq) - 1
      BY <2>1, TakeFirst
    <3>3. tdr' \in Bytes /\ txq' \in Seq(Bytes) /\ Len(txq') <= TxLen
      BY <3>1, <3>2, LenProperties
    <3>4. /\ UNCHANGED <<rxq, rdr, ore, enabling, resetting, settled>>
          /\ UNCHANGED <<put, sent, received, got>>
          /\ irq' = "rx"
      BY <1>7 DEF IrqTx
    <3>5. TypeOK'
      BY <3>1, <3>3, <3>4
    <3>. QED  BY <2>1, <3>1, <3>4, <3>5
  <2>2. CASE txe /\ tdr = None /\ txq = <<>>
    BY <1>7, <2>2 DEF IrqTx
  <2>3. CASE ~ (txe /\ tdr = None)
    BY <1>7, <2>3 DEF IrqTx
  <2>. QED  BY <2>1, <2>2, <2>3
<1>8. CASE IrqRx
  <2>1. CASE rdr # None /\ Len(rxq) < RxLen
    <3>1. rdr \in Bytes /\ rxq' = Append(rxq, rdr)
      BY <1>8, <2>1 DEF IrqRx
    <3>2. rxq' \in Seq(Bytes) /\ Len(rxq') = Len(rxq) + 1 /\ Len(rxq') <= RxLen
      BY <2>1, <3>1, AppendProperties, LenProperties
    <3>. QED  BY <1>8, <3>2 DEF IrqRx
  <2>2. CASE ~ (rdr # None /\ Len(rxq) < RxLen)
    BY <1>8, <2>2 DEF IrqRx
  <2>. QED  BY <2>1, <2>2
<1>9. CASE IrqOre
  BY <1>9 DEF IrqOre
<1>10. CASE Send
  BY <1>10 DEF Send
<1>11. ASSUME NEW b \in Bytes, Receive(b) PROVE IInv'
  BY <1>11 DEF Receive
<1>12. CASE UNCHANGED vars
  BY <1>12 DEF vars
<1>. QED
  BY <1>1, <1>2, <1>3, <1>4, <1>5, <1>6, <1>7, <1>8, <1>9, <1>10, <1>11, <1>12
     DEF Next, Irq

THEOREM Invariance == Spec => []IInv
BY InitIInv, NextIInv, PTL DEF Spec

\* Types of the driver's state; the queues never hold more than their lengths
\* (hal_uart.c:136-156, 187-193).
THEOREM TypeCorrect == Spec => []TypeOK
BY Invariance, PTL DEF IInv

\* Whatever the handler does between the two steps of a put, a byte in the
\* queue is never left without somebody to take it out.
THEOREM NeverStranded == Spec => []NoByteStranded
BY Invariance, PTL DEF IInv

-----------------------------------------------------------------------------
(* Parts of a concatenation.                                               *)

LEMMA FrontOf ==
  ASSUME NEW s \in Seq(Bytes), NEW t \in Seq(Bytes)
  PROVE  SubSeq(s \o t, 1, Len(s)) = s
<1>1. CASE s = <<>>
  <2>1. Len(s) = 0
    BY <1>1, EmptySeq
  <2>. QED  BY <1>1, <2>1, SubSeqEmpty
<1>2. CASE s # <<>>
  <2>1. 1 \in 1 .. Len(s) /\ Len(s) \in 1 .. Len(s)
    BY <1>2, EmptySeq
  <2>2. SubSeq(s \o t, 1, Len(s)) = SubSeq(s, 1, Len(s))
    BY <2>1, SubSeqOfConcat1
  <2>. QED  BY <2>2, SubSeqFull
<1>. QED  BY <1>1, <1>2

LEMMA RearOf ==
  ASSUME NEW s \in Seq(Bytes), NEW t \in Seq(Bytes)
  PROVE  SubSeq(s \o t, Len(s) + 1, Len(s \o t)) = t
<1>1. Len(s) \in Nat /\ Len(t) \in Nat /\ Len(s \o t) = Len(s) + Len(t)
  BY LenProperties, ConcatProperties
<1>2. CASE t = <<>>
  <2>1. Len(s \o t) < Len(s) + 1
    BY <1>1, <1>2, EmptySeq
  <2>. QED  BY <1>1, <1>2, <2>1, SubSeqEmpty
<1>3. CASE t # <<>>
  <2>1. Len(t) # 0
    BY <1>3, EmptySeq
  <2>2. /\ Len(s) + 1 \in Len(s) + 1 .. Len(s) + Len(t)
        /\ Len(s) + Len(t) \in Len(s) + 1 .. Len(s) + Len(t)
    BY <1>1, <2>1
  <2>3. SubSeq(s \o t, Len(s) + 1, Len(s) + Len(t))
          = SubSeq(t, (Len(s) + 1) - Len(s), (Len(s) + Len(t)) - Len(s))
    BY <2>2, SubSeqOfConcat2
  <2>4. (Len(s) + 1) - Len(s) = 1 /\ (Len(s) + Len(t)) - Len(s) = Len(t)
    BY <1>1
  <2>. QED  BY <1>1, <2>3, <2>4, SubSeqFull
<1>. QED  BY <1>2, <1>3

LEMMA AppendLast ==
  ASSUME NEW s \in Seq(Bytes), NEW t \in Seq(Bytes), NEW b \in Bytes
  PROVE  s \o Append(t, b) = Append(s \o t, b)
<1>1. <<b>> \in Seq(Bytes) /\ s \o t \in Seq(Bytes)
  BY ConcatProperties
<1>2. s \o Append(t, b) = s \o (t \o <<b>>)
  BY AppendIsConcat
<1>3. s \o (t \o <<b>>) = (s \o t) \o <<b>>
  BY <1>1, ConcatAssociative
<1>. QED  BY <1>1, <1>2, <1>3, AppendIsConcat

\* Losing the end or the front, as ByteChannel says it.
Loses(p, q) ==
  \E i, n \in 0 .. Len(p) :
    i + n <= Len(p) /\ q = SubSeq(p, 1, i) \o SubSeq(p, Len(p) - n + 1, Len(p))

LEMMA LoseRear ==
  ASSUME NEW s \in Seq(Bytes), NEW t \in Seq(Bytes)
  PROVE  Loses(s \o t, s)
<1>. DEFINE p == s \o t
<1>1. Len(s) \in Nat /\ Len(t) \in Nat /\ Len(p) = Len(s) + Len(t)
  BY LenProperties, ConcatProperties
<1>2. SubSeq(p, 1, Len(s)) = s
  BY FrontOf
<1>3. SubSeq(p, Len(p) - 0 + 1, Len(p)) = <<>>
  BY <1>1, SubSeqEmpty
<1>4. s \o <<>> = s
  BY ConcatEmptySeq
<1>5. Len(s) \in 0 .. Len(p) /\ 0 \in 0 .. Len(p) /\ Len(s) + 0 <= Len(p)
  BY <1>1
<1>. HIDE DEF p
<1>6. Loses(p, s)
  BY <1>2, <1>3, <1>4, <1>5 DEF Loses
<1>. QED  BY <1>6 DEF p

LEMMA LoseFront ==
  ASSUME NEW s \in Seq(Bytes), NEW t \in Seq(Bytes)
  PROVE  Loses(s \o t, t)
<1>. DEFINE p == s \o t
<1>1. Len(s) \in Nat /\ Len(t) \in Nat /\ Len(p) = Len(s) + Len(t)
  BY LenProperties, ConcatProperties
<1>2. SubSeq(p, 1, 0) = <<>>
  BY SubSeqEmpty
<1>3. Len(p) - Len(t) + 1 = Len(s) + 1
  BY <1>1
<1>4. SubSeq(p, Len(p) - Len(t) + 1, Len(p)) = t
  BY <1>3, RearOf
<1>5. <<>> \o t = t
  BY ConcatEmptySeq
<1>6. 0 \in 0 .. Len(p) /\ Len(t) \in 0 .. Len(p) /\ 0 + Len(t) <= Len(p)
  BY <1>1
<1>. HIDE DEF p
<1>7. Loses(p, t)
  BY <1>2, <1>4, <1>5, <1>6 DEF Loses
<1>. QED  BY <1>7 DEF p

\* The first byte comes out.
LEMMA DeliverFirst ==
  ASSUME NEW b \in Bytes, NEW t \in Seq(Bytes), NEW p, p = <<b>> \o t
  PROVE  \E n \in 0 .. Len(p) : t = SubSeq(p, n + 1, Len(p))
<1>1. <<b>> \in Seq(Bytes) /\ Len(<<b>>) = 1
  OBVIOUS
<1>2. Len(t) \in Nat /\ Len(p) = 1 + Len(t)
  BY <1>1, LenProperties, ConcatProperties
<1>3. SubSeq(p, Len(<<b>>) + 1, Len(p)) = t
  BY <1>1, RearOf
<1>. QED  BY <1>1, <1>2, <1>3

LEMMA RegisterType ==
  /\ InRegister(None) = <<>>
  /\ \A b \in Bytes : InRegister(b) = <<b>> /\ <<b>> \in Seq(Bytes)
  /\ \A r \in Bytes \union {None} : InRegister(r) \in Seq(Bytes)
<1>1. \A b \in Bytes : InRegister(b) = <<b>> /\ <<b>> \in Seq(Bytes)
  BY DEF InRegister
<1>2. InRegister(None) = <<>> /\ <<>> \in Seq(Bytes)
  BY EmptySeq DEF InRegister
<1>. QED  BY <1>1, <1>2

-----------------------------------------------------------------------------
(* The driver implements the channel in both directions.                   *)

TxPending == InRegister(tdr) \o txq
RxPending == rxq \o InRegister(rdr)

LEMMA TxStep == IInv /\ [Next]_vars => [Tx!Next]_(Tx!vars)
<1>. SUFFICES ASSUME IInv, [Next]_vars PROVE [Tx!Next]_(Tx!vars)
  OBVIOUS
<1>. DEFINE same == UNCHANGED <<TxPending, put, sent, settled>>
<1>0. /\ txq \in Seq(Bytes) /\ tdr \in Bytes \union {None}
      /\ InRegister(tdr) \in Seq(Bytes) /\ TxPending \in Seq(Bytes)
  BY RegisterType, ConcatProperties DEF IInv, TypeOK, TxPending
<1>s. same => [Tx!Next]_(Tx!vars)
  BY DEF TxPending, Tx!vars
<1>1. ASSUME NEW w \in Writers, Put(w) PROVE Tx!Accept
  <2>1. PICK b \in Bytes : txq' = Append(txq, b)
    BY <1>1 DEF Put
  <2>2. TxPending' = Append(TxPending, b)
    BY <1>0, <1>1, <2>1, AppendLast DEF Put, TxPending
  <2>. QED  BY <1>1, <2>2 DEF Put, Tx!Accept, TxPending
<1>2. ASSUME NEW w \in Writers, Enable(w) PROVE same
  BY <1>2 DEF Enable, history, TxPending
<1>3. CASE Get \/ ResetRx \/ IrqRx \/ IrqOre
  <2>. same
    BY <1>3 DEF Get, ResetRx, IrqRx, IrqOre, history, TxPending
  <2>. QED  BY <1>s
<1>4. ASSUME ResetTx PROVE Tx!Lose
  <2>1. /\ txq' = <<>> /\ ~ settled
        /\ UNCHANGED <<tdr, put, sent, settled>>
    BY <1>4 DEF ResetTx, history, IInv
  <2>2. TxPending' = InRegister(tdr)
    BY <1>0, <2>1, ConcatEmptySeq DEF TxPending
  <2>3. Loses(TxPending, InRegister(tdr))
    BY <1>0, LoseRear DEF TxPending
  <2>. QED  BY <2>1, <2>2, <2>3 DEF Loses, Tx!Lose, TxPending
<1>5. ASSUME Settle PROVE Tx!Settle
  BY <1>5 DEF Settle, Tx!Settle, history, TxPending
<1>6. ASSUME IrqTx PROVE same
  <2>1. UNCHANGED <<put, sent, settled>>
    BY <1>6 DEF IrqTx, history
  <2>2. CASE txe /\ tdr = None /\ txq # <<>>
    <3>1. tdr' = Head(txq) /\ txq' = Tail(txq)
      BY <1>6, <2>2 DEF IrqTx
    <3>2. Head(txq) \in Bytes /\ txq = <<Head(txq)>> \o Tail(txq)
      BY <1>0, <2>2, TakeFirst
    <3>3. TxPending' = txq
      BY <3>1, <3>2, RegisterType DEF TxPending
    <3>4. TxPending = txq
      BY <1>0, <2>2, RegisterType, ConcatEmptySeq DEF TxPending
    <3>. QED  BY <2>1, <3>3, <3>4
  <2>3. CASE ~ (txe /\ tdr = None /\ txq # <<>>)
    <3>1. UNCHANGED <<tdr, txq>>
      BY <1>6, <2>3 DEF IrqTx
    <3>. QED  BY <2>1, <3>1 DEF TxPending
  <2>. QED  BY <2>2, <2>3
<1>7. ASSUME Send PROVE Tx!Deliver
  <2>1. tdr \in Bytes /\ tdr' = None /\ sent' = ~ sent /\ UNCHANGED <<txq, put, settled>>
    BY <1>0, <1>7 DEF Send
  <2>2. TxPending = <<tdr>> \o txq /\ TxPending' = txq
    BY <1>0, <2>1, RegisterType, ConcatEmptySeq DEF TxPending
  <2>3. \E n \in 0 .. Len(TxPending) :
           TxPending' = SubSeq(TxPending, n + 1, Len(TxPending))
    BY <1>0, <2>1, <2>2, DeliverFirst
  <2>. QED  BY <2>1, <2>3 DEF Tx!Deliver, TxPending
<1>8. ASSUME NEW b \in Bytes, Receive(b) PROVE same
  BY <1>8 DEF Receive, TxPending
<1>9. CASE UNCHANGED vars
  <2>. same
    BY <1>9 DEF vars, history, TxPending
  <2>. QED  BY <1>s
<1>. QED
  BY <1>s, <1>1, <1>2, <1>3, <1>4, <1>5, <1>6, <1>7, <1>8, <1>9
     DEF Next, Irq, Tx!Next

LEMMA RxStep == IInv /\ [Next]_vars => [Rx!Next]_(Rx!vars)
<1>. SUFFICES ASSUME IInv, [Next]_vars PROVE [Rx!Next]_(Rx!vars)
  OBVIOUS
<1>. DEFINE same == UNCHANGED <<RxPending, received, got>>
<1>0. /\ rxq \in Seq(Bytes) /\ rdr \in Bytes \union {None}
      /\ InRegister(rdr) \in Seq(Bytes) /\ RxPending \in Seq(Bytes)
  BY RegisterType, ConcatProperties DEF IInv, TypeOK, RxPending
<1>s. same => [Rx!Next]_(Rx!vars)
  BY DEF RxPending, Rx!vars
\* A step that keeps one of the two parts and counts nothing loses the other.
<1>a. Loses(RxPending, rxq)
  BY <1>0, LoseRear DEF RxPending
<1>b. Loses(RxPending, InRegister(rdr))
  BY <1>0, LoseFront DEF RxPending
<1>r. ASSUME UNCHANGED <<received, got>>, RxPending' = rxq PROVE Rx!Lose
  BY <1>a, <1>r DEF Loses, Rx!Lose, RxPending
<1>f. ASSUME UNCHANGED <<received, got>>, RxPending' = InRegister(rdr) PROVE Rx!Lose
  BY <1>b, <1>f DEF Loses, Rx!Lose, RxPending
<1>1. CASE (\E w \in Writers : Put(w) \/ Enable(w)) \/ ResetTx \/ Settle \/ IrqTx \/ Send
  <2>. same
    BY <1>1 DEF Put, Enable, ResetTx, Settle, IrqTx, Send, history, RxPending
  <2>. QED  BY <1>s
<1>2. ASSUME Get PROVE Rx!Deliver
  <2>1. /\ rxq # <<>> /\ rxq' = Tail(rxq) /\ got' = ~ got
        /\ UNCHANGED <<rdr, received>>
    BY <1>2 DEF Get
  <2>. DEFINE h == Head(rxq)
              r == Tail(rxq) \o InRegister(rdr)
  <2>2. /\ h \in Bytes /\ Tail(rxq) \in Seq(Bytes)
        /\ <<h>> \in Seq(Bytes) /\ rxq = <<h>> \o Tail(rxq)
    BY <1>0, <2>1, TakeFirst
  <2>3. r \in Seq(Bytes) /\ RxPending' = r
    BY <1>0, <2>1, <2>2, ConcatProperties DEF RxPending
  <2>4. (<<h>> \o Tail(rxq)) \o InRegister(rdr) = <<h>> \o (Tail(rxq) \o InRegister(rdr))
    BY <1>0, <2>2, ConcatAssociative
  <2>5. RxPending = <<h>> \o r
    BY <2>2, <2>4 DEF RxPending
  <2>. HIDE DEF h, r
  <2>6. \E n \in 0 .. Len(RxPending) : r = SubSeq(RxPending, n + 1, Len(RxPending))
    BY <2>2, <2>3, <2>5, DeliverFirst
  <2>. QED  BY <2>1, <2>3, <2>6 DEF Rx!Deliver, RxPending
<1>3. ASSUME ResetRx PROVE Rx!Lose
  <2>1. rxq' = <<>> /\ UNCHANGED <<rdr, received, got>>
    BY <1>3 DEF ResetRx, history
  <2>2. RxPending' = InRegister(rdr)
    BY <1>0, <2>1, ConcatEmptySeq DEF RxPending
  <2>. QED  BY <1>f, <2>1, <2>2
<1>4. ASSUME IrqRx PROVE same \/ Rx!Lose
  <2>1. rdr' = None /\ UNCHANGED <<received, got>>
    BY <1>4 DEF IrqRx, history
  <2>2. CASE rdr = None
    <3>. rxq' = rxq
      BY <1>4, <2>2 DEF IrqRx
    <3>. QED  BY <2>1, <2>2 DEF RxPending
  <2>3. CASE rdr # None /\ Len(rxq) < RxLen
    <3>1. rdr \in Bytes /\ rxq' = Append(rxq, rdr) /\ rxq' \in Seq(Bytes)
      BY <1>0, <1>4, <2>3, AppendProperties DEF IrqRx
    <3>2. RxPending = rxq \o <<rdr>> /\ RxPending' = Append(rxq, rdr)
      BY <2>1, <3>1, RegisterType, ConcatEmptySeq DEF RxPending
    <3>3. RxPending' = RxPending
      BY <1>0, <3>1, <3>2, AppendIsConcat
    <3>. QED  BY <2>1, <3>3
  <2>4. CASE rdr # None /\ ~ Len(rxq) < RxLen
    <3>1. rxq' = rxq
      BY <1>4, <2>4 DEF IrqRx
    <3>2. RxPending' = rxq
      BY <1>0, <2>1, <3>1, RegisterType, ConcatEmptySeq DEF RxPending
    <3>. QED  BY <1>r, <2>1, <3>2
  <2>. QED  BY <2>2, <2>3, <2>4
<1>5. ASSUME IrqOre PROVE same \/ Rx!Lose
  <2>1. UNCHANGED <<rxq, received, got>> /\ rdr' \in {rdr, None}
    BY <1>5 DEF IrqOre, history
  <2>2. CASE rdr' = rdr
    BY <2>1, <2>2 DEF RxPending
  <2>3. CASE rdr' = None
    <3>1. RxPending' = rxq
      BY <1>0, <2>1, <2>3, RegisterType, ConcatEmptySeq DEF RxPending
    <3>. QED  BY <1>r, <2>1, <3>1
  <2>. QED  BY <2>1, <2>2, <2>3
<1>6. ASSUME NEW b \in Bytes, Receive(b) PROVE same \/ Rx!Accept
  <2>1. UNCHANGED <<rxq, got>> /\ received \in BOOLEAN
    BY <1>6 DEF Receive, IInv, TypeOK
  <2>2. CASE rdr = None
    <3>1. rdr' = b /\ received' = ~ received
      BY <1>6, <2>1, <2>2 DEF Receive
    <3>2. RxPending = rxq /\ RxPending' = rxq \o <<b>>
      BY <1>0, <2>1, <2>2, <3>1, RegisterType, ConcatEmptySeq DEF RxPending
    <3>3. RxPending' = Append(RxPending, b)
      BY <1>0, <3>2, AppendIsConcat
    <3>. QED  BY <2>1, <3>1, <3>3 DEF Rx!Accept, RxPending
  <2>3. CASE rdr # None
    <3>1. rdr' = rdr /\ received' = received
      BY <1>6, <2>1, <2>3 DEF Receive
    <3>. QED  BY <2>1, <3>1 DEF RxPending
  <2>. QED  BY <2>2, <2>3
<1>7. CASE UNCHANGED vars
  <2>. same
    BY <1>7 DEF vars, history, RxPending
  <2>. QED  BY <1>s
<1>. QED
  BY <1>s, <1>1, <1>2, <1>3, <1>4, <1>5, <1>6, <1>7 DEF Next, Irq, Rx!Next

\* What tasks print comes out in the order of their puts, each byte once, and
\* only a Ctrl-C loses any: the channel, whatever the interleaving of tasks,
\* handler and UART.
THEOREM TransmitOrder == Spec => TransmitsInOrder
<1>1. Init => Tx!Init
  <2>. SUFFICES ASSUME Init PROVE InRegister(tdr) \o txq = <<>>
    BY DEF Init, Tx!Init
  <2>. QED  BY RegisterType, EmptySeq, ConcatEmptySeq DEF Init
<1>. QED  BY <1>1, Invariance, TxStep, PTL DEF Spec, TransmitsInOrder, Tx!Spec

\* What the shell reads is what was received, in that order and at most once.
THEOREM ReceiveOrder == Spec => ReceivesInOrder
<1>1. Init => Rx!Init
  <2>. SUFFICES ASSUME Init PROVE rxq \o InRegister(rdr) = <<>>
    BY DEF Init, Rx!Init
  <2>. QED  BY RegisterType, EmptySeq, ConcatEmptySeq DEF Init
<1>. QED  BY <1>1, Invariance, RxStep, PTL DEF Spec, ReceivesInOrder, Rx!Spec
=============================================================================
