------------------------ MODULE ShellEditor_proofs -------------------------
(***************************************************************************)
(* Proofs about ShellEditor, for every set of characters and every size of *)
(* the line and of the history.                                            *)
(***************************************************************************)
EXTENDS ShellEditor, FiniteSetTheorems, SequenceTheorems, TLAPS

\* A history array in which every stretch of CmdlineLen + 1 bytes holds a
\* terminator: what EntriesFit becomes when it has to survive a shift.
Windowed(h) ==
  /\ h[HistoryLen] = NUL
  /\ \A p \in Hist : p + CmdlineLen <= HistoryLen =>
       \E j \in p .. p + CmdlineLen : h[j] = NUL

Packed(h) ==
  /\ h[0] = NUL => \A j \in Hist : h[j] = NUL
  /\ \A i \in 0 .. HistoryLen - 1 :
       h[i] = NUL /\ h[i + 1] = NUL => \A j \in i .. HistoryLen : h[j] = NUL

\* The inductive invariant.
IInv ==
  /\ TypeOK
  /\ LineTerminated
  /\ Windowed(history)
  /\ Packed(history)
  /\ IndexInHistory

USE CharsAssumption, SizeAssumption

-----------------------------------------------------------------------------
(* The history array.                                                      *)

\* Starts is a finite set.
LEMMA StartsFinite == IsFiniteSet(Starts)
<1>1. IsFiniteSet(0 .. HistoryLen - 1)
  BY FS_Interval
<1>2. Starts \subseteq 0 .. HistoryLen - 1
  BY DEF Starts
<1>. QED  BY <1>1, <1>2, FS_Subset

\* A windowed history has no entry longer than the line.
LEMMA WindowedFits ==
  ASSUME TypeOK, Windowed(history)
  PROVE  EntriesFit
<1>. SUFFICES ASSUME NEW p \in Starts
              PROVE  \E n \in 1 .. CmdlineLen : p + n \in Hist /\ history[p + n] = NUL
  BY DEF EntriesFit
<1>1. p \in 0 .. HistoryLen - 1 /\ history[p] # NUL
  BY DEF Starts
<1>2. CASE p + CmdlineLen <= HistoryLen
  <2>1. PICK j \in p .. p + CmdlineLen : history[j] = NUL
    BY <1>1, <1>2 DEF Windowed, Hist
  <2>2. j - p \in 1 .. CmdlineLen /\ p + (j - p) = j /\ j \in Hist
    BY <1>1, <1>2, <2>1 DEF Hist
  <2>. QED  BY <2>1, <2>2
<1>3. CASE p + CmdlineLen > HistoryLen
  <2>1. HistoryLen - p \in 1 .. CmdlineLen /\ p + (HistoryLen - p) = HistoryLen
    BY <1>1, <1>3
  <2>. QED  BY <2>1 DEF Windowed, Hist
<1>. QED  BY <1>1, <1>2, <1>3

\* The byte of the pushed history at each place, before and after the tail is
\* zeroed.
LEMMA PushedBytes ==
  ASSUME TypeOK, len <= HistoryLen
  PROVE  /\ Pushed \in [Hist -> Symbols]
         /\ ZeroTail(Pushed) \in [Hist -> Symbols]
         /\ \A i \in Hist : ZeroTail(Pushed)[i] = NUL <=>
              Pushed[i] = NUL \/ \A j \in i .. HistoryLen : Pushed[j] # NUL
<1>1. Pushed \in [Hist -> Symbols]
  BY DEF Pushed, TypeOK, Hist, Line, Symbols
<1>2. ZeroTail(Pushed) \in [Hist -> Symbols]
  BY <1>1 DEF ZeroTail, Symbols
<1>3. ASSUME NEW i \in Hist
      PROVE  ZeroTail(Pushed)[i] = NUL <=>
               Pushed[i] = NUL \/ \A j \in i .. HistoryLen : Pushed[j] # NUL
  BY <1>1 DEF ZeroTail
<1>. QED  BY <1>1, <1>2, <1>3

\* The shift and the zeroed tail keep every entry short enough.
LEMMA PushKeepsWindows ==
  ASSUME TypeOK, LineTerminated, result = "reading", len > 0, len <= HistoryLen,
         Windowed(history)
  PROVE  Windowed(ZeroTail(Pushed))
<1>. DEFINE z == ZeroTail(Pushed)
<1>1. z[HistoryLen] = NUL
  BY PushedBytes DEF Hist
<1>2. ASSUME NEW p \in Hist, p + CmdlineLen <= HistoryLen
      PROVE  \E j \in p .. p + CmdlineLen : z[j] = NUL
  <2>1. CASE p <= len
    <3>1. len \in p .. p + CmdlineLen /\ len \in Hist
      BY <1>2, <2>1 DEF TypeOK, Line, Hist
    <3>2. Pushed[len] = NUL
      BY <3>1 DEF Pushed
    <3>. QED  BY <3>1, <3>2, PushedBytes
  <2>2. CASE p > len
    <3>. DEFINE q == p - len - 1
    <3>1. q \in Hist /\ q + CmdlineLen <= HistoryLen
      BY <1>2, <2>2 DEF TypeOK, Line, Hist
    <3>2. PICK j \in q .. q + CmdlineLen : history[j] = NUL
      BY <3>1 DEF Windowed
    <3>. DEFINE k == j + len + 1
    <3>3. k \in p .. p + CmdlineLen /\ k \in Hist /\ k > len /\ k - len - 1 = j
      BY <1>2, <2>2, <3>1, <3>2 DEF TypeOK, Line, Hist
    <3>4. Pushed[k] = history[k - len - 1]
      BY <3>3 DEF Pushed, Hist, TypeOK, Line
    <3>. QED  BY <3>2, <3>3, <3>4, PushedBytes
  <2>. QED  BY <1>2, <2>1, <2>2 DEF TypeOK, Line, Hist
<1>. QED  BY <1>1, <1>2 DEF Windowed

\* ... and leave no entry behind an empty one.
LEMMA PushKeepsPacked ==
  ASSUME TypeOK, LineTerminated, result = "reading", len > 0, len <= HistoryLen,
         Packed(history)
  PROVE  Packed(ZeroTail(Pushed))
<1>. DEFINE z == ZeroTail(Pushed)
<1>. DEFINE CutFrom(i) == \A j \in i .. HistoryLen : Pushed[j] # NUL
<1>1. /\ \A i \in 0 .. len - 1 : Pushed[i] # NUL
      /\ Pushed[len] = NUL
      /\ \A i \in len + 1 .. HistoryLen : Pushed[i] = history[i - len - 1]
  BY DEF Pushed, LineTerminated, TypeOK, Line, Hist
<1>2. z[0] # NUL
  <2>1. ~ CutFrom(0)
    BY <1>1 DEF TypeOK, Line
  <2>. QED  BY <1>1, <2>1, PushedBytes DEF TypeOK, Line, Hist
<1>3. ASSUME NEW i \in 0 .. HistoryLen - 1, z[i] = NUL, z[i + 1] = NUL,
             NEW j \in i .. HistoryLen
      PROVE  z[j] = NUL
  <2>0. i \in Hist /\ i + 1 \in Hist /\ j \in Hist
    BY <1>3 DEF Hist
  <2>1. CASE CutFrom(i)
    <3>1. CutFrom(j)
      BY <2>1
    <3>. QED  BY <2>0, <3>1, PushedBytes
  <2>2. CASE ~ CutFrom(i) /\ CutFrom(i + 1)
    <3>1. CASE j = i
      BY <1>3, <3>1
    <3>2. CASE j # i
      <4>1. CutFrom(j)
        BY <2>2, <3>2
      <4>. QED  BY <2>0, <4>1, PushedBytes
    <3>. QED  BY <3>1, <3>2
  <2>3. CASE ~ CutFrom(i) /\ ~ CutFrom(i + 1)
    <3>1. Pushed[i] = NUL /\ Pushed[i + 1] = NUL
      BY <1>3, <2>0, <2>3, PushedBytes
    <3>2. i >= len
      BY <1>1, <3>1 DEF TypeOK, Line
    <3>3. \A m \in Hist : m + len + 1 >= i /\ m + len + 1 <= HistoryLen => history[m] = NUL
      <4>1. CASE i = len
        <5>1. history[0] = NUL
          BY <1>1, <3>1, <4>1 DEF TypeOK, Line
        <5>. QED  BY <5>1 DEF Packed
      <4>2. CASE i > len
        <5>. DEFINE m0 == i - len - 1
        <5>1. m0 \in 0 .. HistoryLen - 1 /\ m0 + 1 = i + 1 - len - 1
          BY <4>2 DEF TypeOK, Line
        <5>2. history[m0] = NUL /\ history[m0 + 1] = NUL
          BY <1>1, <3>1, <4>2, <5>1 DEF TypeOK, Line
        <5>. QED  BY <5>1, <5>2 DEF Packed, TypeOK, Line, Hist
      <4>. QED  BY <3>2, <4>1, <4>2 DEF TypeOK, Line
    <3>4. CASE j = len
      BY <1>1, <2>0, <3>4, PushedBytes
    <3>5. CASE j # len
      <4>1. j - len - 1 \in Hist /\ j \in len + 1 .. HistoryLen
        BY <3>2, <3>5 DEF TypeOK, Line, Hist
      <4>2. Pushed[j] = NUL
        BY <1>1, <3>3, <4>1 DEF TypeOK, Line, Hist
      <4>. QED  BY <2>0, <4>2, PushedBytes
    <3>. QED  BY <3>4, <3>5
  <2>. QED  BY <2>1, <2>2, <2>3
<1>. QED  BY <1>2, <1>3 DEF Packed

-----------------------------------------------------------------------------
(* The steps.                                                              *)

\* Splicing at the cursor keeps the line terminated.
LEMMA InsertKeepsLine ==
  ASSUME TypeOK, LineTerminated, NEW c \in Chars, Insert(c)
  PROVE  TypeOK' /\ LineTerminated'
<1>1. /\ result = "reading" /\ result' = result /\ len < CmdlineLen
      /\ len' = len + 1 /\ cursor' = cursor + 1
      /\ UNCHANGED <<history, index>>
  BY DEF Insert, Typing
<1>2. cmdline' \in [Line -> Symbols]
  BY DEF Insert, TypeOK, Symbols, Line
<1>3. /\ cmdline'[len + 1] = NUL
      /\ \A i \in 0 .. len : cmdline'[i] # NUL
  BY <1>1 DEF Insert, TypeOK, LineTerminated, Line
<1>4. TypeOK'
  BY <1>1, <1>2 DEF TypeOK, Line
<1>. QED  BY <1>1, <1>3, <1>4 DEF LineTerminated, TypeOK, Line

\* So does cutting a byte out of it.
LEMMA CutKeepsLine ==
  ASSUME TypeOK, LineTerminated, result = "reading", NEW k \in 0 .. len - 1
  PROVE  /\ CutAt(k) \in [Line -> Symbols]
         /\ CutAt(k)[len - 1] = NUL
         /\ \A i \in 0 .. len - 2 : CutAt(k)[i] # NUL
<1>1. CutAt(k) \in [Line -> Symbols]
  BY DEF CutAt, TypeOK, Symbols, Line
<1>2. CutAt(k)[len - 1] = NUL
  BY DEF CutAt, TypeOK, Line
<1>3. \A i \in 0 .. len - 2 : CutAt(k)[i] # NUL
  BY DEF CutAt, TypeOK, LineTerminated, Line
<1>. QED  BY <1>1, <1>2, <1>3

\* ... and copying an entry of the history over it.
LEMMA RecallKeepsLine ==
  ASSUME TypeOK, NEW p \in Starts, RecallAt(p), result' = "reading"
  PROVE  /\ cmdline' \in [Line -> Symbols]
         /\ len' \in Line /\ cursor' = len'
         /\ LineTerminated'
<1>1. PICK n \in Line :
        /\ \A i \in 0 .. n - 1 : InEntry(p, i)
        /\ cmdline' = [i \in Line |->
             IF i < n THEN history[p + i] ELSE IF i = n THEN NUL ELSE cmdline[i]]
        /\ len' = n
        /\ cursor' = n
  BY DEF RecallAt
<1>2. \A i \in 0 .. n - 1 : p + i \in Hist /\ history[p + i] # NUL
  BY <1>1 DEF InEntry, Starts
<1>3. cmdline' \in [Line -> Symbols]
  BY <1>1, <1>2 DEF TypeOK, Symbols, Line, Hist
<1>4. cmdline'[n] = NUL /\ \A i \in 0 .. n - 1 : cmdline'[i] # NUL
  BY <1>1, <1>2 DEF Line
<1>. QED  BY <1>1, <1>3, <1>4 DEF LineTerminated

\* The k-th entry exists only if the history has k entries.
LEMMA EntryNumber ==
  ASSUME NEW k \in Nat, NEW p \in GetHistory(k)
  PROVE  p \in Starts /\ k \in 1 .. Cardinality(Starts)
<1>. DEFINE B == {q \in Starts : q < p}
<1>1. p \in Starts /\ Cardinality(B) + 1 = k
  BY DEF GetHistory
<1>2. IsFiniteSet(B) /\ Cardinality(B) \in Nat
  BY StartsFinite, FS_Subset, FS_CardinalityType
<1>3. p \notin B
  BY <1>1 DEF Starts
<1>4. Cardinality(B \union {p}) = Cardinality(B) + 1
  BY <1>2, <1>3, FS_AddElement
<1>5. B \union {p} \in SUBSET Starts
  BY <1>1
<1>6. Cardinality(B \union {p}) <= Cardinality(Starts) /\ Cardinality(Starts) \in Nat
  BY <1>5, StartsFinite, FS_Subset, FS_CardinalityType
<1>. QED  BY <1>1, <1>2, <1>4, <1>6

\* Starts depends on the history alone.
LEMMA StartsUnchanged ==
  ASSUME UNCHANGED history
  PROVE  Starts' = Starts
BY DEF Starts

\* The invariant holds at the start,
LEMMA InitIInv == Init => IInv
<1>. SUFFICES ASSUME Init PROVE IInv
  OBVIOUS
<1>1. TypeOK
  BY DEF Init, TypeOK, Symbols, Line, Hist
<1>2. LineTerminated
  BY DEF Init, LineTerminated
<1>3. Windowed(history) /\ Packed(history)
  BY DEF Init, Windowed, Packed, Hist
<1>4. IndexInHistory
  BY StartsFinite, FS_CardinalityType DEF Init, IndexInHistory
<1>. QED  BY <1>1, <1>2, <1>3, <1>4 DEF IInv

\* A step that leaves history and index alone keeps what is said of them.
LEMMA HistoryAlone ==
  ASSUME IInv, UNCHANGED <<history, index>>
  PROVE  Windowed(history)' /\ Packed(history)' /\ IndexInHistory'
BY StartsUnchanged DEF IInv, Windowed, Packed, IndexInHistory

\* every key keeps it,
LEMMA NextIInv == IInv /\ [Next]_vars => IInv'
<1>. SUFFICES ASSUME IInv, [Next]_vars PROVE IInv'
  OBVIOUS
<1>0. TypeOK /\ LineTerminated
  BY DEF IInv
<1>1. ASSUME NEW c \in Chars, Insert(c) PROVE IInv'
  <2>1. UNCHANGED <<history, index>>
    BY <1>1 DEF Insert, Typing
  <2>. QED  BY <1>0, <1>1, <2>1, InsertKeepsLine, HistoryAlone DEF IInv
<1>2. CASE Backspace
  <2>1. /\ UNCHANGED <<history, index, result>> /\ result = "reading"
        /\ cursor - 1 \in 0 .. len - 1 /\ cmdline' = CutAt(cursor - 1)
        /\ len' = len - 1 /\ cursor' = cursor - 1
    BY <1>0, <1>2 DEF Backspace, Typing, TypeOK, Line
  <2>2. TypeOK' /\ LineTerminated'
    BY <1>0, <2>1, CutKeepsLine DEF TypeOK, LineTerminated, Line
  <2>. QED  BY <2>1, <2>2, HistoryAlone DEF IInv
<1>3. CASE Delete
  <2>1. /\ UNCHANGED <<history, index, result>> /\ result = "reading"
        /\ cursor \in 0 .. len - 1 /\ cmdline' = CutAt(cursor)
        /\ len' = len - 1 /\ cursor' = cursor
    BY <1>0, <1>3 DEF Delete, Typing, TypeOK, Line
  <2>2. TypeOK' /\ LineTerminated'
    BY <1>0, <2>1, CutKeepsLine DEF TypeOK, LineTerminated, Line
  <2>. QED  BY <2>1, <2>2, HistoryAlone DEF IInv
<1>4. CASE Kill
  <2>1. UNCHANGED <<history, index, result>> /\ result = "reading"
    BY <1>4 DEF Kill, Typing
  <2>2. TypeOK' /\ LineTerminated'
    BY <1>0, <1>4, <2>1 DEF Kill, TypeOK, LineTerminated, Line, Symbols
  <2>. QED  BY <2>1, <2>2, HistoryAlone DEF IInv
<1>5. CASE Move
  <2>1. UNCHANGED <<cmdline, len, history, index, result>>
    BY <1>5 DEF Move, Typing
  <2>2. TypeOK' /\ LineTerminated'
    BY <1>0, <1>5, <2>1 DEF Move, TypeOK, LineTerminated, Line
  <2>. QED  BY <2>1, <2>2, HistoryAlone DEF IInv
<1>6. CASE Previous \/ NextKey
  <2>1. PICK k \in {index + 1, index - 1} :
          /\ k \in Nat /\ index' = k
          /\ \E p \in GetHistory(k) : RecallAt(p)
    BY <1>0, <1>6 DEF Previous, NextKey, TypeOK
  <2>2. PICK p \in GetHistory(k) : RecallAt(p)
    BY <2>1
  <2>3. p \in Starts /\ k \in 1 .. Cardinality(Starts)
    BY <2>1, <2>2, EntryNumber
  <2>4. UNCHANGED <<history, result>> /\ result = "reading"
    BY <1>6 DEF Previous, NextKey
  <2>5. TypeOK' /\ LineTerminated'
    BY <1>0, <2>1, <2>2, <2>3, <2>4, RecallKeepsLine DEF TypeOK, Line
  <2>6. IndexInHistory'
    BY <2>1, <2>3, <2>4, StartsUnchanged, StartsFinite, FS_CardinalityType
       DEF IndexInHistory
  <2>7. Windowed(history)' /\ Packed(history)'
    BY <2>4 DEF IInv, Windowed, Packed
  <2>. QED  BY <2>5, <2>6, <2>7 DEF IInv
<1>7. CASE Enter
  <2>1. /\ result = "reading" /\ result' = "line" /\ UNCHANGED <<len, cursor>>
        /\ cmdline' = [cmdline EXCEPT ![len] = NUL] /\ AddToHistory
    BY <1>7 DEF Enter
  <2>2. cmdline' \in [Line -> Symbols] /\ LineTerminated'
    BY <1>0, <2>1 DEF TypeOK, LineTerminated, Line, Symbols
  <2>3. CASE len = 0 \/ len > HistoryLen
    <3>1. UNCHANGED <<history, index>>
      BY <2>1, <2>3 DEF AddToHistory
    <3>2. TypeOK'
      BY <1>0, <2>1, <2>2, <3>1 DEF TypeOK
    <3>. QED  BY <2>2, <3>1, <3>2, HistoryAlone DEF IInv
  <2>4. CASE ~ (len = 0 \/ len > HistoryLen)
    <3>1. history' = ZeroTail(Pushed) /\ index' = 0
      BY <2>1, <2>4 DEF AddToHistory
    <3>2. len > 0 /\ len <= HistoryLen
      BY <1>0, <2>4 DEF TypeOK, Line
    <3>3. TypeOK'
      BY <1>0, <2>1, <2>2, <3>1, <3>2, PushedBytes DEF TypeOK
    <3>4. Windowed(history')
      BY <1>0, <2>1, <3>1, <3>2, PushKeepsWindows DEF IInv
    <3>5. Packed(history')
      BY <1>0, <2>1, <3>1, <3>2, PushKeepsPacked DEF IInv
    <3>6. IndexInHistory'
      <4>1. IsFiniteSet(Starts)'
        <5>1. IsFiniteSet(0 .. HistoryLen - 1)
          BY FS_Interval
        <5>2. Starts' \in SUBSET (0 .. HistoryLen - 1)
          BY DEF Starts
        <5>. QED  BY <5>1, <5>2, FS_Subset
      <4>. QED  BY <3>1, <4>1, FS_CardinalityType DEF IndexInHistory
    <3>. QED  BY <2>2, <3>3, <3>4, <3>5, <3>6 DEF IInv, Windowed, Packed
  <2>. QED  BY <2>3, <2>4
<1>8. CASE Interrupt
  <2>1. /\ UNCHANGED <<cmdline, history>> /\ index' = 0 /\ len' = 0
        /\ cursor' = 0 /\ result' = "interrupt"
    BY <1>8 DEF Interrupt
  <2>2. TypeOK' /\ LineTerminated'
    BY <1>0, <2>1 DEF TypeOK, LineTerminated, Line
  <2>3. IndexInHistory'
    BY <2>1, StartsUnchanged, StartsFinite, FS_CardinalityType DEF IndexInHistory
  <2>. QED  BY <2>1, <2>2, <2>3 DEF IInv, Windowed, Packed
<1>9. CASE EndOfInput
  <2>1. UNCHANGED <<len, cursor, history, index>> /\ result' = "eof"
    BY <1>9 DEF EndOfInput
  <2>2. TypeOK' /\ LineTerminated'
    BY <1>0, <1>9, <2>1 DEF EndOfInput, TypeOK, LineTerminated, Symbols
  <2>. QED  BY <2>1, <2>2, HistoryAlone DEF IInv
<1>10. CASE ReadLine
  <2>1. /\ UNCHANGED <<history, index>> /\ len' = 0 /\ cursor' = 0
        /\ result' = "reading" /\ cmdline' \in Leftover
    BY <1>10 DEF ReadLine
  <2>2. Split \in [Line -> Symbols]
    BY <1>0 DEF Split, TypeOK, Symbols
  <2>3. cmdline' \in [Line -> Symbols]
    BY <1>0, <2>1, <2>2 DEF Leftover, TypeOK, Symbols
  <2>4. TypeOK' /\ LineTerminated'
    BY <1>0, <2>1, <2>3 DEF TypeOK, LineTerminated, Line
  <2>. QED  BY <2>1, <2>4, HistoryAlone DEF IInv
<1>11. CASE UNCHANGED vars
  <2>1. TypeOK' /\ LineTerminated'
    BY <1>0, <1>11 DEF vars, TypeOK, LineTerminated
  <2>. QED  BY <1>11, <2>1, HistoryAlone DEF vars, IInv
<1>. QED
  BY <1>1, <1>2, <1>3, <1>4, <1>5, <1>6, <1>7, <1>8, <1>9, <1>10, <1>11 DEF Next

\* so it always holds.
LEMMA Invariance == Spec => []IInv
BY InitIInv, NextIInv, PTL DEF Spec

\* Every variable of the editor keeps its type.
THEOREM TypeCorrect == Spec => []TypeOK
<1>1. IInv => TypeOK
  BY DEF IInv
<1>. QED  BY <1>1, Invariance, PTL

\* The length of a line and its terminator agree whenever the line is edited
\* or handed over: shell_read_line never returns a length its bytes deny.
THEOREM LineAlwaysTerminated == Spec => []LineTerminated
<1>1. IInv => LineTerminated
  BY DEF IInv
<1>. QED  BY <1>1, Invariance, PTL

\* No recalled entry overruns the command line, and none is hidden behind an
\* empty one, for every size of the two arrays.
THEOREM HistoryAlwaysWellFormed == Spec => []HistoryWellFormed
<1>1. IInv => HistoryWellFormed
  BY WindowedFits DEF IInv, HistoryWellFormed, HistoryPacked, Packed
<1>. QED  BY <1>1, Invariance, PTL

\* Ctrl-P and Ctrl-N never stand on an entry that is gone.
THEOREM IndexAlwaysInHistory == Spec => []IndexInHistory
<1>1. IInv => IndexInHistory
  BY DEF IInv
<1>. QED  BY <1>1, Invariance, PTL

-----------------------------------------------------------------------------
(* The editor implements CommandLine.                                      *)

Text(c, n) == [i \in 1 .. n |-> c[i - 1]]

\* While no terminator hides in it, a prefix of the array is a sequence of
\* characters.
LEMMA TextIsSeq ==
  ASSUME NEW c \in [Line -> Symbols], NEW n \in Line,
         \A i \in 0 .. n - 1 : c[i] # NUL
  PROVE  /\ Text(c, n) \in Seq(Chars)
         /\ Len(Text(c, n)) = n
         /\ \A i \in 1 .. n : Text(c, n)[i] = c[i - 1]
<1>1. \A i \in 1 .. n : c[i - 1] \in Chars
  BY DEF Line, Symbols
<1>2. Text(c, n) \in [1 .. n -> Chars]
  BY <1>1 DEF Text
<1>. QED  BY <1>2 DEF Text, Line

\* The bytes of an insertion are the sequence with the character inserted.
LEMMA InsertIsInsertAt ==
  ASSUME TypeOK, LineTerminated, NEW c \in Chars, Insert(c)
  PROVE  Text(cmdline', len') = CL!InsertAt(Text(cmdline, len), cursor + 1, c)
<1>. DEFINE s == Text(cmdline, len)
            t == Text(cmdline', len')
            l == SubSeq(s, 1, cursor)
            r == SubSeq(s, cursor + 1, len)
            v == l \o <<c>>
            u == v \o r
<1>1. /\ s \in Seq(Chars) /\ Len(s) = len
      /\ \A i \in 1 .. len : s[i] = cmdline[i - 1]
  <2>1. \A i \in 0 .. len - 1 : cmdline[i] # NUL
    BY DEF Insert, Typing, LineTerminated, TypeOK, Line
  <2>. QED  BY <2>1, TextIsSeq DEF TypeOK
<1>2. /\ t \in Seq(Chars) /\ Len(t) = len + 1
      /\ \A i \in 1 .. len + 1 : t[i] = cmdline'[i - 1]
  <2>1. TypeOK' /\ LineTerminated' /\ len' = len + 1 /\ result' = "reading"
    BY InsertKeepsLine DEF Insert, Typing
  <2>2. \A i \in 0 .. len' - 1 : cmdline'[i] # NUL
    BY <2>1 DEF LineTerminated, TypeOK, Line
  <2>. QED  BY <2>1, <2>2, TextIsSeq DEF TypeOK
<1>3. cursor \in Nat /\ len \in Nat /\ cursor <= len
  BY DEF TypeOK, Line
<1>4. /\ l \in Seq(Chars) /\ Len(l) = cursor
      /\ \A i \in 1 .. cursor : l[i] = s[i]
  BY <1>1, <1>3, SubSeqProperties
<1>5. /\ r \in Seq(Chars) /\ Len(r) = len - cursor
      /\ \A i \in 1 .. len - cursor : r[i] = s[cursor + i]
  BY <1>1, <1>3, SubSeqProperties
<1>6. /\ v \in Seq(Chars) /\ Len(v) = cursor + 1
      /\ \A i \in 1 .. cursor : v[i] = s[i]
      /\ v[cursor + 1] = c
  BY <1>3, <1>4, ConcatProperties DEF v
<1>. HIDE DEF v
<1>7. /\ u \in Seq(Chars) /\ Len(u) = len + 1
      /\ \A i \in 1 .. len + 1 :
           u[i] = IF i <= cursor + 1 THEN v[i] ELSE r[i - (cursor + 1)]
  <2>. HIDE DEF l, r
  <2>. QED  BY <1>3, <1>5, <1>6, ConcatProperties
<1>. HIDE DEF s, t, l, r, u
<1>8. ASSUME NEW i \in 1 .. len + 1 PROVE u[i] = t[i]
  <2>1. t[i] = cmdline'[i - 1] /\ i - 1 \in Line
    BY <1>2, <1>3 DEF Insert, Line
  <2>2. CASE i <= cursor
    <3>1. i \in 1 .. cursor /\ i \in 1 .. len
      BY <1>3, <2>2
    <3>2. u[i] = s[i]
      BY <1>3, <1>6, <1>7, <2>2, <3>1
    <3>3. u[i] = cmdline[i - 1]
      BY <1>1, <3>1, <3>2
    <3>4. cmdline'[i - 1] = cmdline[i - 1]
      BY <1>3, <2>1, <2>2 DEF Insert
    <3>. QED  BY <2>1, <3>3, <3>4
  <2>3. CASE i = cursor + 1
    <3>1. u[i] = c
      BY <1>3, <1>6, <1>7, <2>3
    <3>2. cmdline'[i - 1] = c
      BY <1>3, <2>1, <2>3 DEF Insert
    <3>. QED  BY <2>1, <3>1, <3>2
  <2>4. CASE i > cursor + 1
    <3>1. i - (cursor + 1) \in 1 .. len - cursor /\ cursor + (i - (cursor + 1)) = i - 1
      BY <1>3, <2>4
    <3>5. u[i] = r[i - (cursor + 1)]
      BY <1>3, <1>7, <2>4
    <3>2. u[i] = s[i - 1] /\ i - 1 \in 1 .. len
      BY <1>3, <1>5, <3>1, <3>5
    <3>3. u[i] = cmdline[(i - 1) - 1]
      BY <1>1, <3>2
    <3>4. cmdline'[i - 1] = cmdline[(i - 1) - 1]
      BY <1>3, <2>1, <2>4, <3>2 DEF Insert
    <3>. QED  BY <2>1, <3>3, <3>4
  <2>. QED  BY <1>3, <2>2, <2>3, <2>4
<1>9. u = t
  BY <1>2, <1>7, <1>8, SeqEqual
<1>10. CL!InsertAt(s, cursor + 1, c) = u
  <2>1. (cursor + 1) - 1 = cursor
    BY <1>3
  <2>. QED  BY <1>1, <2>1 DEF CL!InsertAt, u, v, l, r
<1>. QED  BY <1>9, <1>10 DEF s, t

\* The bytes of a cut are the sequence without the character.
LEMMA CutIsRemoveAt ==
  ASSUME TypeOK, LineTerminated, result = "reading", NEW k \in 0 .. len - 1
  PROVE  Text(CutAt(k), len - 1) = CL!RemoveAt(Text(cmdline, len), k + 1)
<1>. DEFINE s == Text(cmdline, len)
            t == Text(CutAt(k), len - 1)
            l == SubSeq(s, 1, k)
            r == SubSeq(s, k + 2, len)
            u == l \o r
<1>0. k \in Nat /\ len \in Nat /\ k + 1 <= len
  BY DEF TypeOK, Line
<1>1. /\ s \in Seq(Chars) /\ Len(s) = len
      /\ \A i \in 1 .. len : s[i] = cmdline[i - 1]
  <2>1. \A i \in 0 .. len - 1 : cmdline[i] # NUL
    BY <1>0 DEF LineTerminated, TypeOK
  <2>. QED  BY <2>1, TextIsSeq DEF TypeOK
<1>2. /\ t \in Seq(Chars) /\ Len(t) = len - 1
      /\ \A i \in 1 .. len - 1 : t[i] = CutAt(k)[i - 1]
  <2>1. len - 1 \in Line
    BY <1>0 DEF TypeOK, Line
  <2>2. \A i \in 0 .. (len - 1) - 1 : CutAt(k)[i] # NUL
    BY <1>0, CutKeepsLine
  <2>. QED  BY <2>1, <2>2, CutKeepsLine, TextIsSeq
<1>3. /\ l \in Seq(Chars) /\ Len(l) = k
      /\ \A i \in 1 .. k : l[i] = s[i]
  BY <1>0, <1>1, SubSeqProperties
<1>4. /\ r \in Seq(Chars) /\ Len(r) = len - k - 1
      /\ \A i \in 1 .. len - k - 1 : r[i] = s[k + 1 + i]
  <2>1. \A i \in k + 2 .. len : s[i] \in Chars
    BY <1>0, <1>1
  <2>. QED  BY <1>0, <2>1, SubSeqProperties
<1>5. /\ u \in Seq(Chars) /\ Len(u) = len - 1
      /\ \A i \in 1 .. len - 1 : u[i] = IF i <= k THEN l[i] ELSE r[i - k]
  <2>. HIDE DEF l, r
  <2>1. Len(l) + Len(r) = len - 1
    BY <1>0, <1>3, <1>4
  <2>2. /\ u \in Seq(Chars) /\ Len(u) = Len(l) + Len(r)
        /\ \A i \in 1 .. Len(l) + Len(r) :
             u[i] = IF i <= Len(l) THEN l[i] ELSE r[i - Len(l)]
    BY <1>3, <1>4, ConcatProperties
  <2>. HIDE DEF u
  <2>. QED  BY <1>3, <2>1, <2>2
<1>. HIDE DEF s, t, l, r, u
<1>6. ASSUME NEW i \in 1 .. len - 1 PROVE u[i] = t[i]
  <2>1. t[i] = CutAt(k)[i - 1] /\ i - 1 \in Line /\ i \in Line
    BY <1>0, <1>2 DEF TypeOK, Line
  <2>2. CASE i <= k
    <3>1. u[i] = cmdline[i - 1]
      BY <1>0, <1>1, <1>3, <1>5, <2>2
    <3>2. CutAt(k)[i - 1] = cmdline[i - 1]
      BY <1>0, <2>1, <2>2 DEF CutAt
    <3>. QED  BY <2>1, <3>1, <3>2
  <2>3. CASE i > k
    <3>1. i - k \in 1 .. len - k - 1 /\ k + 1 + (i - k) = i + 1 /\ i + 1 \in 1 .. len
      BY <1>0, <2>3
    <3>2. u[i] = cmdline[(i + 1) - 1]
      BY <1>0, <1>1, <1>4, <1>5, <2>3, <3>1
    <3>3. CutAt(k)[i - 1] = cmdline[(i - 1) + 1]
      BY <1>0, <2>1, <2>3 DEF CutAt
    <3>4. (i + 1) - 1 = (i - 1) + 1
      BY <3>1
    <3>. QED  BY <2>1, <3>2, <3>3, <3>4
  <2>. QED  BY <1>0, <2>2, <2>3
<1>7. u = t
  BY <1>2, <1>5, <1>6, SeqEqual
<1>8. CL!RemoveAt(s, k + 1) = u
  <2>1. (k + 1) - 1 = k /\ (k + 1) + 1 = k + 2
    BY <1>0
  <2>. QED  BY <1>1, <2>1 DEF CL!RemoveAt, u, l, r
<1>. QED  BY <1>7, <1>8 DEF s, t

\* While a line is read its bytes are a sequence of characters.
LEMMA ReadingText ==
  ASSUME TypeOK, LineTerminated, result = "reading"
  PROVE  /\ AbsLine = Text(cmdline, len) /\ AbsCursor = cursor
         /\ AbsLine \in Seq(Chars) /\ Len(AbsLine) = len
<1>1. \A i \in 0 .. len - 1 : cmdline[i] # NUL
  BY DEF LineTerminated, TypeOK, Line
<1>. QED  BY <1>1, TextIsSeq DEF AbsLine, AbsCursor, Text, TypeOK

\* An emptied line has no characters.
LEMMA EmptyText ==
  ASSUME NEW c
  PROVE  Text(c, 0) = <<>>
BY DEF Text

\* Cutting at the cursor keeps the characters left of it.
LEMMA KillIsPrefix ==
  ASSUME TypeOK, LineTerminated, Kill
  PROVE  Text(cmdline', len') = SubSeq(AbsLine, 1, cursor)
<1>. DEFINE s == Text(cmdline, len)
            t == Text(cmdline', len')
<1>1. /\ result = "reading" /\ len' = cursor /\ cursor < len
      /\ cmdline' = [cmdline EXCEPT ![cursor] = NUL]
      /\ cursor \in Nat /\ len \in Nat /\ cursor \in Line /\ len \in Line
  BY DEF Kill, Typing, TypeOK, Line
<1>2. /\ AbsLine = s /\ s \in Seq(Chars) /\ Len(s) = len
  BY <1>1, ReadingText
<1>3. \A i \in 1 .. len : s[i] = cmdline[i - 1]
  BY DEF Text
<1>4. cmdline' \in [Line -> Symbols]
  BY <1>1 DEF TypeOK, Symbols
<1>5. \A i \in 0 .. cursor - 1 : cmdline'[i] = cmdline[i] /\ cmdline'[i] # NUL
  BY <1>1 DEF TypeOK, LineTerminated, Line
<1>6. /\ t \in Seq(Chars) /\ Len(t) = cursor
      /\ \A i \in 1 .. cursor : t[i] = cmdline'[i - 1]
  <2>1. len' \in Line /\ \A i \in 0 .. len' - 1 : cmdline'[i] # NUL
    BY <1>1, <1>5
  <2>2. /\ t \in Seq(Chars) /\ Len(t) = len'
        /\ \A i \in 1 .. len' : t[i] = cmdline'[i - 1]
    BY <1>4, <2>1, TextIsSeq
  <2>. HIDE DEF t
  <2>. QED  BY <1>1, <2>2
<1>. HIDE DEF s, t
<1>. DEFINE l == SubSeq(s, 1, cursor)
<1>7. /\ l \in Seq(Chars) /\ Len(l) = cursor
      /\ \A i \in 1 .. cursor : l[i] = s[i]
  BY <1>1, <1>2, SubSeqProperties
<1>. HIDE DEF l
<1>8. ASSUME NEW i \in 1 .. cursor PROVE l[i] = t[i]
  <2>1. i - 1 \in 0 .. cursor - 1 /\ i \in 1 .. len
    BY <1>1
  <2>2. l[i] = cmdline[i - 1]
    BY <1>3, <1>7, <2>1
  <2>3. t[i] = cmdline'[i - 1]
    BY <1>6
  <2>. QED  BY <1>5, <2>1, <2>2, <2>3
<1>9. l = t
  BY <1>6, <1>7, <1>8, SeqEqual
<1>. QED  BY <1>2, <1>9 DEF l, t

\* A step that ends or restarts a read, and a recalled entry.
LEMMA RecallIsRecall ==
  ASSUME IInv, IInv', Previous \/ NextKey
  PROVE  CL!Recall
<1>1. /\ result = "reading" /\ result' = "reading"
      /\ \E k \in Nat : \E p \in GetHistory(k) : RecallAt(p)
  BY DEF Previous, NextKey, IInv, TypeOK
<1>2. PICK p \in Starts : RecallAt(p)
  BY <1>1 DEF GetHistory
<1>3. PICK n \in Line : ~ InEntry(p, n) /\ len' = n /\ cursor' = n
  BY <1>2 DEF RecallAt
<1>4. InEntry(p, 0)
  BY DEF InEntry, Starts, Hist
<1>5. len' # 0 /\ len' \in Line
  BY <1>3, <1>4
<1>6. /\ AbsLine' \in Seq(Chars) /\ Len(AbsLine') = len' /\ AbsCursor' = cursor'
  <2>0. LineTerminated' /\ len' > 0
    BY <1>5 DEF IInv, Line
  <2>1. \A i \in 0 .. len' - 1 : cmdline'[i] # NUL
    BY <1>1, <2>0 DEF LineTerminated
  <2>2. Text(cmdline', len') \in Seq(Chars) /\ Len(Text(cmdline', len')) = len'
    BY <1>5, <2>1, TextIsSeq DEF IInv, TypeOK
  <2>. QED  BY <1>1, <2>2 DEF AbsLine, AbsCursor, Text
<1>7. AbsLine' # <<>> /\ Len(AbsLine') <= CmdlineLen
  BY <1>5, <1>6 DEF Line
<1>. QED  BY <1>1, <1>3, <1>6, <1>7 DEF CL!Recall, CL!Edit

\* Every key is a step of CommandLine, or none.
LEMMA StepRefinesLine ==
  ASSUME IInv, IInv', [Next]_vars
  PROVE  [CL!Next]_CL!vars
<1>0. TypeOK /\ LineTerminated /\ TypeOK' /\ LineTerminated'
  BY DEF IInv
<1>00. result' = "reading" => AbsLine' = Text(cmdline', len') /\ AbsCursor' = cursor'
  BY DEF AbsLine, AbsCursor, Text
<1>1. ASSUME NEW c \in Chars, Insert(c) PROVE CL!Next
  <2>1. /\ result = "reading" /\ result' = "reading" /\ len < CmdlineLen
        /\ cursor' = cursor + 1
    BY <1>1 DEF Insert, Typing
  <2>2. AbsLine' = CL!InsertAt(AbsLine, AbsCursor + 1, c) /\ Len(AbsLine) < CmdlineLen
    BY <1>0, <1>00, <1>1, <2>1, InsertIsInsertAt, ReadingText
  <2>3. CL!Insert(c)
    BY <1>0, <1>00, <2>1, <2>2, ReadingText DEF CL!Insert, CL!Edit
  <2>. QED  BY <2>3 DEF CL!Next
<1>2. CASE Backspace
  <2>1. /\ result = "reading" /\ result' = "reading" /\ cursor \in Nat /\ cursor > 0
        /\ cursor - 1 \in 0 .. len - 1 /\ (cursor - 1) + 1 = cursor
        /\ cmdline' = CutAt(cursor - 1) /\ len' = len - 1 /\ cursor' = cursor - 1
    BY <1>0, <1>2 DEF Backspace, Typing, TypeOK, Line
  <2>2. AbsLine' = CL!RemoveAt(AbsLine, AbsCursor)
    BY <1>0, <1>00, <2>1, CutIsRemoveAt, ReadingText
  <2>3. CL!Backspace
    BY <1>0, <1>00, <2>1, <2>2, ReadingText DEF CL!Backspace, CL!Edit
  <2>. QED  BY <2>3 DEF CL!Next
<1>3. CASE Delete
  <2>1. /\ result = "reading" /\ result' = "reading"
        /\ cursor \in 0 .. len - 1 /\ cursor < len
        /\ cmdline' = CutAt(cursor) /\ len' = len - 1 /\ cursor' = cursor
    BY <1>0, <1>3 DEF Delete, Typing, TypeOK, Line
  <2>2. AbsLine' = CL!RemoveAt(AbsLine, AbsCursor + 1)
    BY <1>0, <1>00, <2>1, CutIsRemoveAt, ReadingText
  <2>3. CL!Delete
    BY <1>0, <1>00, <2>1, <2>2, ReadingText DEF CL!Delete, CL!Edit
  <2>. QED  BY <2>3 DEF CL!Next
<1>4. CASE Kill
  <2>1. result = "reading" /\ result' = "reading" /\ cursor' = cursor
    BY <1>4 DEF Kill, Typing
  <2>2. CL!Kill
    BY <1>0, <1>00, <1>4, <2>1, KillIsPrefix, ReadingText DEF CL!Kill, CL!Edit
  <2>. QED  BY <2>2 DEF CL!Next
<1>5. CASE Move
  <2>1. /\ result = "reading" /\ result' = "reading"
        /\ cmdline' = cmdline /\ len' = len /\ cursor' \in 0 .. len
    BY <1>0, <1>5 DEF Move, Typing, TypeOK, Line
  <2>2. AbsLine' = AbsLine /\ AbsCursor' \in 0 .. Len(AbsLine)
    BY <1>0, <1>00, <2>1, ReadingText
  <2>3. CL!Move
    BY <2>1, <2>2 DEF CL!Move, CL!Edit
  <2>. QED  BY <2>3 DEF CL!Next
<1>6. CASE Previous \/ NextKey
  BY <1>6, RecallIsRecall DEF CL!Next
<1>7. CASE Enter
  <2>1. /\ result = "reading" /\ result' = "line" /\ len' = len /\ cursor' = cursor
        /\ cmdline' = [cmdline EXCEPT ![len] = NUL]
    BY <1>7 DEF Enter
  <2>2. Text(cmdline', len') = Text(cmdline, len)
    <3>1. \A i \in 1 .. len : cmdline'[i - 1] = cmdline[i - 1]
      BY <1>0, <2>1 DEF TypeOK, Line
    <3>. QED  BY <2>1, <3>1 DEF Text
  <2>3. AbsLine' = AbsLine /\ AbsCursor' = AbsCursor
    BY <2>1, <2>2 DEF AbsLine, AbsCursor, Text
  <2>. QED  BY <2>1, <2>3 DEF CL!Next, CL!Finish
<1>8. CASE Interrupt
  <2>1. /\ result = "reading" /\ result' = "interrupt" /\ len' = 0 /\ cursor' = 0
    BY <1>8 DEF Interrupt
  <2>2. AbsLine' = <<>> /\ AbsCursor' = 0
    BY <2>1, EmptyText DEF AbsLine, AbsCursor, Text
  <2>. QED  BY <2>1, <2>2 DEF CL!Next, CL!Finish
<1>9. CASE EndOfInput
  <2>1. result = "reading" /\ result' = "eof"
    BY <1>9 DEF EndOfInput
  <2>2. AbsLine' = <<>> /\ AbsCursor' = 0
    BY <2>1 DEF AbsLine, AbsCursor
  <2>. QED  BY <2>1, <2>2 DEF CL!Next, CL!Finish
<1>10. CASE ReadLine
  <2>1. result # "reading" /\ result' = "reading" /\ len' = 0 /\ cursor' = 0
    BY <1>10 DEF ReadLine
  <2>2. AbsLine' = <<>> /\ AbsCursor' = 0
    BY <1>00, <2>1, EmptyText
  <2>. QED  BY <2>1, <2>2 DEF CL!Next, CL!NextLine
<1>11. CASE UNCHANGED vars
  BY <1>11 DEF vars, CL!vars, AbsLine, AbsCursor
<1>. QED
  BY <1>1, <1>2, <1>3, <1>4, <1>5, <1>6, <1>7, <1>8, <1>9, <1>10, <1>11 DEF Next

\* The byte-array editor behaves as the line editor of CommandLine: no key
\* corrupts, drops or duplicates a character of the line, wherever the cursor
\* stands and whatever bytes earlier lines left behind.
THEOREM EditorRefinesCommandLine == Spec => ImplementsCommandLine
<1>1. Init => CL!Init
  BY EmptyText DEF Init, CL!Init, AbsLine, AbsCursor, Text
<1>2. IInv /\ IInv' /\ [Next]_vars => [CL!Next]_CL!vars
  BY StepRefinesLine
<1>. QED  BY <1>1, <1>2, Invariance, PTL DEF Spec, CL!Spec, ImplementsCommandLine

-----------------------------------------------------------------------------
(* Numbers: least members, ascending enumerations, and what lines cost.    *)

\* A set of numbers that is not empty has a least member.
LEMMA Least ==
  ASSUME NEW S \in SUBSET Nat, S # {}
  PROVE  \E m \in S : \A n \in S : m <= n
<1>. DEFINE R == OpToRel(<, Nat)
<1>1. IsWellFoundedOn(R, Nat)
  BY NatLessThanWellFounded
<1>2. R = {ss \in Nat \X Nat : ss[1] < ss[2]}
  BY Zenon DEF OpToRel
<1>. HIDE DEF R
<1>3. PICK m \in S : \A n \in S : ~ (<<n, m>> \in R)
  BY <1>1, WFMin
<1>4. ASSUME NEW n \in S PROVE m <= n
  <2>1. m \in Nat /\ n \in Nat /\ ~ (<<n, m>> \in R)
    BY <1>3
  <2>2. n < m => <<n, m>> \in R
    BY <1>2, <2>1
  <2>. QED  BY <2>1, <2>2
<1>. QED  BY <1>4

\* The costs are the only numbers that grow like them.
LEMMA CostIs ==
  ASSUME NEW cs, Len(cs) \in Nat, NEW e \in [0 .. Len(cs) -> Nat],
         e[0] = 0,
         \A k \in 1 .. Len(cs) : e[k] = e[k - 1] + Len(cs[k]) + 1
  PROVE  CH!Cost(cs) = e
<1>. DEFINE n == Len(cs)
            P(f) == f = [k \in 0 .. n |-> IF k = 0 THEN 0 ELSE f[k - 1] + Len(cs[k]) + 1]
            c == CH!Cost(cs)
<1>1. P(e)
  <2>1. \A k \in 0 .. n : k # 0 => k \in 1 .. n
    OBVIOUS
  <2>2. \A k \in 0 .. n : e[k] = IF k = 0 THEN 0 ELSE e[k - 1] + Len(cs[k]) + 1
    BY <2>1
  <2>. QED  BY <2>2
<1>2. c = CHOOSE f : P(f)
  BY DEF CH!Cost
<1>3. P(c)
  BY <1>1, <1>2
<1>4. \A k \in 0 .. n : c[k] = IF k = 0 THEN 0 ELSE c[k - 1] + Len(cs[k]) + 1
  BY <1>3
<1>5. c = [k \in 0 .. n |-> c[k]]
  BY <1>3
<1>. HIDE DEF c, P
<1>. DEFINE D == {k \in 0 .. n : c[k] # e[k]}
<1>6. ASSUME D # {} PROVE FALSE
  <2>0. D \in SUBSET Nat
    OBVIOUS
  <2>. HIDE DEF D
  <2>1. PICK k \in D : \A j \in D : k <= j
    BY <1>6, <2>0, Least
  <2>. USE DEF D
  <2>2. k \in 0 .. n /\ c[k] # e[k]
    OBVIOUS
  <2>3. k # 0
    BY <1>4, <2>2
  <2>4. k \in 1 .. n /\ k - 1 \in 0 .. n /\ ~ (k <= k - 1)
    BY <2>2, <2>3
  <2>5. c[k - 1] = e[k - 1]
    BY <2>1, <2>4
  <2>6. c[k] = c[k - 1] + Len(cs[k]) + 1 /\ e[k] = e[k - 1] + Len(cs[k]) + 1
    BY <1>4, <2>2, <2>3, <2>4
  <2>. QED  BY <2>2, <2>5, <2>6
<1>7. \A k \in 0 .. n : c[k] = e[k]
  BY <1>6
<1>8. c = e
  BY <1>5, <1>7
<1>. QED  BY <1>8 DEF c

\* The members of a set of numbers in ascending order.
Enumerates(e, m, S) ==
  /\ m \in Nat /\ e \in [1 .. m -> S]
  /\ \A i, j \in 1 .. m : i < j => e[i] < e[j]
  /\ \A s \in S : \E i \in 1 .. m : e[i] = s

Below(S, p) == {q \in S : q < p}
Ranked(S, k) == {p \in S : Cardinality(Below(S, p)) + 1 = k}

\* The image of an interval under an injection.
LEMMA ImageSize ==
  ASSUME NEW n \in Nat, NEW T, NEW f \in [1 .. n -> T],
         \A i, j \in 1 .. n : f[i] = f[j] => i = j,
         \A t \in T : \E i \in 1 .. n : f[i] = t
  PROVE  IsFiniteSet(T) /\ Cardinality(T) = n
<1>1. IsFiniteSet(1 .. n) /\ Cardinality(1 .. n) = n
  BY FS_Interval
<1>2. f \in Bijection(1 .. n, T)
  BY DEF Bijection, Injection, Surjection, IsInjective
<1>3. ExistsBijection(1 .. n, T)
  BY <1>2 DEF ExistsBijection
<1>. QED  BY <1>1, <1>3, FS_Bijection

\* An enumeration says how many members there are, and which one is the k-th.
LEMMA EnumerationRanks ==
  ASSUME NEW S \in SUBSET Nat, NEW m, NEW e, Enumerates(e, m, S)
  PROVE  /\ IsFiniteSet(S) /\ Cardinality(S) = m
         /\ \A k \in 1 .. m : Ranked(S, k) = {e[k]}
<1>1. /\ m \in Nat /\ e \in [1 .. m -> S]
      /\ \A i, j \in 1 .. m : i < j => e[i] < e[j]
      /\ \A s \in S : \E i \in 1 .. m : e[i] = s
  BY DEF Enumerates
<1>2. \A i, j \in 1 .. m : e[i] = e[j] => i = j
  <2>. SUFFICES ASSUME NEW i \in 1 .. m, NEW j \in 1 .. m, e[i] = e[j], i # j PROVE FALSE
    OBVIOUS
  <2>1. e[i] \in Nat /\ e[j] \in Nat
    BY <1>1
  <2>2. CASE i < j
    BY <1>1, <2>1, <2>2
  <2>3. CASE j < i
    BY <1>1, <2>1, <2>3
  <2>. QED  BY <1>1, <2>2, <2>3
<1>3. IsFiniteSet(S) /\ Cardinality(S) = m
  BY <1>1, <1>2, ImageSize
<1>4. ASSUME NEW k \in 1 .. m PROVE Cardinality(Below(S, e[k])) = k - 1
  <2>. DEFINE T == Below(S, e[k])
              f == [i \in 1 .. k - 1 |-> e[i]]
  <2>1. k - 1 \in Nat /\ \A i \in 1 .. k - 1 : i \in 1 .. m /\ i < k
    BY <1>1
  <2>2. f \in [1 .. k - 1 -> T]
    BY <1>1, <2>1 DEF Below
  <2>3. \A i, j \in 1 .. k - 1 : f[i] = f[j] => i = j
    BY <1>2, <2>1
  <2>4. ASSUME NEW t \in T PROVE \E i \in 1 .. k - 1 : f[i] = t
    <3>1. t \in S /\ t < e[k] /\ t \in Nat
      BY DEF Below
    <3>2. PICK i \in 1 .. m : e[i] = t
      BY <1>1, <3>1
    <3>3. ~ (k < i) /\ k # i
      <4>1. k < i => e[k] < e[i]
        BY <1>1
      <4>2. e[k] \in Nat
        BY <1>1
      <4>. QED  BY <3>1, <3>2, <4>1, <4>2
    <3>4. i \in 1 .. k - 1
      BY <1>1, <3>3
    <3>. QED  BY <3>2, <3>4
  <2>. HIDE DEF f, T
  <2>5. Cardinality(T) = k - 1
    BY <2>1, <2>2, <2>3, <2>4, ImageSize
  <2>. QED  BY <2>5 DEF T
<1>5. ASSUME NEW k \in 1 .. m PROVE Ranked(S, k) = {e[k]}
  <2>1. e[k] \in S /\ k \in Nat
    BY <1>1
  <2>2. e[k] \in Ranked(S, k)
    BY <1>4, <2>1 DEF Ranked
  <2>3. ASSUME NEW p \in Ranked(S, k) PROVE p = e[k]
    <3>1. p \in S /\ Cardinality(Below(S, p)) + 1 = k
      BY DEF Ranked
    <3>2. PICK i \in 1 .. m : e[i] = p
      BY <1>1, <3>1
    <3>3. Cardinality(Below(S, p)) = i - 1
      BY <1>4, <3>2
    <3>4. (i - 1) + 1 = k /\ i \in Nat
      BY <1>1, <3>1, <3>3
    <3>5. i = k
      BY <2>1, <3>4
    <3>. QED  BY <3>2, <3>5
  <2>. QED  BY <2>2, <2>3
<1>. QED  BY <1>3, <1>5

\* Every finite set of numbers has one.
LEMMA Enumeration ==
  ASSUME NEW S \in SUBSET Nat, IsFiniteSet(S)
  PROVE  \E e : Enumerates(e, Cardinality(S), S)
<1>. DEFINE n == Cardinality(S)
            rank == [p \in S |-> Cardinality(Below(S, p)) + 1]
<1>1. n \in Nat
  BY FS_CardinalityType
<1>2. ASSUME NEW p \in S
      PROVE  IsFiniteSet(Below(S, p)) /\ Cardinality(Below(S, p)) \in Nat
  <2>1. Below(S, p) \in SUBSET S
    BY DEF Below
  <2>. QED  BY <2>1, FS_Subset, FS_CardinalityType
<1>3. ASSUME NEW p \in S, NEW T \in SUBSET S, Below(S, p) \in SUBSET T, p \in T
      PROVE  IsFiniteSet(T) /\ Cardinality(T) \in Nat /\ rank[p] <= Cardinality(T)
  <2>1. p \notin Below(S, p)
    BY DEF Below
  <2>2. Cardinality(Below(S, p) \union {p}) = rank[p]
    BY <1>2, <2>1, FS_AddElement
  <2>3. Below(S, p) \union {p} \in SUBSET T
    BY <1>3
  <2>4. IsFiniteSet(T) /\ Cardinality(T) \in Nat
    BY FS_Subset, FS_CardinalityType
  <2>5. Cardinality(Below(S, p) \union {p}) <= Cardinality(T)
    BY <2>3, <2>4, FS_Subset
  <2>. QED  BY <2>2, <2>4, <2>5
<1>4. \A p \in S : rank[p] \in 1 .. n
  <2>. SUFFICES ASSUME NEW p \in S PROVE rank[p] \in 1 .. n
    OBVIOUS
  <2>1. Below(S, p) \in SUBSET S /\ S \in SUBSET S
    BY DEF Below
  <2>2. rank[p] <= n
    BY <1>3, <2>1
  <2>3. rank[p] \in Nat /\ 1 <= rank[p]
    BY <1>2
  <2>. QED  BY <1>1, <2>2, <2>3
<1>5. ASSUME NEW p \in S, NEW q \in S, p < q PROVE rank[p] < rank[q]
  <2>0. p \in Nat /\ q \in Nat /\ \A r \in S : r \in Nat /\ (r < p => r < q)
    BY <1>5
  <2>1. Below(S, q) \in SUBSET S /\ Below(S, p) \in SUBSET Below(S, q) /\ p \in Below(S, q)
    BY <1>5, <2>0 DEF Below
  <2>2. rank[p] <= Cardinality(Below(S, q))
    BY <1>3, <2>1
  <2>3. rank[q] = Cardinality(Below(S, q)) + 1
    OBVIOUS
  <2>. QED  BY <1>2, <1>4, <2>2, <2>3
<1>6. rank \in [S -> 1 .. n]
  BY <1>4
<1>. HIDE DEF rank
<1>7. rank \in Injection(S, 1 .. n)
  <2>. SUFFICES ASSUME NEW p \in S, NEW q \in S, rank[p] = rank[q], p # q PROVE FALSE
    BY <1>6 DEF Injection, IsInjective
  <2>1. p < q \/ q < p
    OBVIOUS
  <2>2. rank[p] \in 1 .. n /\ rank[q] \in 1 .. n
    BY <1>4
  <2>. QED  BY <1>5, <2>1, <2>2
<1>8. IsFiniteSet(1 .. n) /\ Cardinality(1 .. n) = n
  BY <1>1, FS_Interval
<1>9. rank \in Surjection(S, 1 .. n)
  <2>. HIDE DEF n
  <2>1. Cardinality(S) = n
    BY DEF n
  <2>. QED  BY <1>7, <1>8, <2>1, FS_Injection
<1>10. \A k \in 1 .. n : \E p \in S : rank[p] = k
  BY <1>9 DEF Surjection
<1>. DEFINE e == [k \in 1 .. n |-> CHOOSE p \in S : rank[p] = k]
<1>11. \A k \in 1 .. n : e[k] \in S /\ rank[e[k]] = k
  BY <1>10
<1>12. e \in [1 .. n -> S]
  BY <1>11
<1>. HIDE DEF e, n
<1>13. ASSUME NEW i \in 1 .. n, NEW j \in 1 .. n, i < j PROVE e[i] < e[j]
  <2>1. e[i] \in S /\ e[j] \in S /\ rank[e[i]] = i /\ rank[e[j]] = j
    BY <1>11
  <2>2. i \in Nat /\ j \in Nat
    BY <1>1
  <2>3. e[i] \in Nat /\ e[j] \in Nat
    BY <2>1
  <2>4. e[i] # e[j]
    BY <1>13, <2>1, <2>2
  <2>5. ~ (e[j] < e[i])
    <3>1. e[j] < e[i] => j < i
      BY <1>5, <2>1
    <3>. QED  BY <1>13, <2>2, <3>1
  <2>. QED  BY <2>3, <2>4, <2>5
<1>14. ASSUME NEW p \in S PROVE \E i \in 1 .. n : e[i] = p
  <2>1. rank[p] \in 1 .. n
    BY <1>4
  <2>2. e[rank[p]] \in S /\ rank[e[rank[p]]] = rank[p]
    BY <1>11, <2>1
  <2>3. e[rank[p]] = p
    BY <1>7, <2>2 DEF Injection, IsInjective
  <2>. QED  BY <2>1, <2>3
<1>15. Enumerates(e, n, S)
  BY <1>1, <1>12, <1>13, <1>14 DEF Enumerates
<1>. QED  BY <1>15 DEF n

-----------------------------------------------------------------------------
(* A history array as a list of entries.                                   *)

StartsOf(h) ==
  {p \in 0 .. HistoryLen - 1 : h[p] # NUL /\ (p = 0 \/ h[p - 1] = NUL)}

InEntryOf(h, p, i) ==
  /\ p + i \in Hist
  /\ \A j \in p .. p + i : h[j] # NUL

EntryOf(h, p) ==
  LET n == Cardinality({i \in 0 .. HistoryLen - p : InEntryOf(h, p, i)})
  IN  [i \in 1 .. n |-> h[p + i - 1]]

\* The n bytes from place p on.
Bytes(h, p, n) == [i \in 1 .. n |-> h[p + i - 1]]

CommandsOf(h) ==
  [k \in 1 .. Cardinality(StartsOf(h)) |->
     EntryOf(h, CHOOSE p \in Ranked(StartsOf(h), k) : TRUE)]

\* The first terminator from p on is n bytes away.
Spans(h, p, n) ==
  /\ n \in Nat /\ p + n \in Hist /\ h[p + n] = NUL
  /\ \A i \in 0 .. n - 1 : h[p + i] # NUL

\* Entries of the lengths s begin at the places e, one behind the other.
Laid(h, m, e, s) ==
  /\ Enumerates(e, m, StartsOf(h))
  /\ s \in [1 .. m -> Nat]
  /\ \A k \in 1 .. m : Spans(h, e[k], s[k])
  /\ m > 0 => e[1] = 0
  /\ \A k \in 1 .. m - 1 : e[k + 1] = e[k] + s[k] + 1

\* From every place on there is one.
LEMMA SpanExists ==
  ASSUME NEW h, h[HistoryLen] = NUL, NEW p \in Hist
  PROVE  \E n : Spans(h, p, n)
<1>. DEFINE S == {n \in 0 .. HistoryLen - p : h[p + n] = NUL}
<1>1. p \in Nat /\ HistoryLen \in Nat /\ p <= HistoryLen
  BY DEF Hist
<1>2. HistoryLen - p \in S
  BY <1>1
<1>3. S \in SUBSET Nat
  BY <1>1
<1>. HIDE DEF S
<1>4. PICK n \in S : \A i \in S : n <= i
  BY <1>2, <1>3, Least
<1>5. n \in 0 .. HistoryLen - p /\ h[p + n] = NUL
  BY DEF S
<1>6. ASSUME NEW i \in 0 .. n - 1 PROVE h[p + i] # NUL
  <2>1. i \in 0 .. HistoryLen - p /\ ~ (n <= i)
    BY <1>1, <1>5
  <2>2. i \notin S
    BY <1>4, <2>1
  <2>. QED  BY <2>1, <2>2 DEF S
<1>7. n \in Nat /\ p + n \in Hist
  BY <1>1, <1>5 DEF Hist
<1>. QED  BY <1>5, <1>6, <1>7 DEF Spans

\* No terminator lies before it.
LEMMA InSpan ==
  ASSUME NEW h, NEW p \in Nat, NEW n, Spans(h, p, n), NEW j \in p .. p + n - 1
  PROVE  h[j] # NUL /\ j \in Hist
<1>1. n \in Nat /\ p + n \in Hist
  BY DEF Spans
<1>2. j - p \in 0 .. n - 1 /\ p + (j - p) = j /\ j \in Hist
  BY <1>1 DEF Hist
<1>3. h[p + (j - p)] # NUL
  BY <1>2 DEF Spans
<1>. QED  BY <1>2, <1>3

\* An entry is what lies before its terminator.
LEMMA EntryIs ==
  ASSUME NEW h, NEW p \in Nat, NEW n, Spans(h, p, n)
  PROVE  EntryOf(h, p) = Bytes(h, p, n)
<1>. DEFINE T == {i \in 0 .. HistoryLen - p : InEntryOf(h, p, i)}
<1>1. n \in Nat /\ p + n \in Hist /\ h[p + n] = NUL
  BY DEF Spans
<1>2. ASSUME NEW i \in 0 .. n - 1 PROVE i \in T
  <2>1. i \in 0 .. HistoryLen - p /\ p + i \in Hist
    BY <1>1 DEF Hist
  <2>2. \A j \in p .. p + i : j \in p .. p + n - 1
    BY <1>1
  <2>3. \A j \in p .. p + i : h[j] # NUL
    BY <2>2, InSpan
  <2>. QED  BY <2>1, <2>3 DEF InEntryOf
<1>3. ASSUME NEW i \in T PROVE i \in 0 .. n - 1
  <2>1. i \in Nat /\ \A j \in p .. p + i : h[j] # NUL
    BY DEF InEntryOf
  <2>2. p + n \notin p .. p + i
    BY <1>1, <2>1
  <2>. QED  BY <1>1, <2>1, <2>2
<1>4. T = 0 .. n - 1
  BY <1>2, <1>3
<1>5. Cardinality(0 .. n - 1) = n
  <2>1. 0 \in Int /\ n - 1 \in Int
    BY <1>1
  <2>2. Cardinality(0 .. n - 1) = IF 0 > n - 1 THEN 0 ELSE (n - 1) - 0 + 1
    BY <2>1, FS_Interval
  <2>. QED  BY <1>1, <2>2
<1>6. Cardinality(T) = n
  BY <1>4, <1>5
<1>. HIDE DEF T
<1>7. EntryOf(h, p) = [i \in 1 .. Cardinality(T) |-> h[p + i - 1]]
  BY DEF EntryOf, T
<1>. QED  BY <1>6, <1>7 DEF Bytes

\* Only finitely many entries begin in an array.
LEMMA StartsOfFinite ==
  ASSUME NEW h
  PROVE  IsFiniteSet(StartsOf(h)) /\ StartsOf(h) \in SUBSET Nat
<1>1. IsFiniteSet(0 .. HistoryLen - 1)
  BY FS_Interval
<1>2. StartsOf(h) \in SUBSET (0 .. HistoryLen - 1)
  BY DEF StartsOf
<1>. QED  BY <1>1, <1>2, FS_Subset

\* The commands of an array whose entries are laid out.
LEMMA CommandsAre ==
  ASSUME NEW h, NEW m, NEW e, NEW s, Laid(h, m, e, s)
  PROVE  /\ m \in Nat /\ Cardinality(StartsOf(h)) = m
         /\ \A k \in 1 .. m : Ranked(StartsOf(h), k) = {e[k]}
         /\ CommandsOf(h) = [k \in 1 .. m |-> Bytes(h, e[k], s[k])]
<1>. DEFINE S == StartsOf(h)
<1>1. Enumerates(e, m, S) /\ \A k \in 1 .. m : Spans(h, e[k], s[k])
  BY DEF Laid
<1>2. S \in SUBSET Nat
  BY StartsOfFinite
<1>3. m \in Nat /\ \A k \in 1 .. m : e[k] \in Nat
  BY <1>1, <1>2 DEF Enumerates
<1>. HIDE DEF S
<1>4. Cardinality(S) = m /\ \A k \in 1 .. m : Ranked(S, k) = {e[k]}
  BY <1>1, <1>2, EnumerationRanks
<1>5. ASSUME NEW k \in 1 .. m
      PROVE  EntryOf(h, CHOOSE p \in Ranked(S, k) : TRUE)
               = Bytes(h, e[k], s[k])
  <2>. DEFINE q == CHOOSE p \in Ranked(S, k) : TRUE
  <2>1. q = e[k]
    BY <1>4
  <2>. HIDE DEF q
  <2>2. EntryOf(h, e[k]) = Bytes(h, e[k], s[k])
    <3>1. e[k] \in Nat /\ Spans(h, e[k], s[k])
      BY <1>1, <1>3
    <3>. QED  BY <3>1, EntryIs
  <2>3. EntryOf(h, q) = EntryOf(h, e[k])
    BY ONLY <2>1, Zenon
  <2>4. EntryOf(h, q) = Bytes(h, e[k], s[k])
    BY <2>2, <2>3
  <2>. QED  BY <2>4 DEF q
<1>6. CommandsOf(h) = [k \in 1 .. m |-> EntryOf(h, CHOOSE p \in Ranked(S, k) : TRUE)]
  <2>1. CommandsOf(h) = [k \in 1 .. Cardinality(S) |->
                           EntryOf(h, CHOOSE p \in Ranked(S, k) : TRUE)]
    BY Zenon DEF CommandsOf, S
  <2>. QED  BY <1>4, <2>1
<1>7. CommandsOf(h) = [k \in 1 .. m |-> Bytes(h, e[k], s[k])]
  BY <1>5, <1>6, Zenon
<1>. QED  BY <1>3, <1>4, <1>7 DEF S

\* Nothing is hidden behind the entries: they follow each other from the first
\* byte on.
LEMMA LaidOut ==
  ASSUME NEW h \in [Hist -> Symbols], h[HistoryLen] = NUL, Packed(h)
  PROVE  \E m, e, s : Laid(h, m, e, s)
<1>. DEFINE S == StartsOf(h)
            m == Cardinality(S)
<1>1. IsFiniteSet(S) /\ S \in SUBSET Nat
  BY StartsOfFinite
<1>2. PICK e : Enumerates(e, m, S)
  BY <1>1, Enumeration
<1>. HIDE DEF m
<1>3. /\ m \in Nat /\ e \in [1 .. m -> S]
      /\ \A i, j \in 1 .. m : i < j => e[i] < e[j]
      /\ \A p \in S : \E i \in 1 .. m : e[i] = p
  BY <1>2 DEF Enumerates
<1>. DEFINE s == [k \in 1 .. m |-> CHOOSE n : Spans(h, e[k], n)]
<1>4. ASSUME NEW k \in 1 .. m
      PROVE  /\ e[k] \in S /\ e[k] \in Nat /\ e[k] < HistoryLen /\ h[e[k]] # NUL
             /\ e[k] = 0 \/ h[e[k] - 1] = NUL
             /\ Spans(h, e[k], s[k]) /\ s[k] \in Nat
  <2>1. e[k] \in S
    BY <1>3
  <2>2. /\ e[k] \in Nat /\ e[k] < HistoryLen /\ h[e[k]] # NUL
        /\ e[k] = 0 \/ h[e[k] - 1] = NUL
    BY <2>1 DEF StartsOf
  <2>3. e[k] \in Hist
    BY <2>2 DEF Hist
  <2>4. Spans(h, e[k], s[k])
    BY <2>3, SpanExists
  <2>. QED  BY <2>1, <2>2, <2>4 DEF Spans
<1>5. s \in [1 .. m -> Nat]
  BY <1>4
<1>. HIDE DEF s
<1>6. ASSUME m > 0 PROVE e[1] = 0
  <2>1. 1 \in 1 .. m
    BY <1>3, <1>6
  <2>2. h[0] # NUL
    <3>1. e[1] \in Hist /\ h[e[1]] # NUL
      BY <1>4, <2>1 DEF Hist
    <3>. QED  BY <3>1 DEF Packed
  <2>3. 0 \in S
    BY <2>2 DEF StartsOf
  <2>4. PICK i \in 1 .. m : e[i] = 0
    BY <1>3, <2>3
  <2>5. 1 < i => e[1] < e[i]
    BY <1>3, <2>1
  <2>6. e[1] \in Nat
    BY <1>4, <2>1
  <2>. QED  BY <1>3, <2>4, <2>5, <2>6
<1>7. ASSUME NEW k \in 1 .. m - 1 PROVE e[k + 1] = e[k] + s[k] + 1
  <2>. DEFINE x == e[k] + s[k]
              y == e[k + 1]
  <2>1. k \in 1 .. m /\ k + 1 \in 1 .. m /\ k \in Nat /\ e[k] < y
    BY <1>3
  <2>2. /\ e[k] \in Nat /\ s[k] \in Nat /\ y \in Nat /\ y < HistoryLen
        /\ h[y] # NUL /\ (y = 0 \/ h[y - 1] = NUL) /\ Spans(h, e[k], s[k])
    BY <1>4, <2>1
  <2>3. x \in Nat /\ x \in Hist /\ h[x] = NUL
    BY <2>2 DEF Spans
  <2>4. y > x
    <3>1. ASSUME y < x PROVE FALSE
      <4>1. y - 1 \in e[k] .. e[k] + s[k] - 1
        BY <2>1, <2>2, <3>1
      <4>2. h[y - 1] # NUL
        BY <2>2, <4>1, InSpan
      <4>. QED  BY <2>1, <2>2, <4>2
    <3>2. y # x
      BY <2>2, <2>3
    <3>. HIDE DEF x, y
    <3>. QED  BY <2>2, <2>3, <3>1, <3>2
  <2>. HIDE DEF x, y
  <2>5. x + 1 \in 0 .. HistoryLen - 1 /\ x \in 0 .. HistoryLen - 1
    BY <2>2, <2>3, <2>4
  <2>6. h[x + 1] # NUL
    <3>1. y \in x .. HistoryLen
      BY <2>2, <2>3, <2>4
    <3>. QED  BY <2>2, <2>3, <2>5, <3>1 DEF Packed
  <2>7. x + 1 \in S
    <3>1. (x + 1) - 1 = x
      BY <2>3
    <3>. QED  BY <2>3, <2>5, <2>6, <3>1 DEF StartsOf
  <2>8. PICK j \in 1 .. m : e[j] = x + 1
    BY <1>3, <2>7
  <2>9. ~ (j < k + 1)
    <3>1. j < k => e[j] < e[k]
      BY <1>3, <2>1
    <3>2. e[k] < x + 1 /\ x + 1 \in Nat
      BY <2>2, <2>3 DEF x
    <3>3. j # k /\ ~ (j < k)
      BY <2>2, <2>8, <3>1, <3>2
    <3>. QED  BY <1>3, <2>1, <3>3
  <2>10. k + 1 < j => y < x + 1
    BY <1>3, <2>1, <2>8 DEF y
  <2>11. y = x + 1
    BY <1>3, <2>1, <2>2, <2>3, <2>4, <2>8, <2>9, <2>10 DEF y
  <2>. QED  BY <2>11 DEF x, y
<1>8. Laid(h, m, e, s)
  BY <1>2, <1>4, <1>5, <1>6, <1>7 DEF Laid
<1>. QED  BY <1>8

-----------------------------------------------------------------------------
(* A line pushed in front of the entries.                                  *)

PushedOf(h, c, l) ==
  [i \in Hist |-> IF i < l THEN c[i] ELSE IF i = l THEN NUL ELSE h[i - l - 1]]

\* Some terminator stands behind place q of h once h is moved l + 1 up.
Kept(h, l, q) == \E r \in q .. HistoryLen - l - 1 : h[r] = NUL

\* The bytes of a pushed array.
LEMMA PushByte ==
  ASSUME NEW h, NEW c, NEW l \in 1 .. HistoryLen,
         \A i \in 0 .. l - 1 : c[i] # NUL
  PROVE  LET z == ZeroTail(PushedOf(h, c, l))
         IN  /\ \A i \in 0 .. l - 1 : z[i] = c[i]
             /\ z[l] = NUL
             /\ \A q \in 0 .. HistoryLen - l - 1 :
                  z[q + l + 1] = IF Kept(h, l, q) THEN h[q] ELSE NUL
<1>. DEFINE g == PushedOf(h, c, l)
            z == ZeroTail(g)
<1>1. l \in Nat /\ HistoryLen \in Nat /\ l <= HistoryLen /\ 1 <= l
  OBVIOUS
<1>2. /\ \A i \in 0 .. l - 1 : g[i] = c[i]
      /\ g[l] = NUL
      /\ \A q \in 0 .. HistoryLen - l - 1 : g[q + l + 1] = h[q]
  <2>1. \A i \in 0 .. l - 1 : i \in Hist /\ i < l
    BY <1>1 DEF Hist
  <2>2. l \in Hist /\ ~ (l < l)
    BY <1>1 DEF Hist
  <2>3. \A q \in 0 .. HistoryLen - l - 1 :
          q + l + 1 \in Hist /\ ~ (q + l + 1 < l) /\ q + l + 1 # l /\ (q + l + 1) - l - 1 = q
    BY <1>1 DEF Hist
  <2>. QED  BY <2>1, <2>2, <2>3 DEF PushedOf
<1>. HIDE DEF g
<1>3. \A i \in Hist : z[i] = IF \A j \in i .. HistoryLen : g[j] # NUL THEN NUL ELSE g[i]
  BY DEF ZeroTail
<1>. HIDE DEF z
<1>4. ASSUME NEW i \in 0 .. l - 1 PROVE z[i] = c[i]
  <2>1. i \in Hist /\ l \in i .. HistoryLen
    BY <1>1 DEF Hist
  <2>. QED  BY <1>2, <1>3, <2>1
<1>5. z[l] = NUL
  BY <1>1, <1>2, <1>3 DEF Hist
<1>6. ASSUME NEW q \in 0 .. HistoryLen - l - 1
      PROVE  z[q + l + 1] = IF Kept(h, l, q) THEN h[q] ELSE NUL
  <2>. DEFINE p == q + l + 1
  <2>1. p \in Hist /\ p \in Nat
    BY <1>1 DEF Hist
  <2>2. CASE Kept(h, l, q)
    <3>1. PICK r \in q .. HistoryLen - l - 1 : h[r] = NUL
      BY <2>2 DEF Kept
    <3>2. r + l + 1 \in p .. HistoryLen /\ r \in 0 .. HistoryLen - l - 1
      BY <1>1
    <3>3. g[r + l + 1] = NUL
      BY <1>2, <3>1, <3>2
    <3>. QED  BY <1>2, <1>3, <2>1, <2>2, <3>2, <3>3
  <2>3. CASE ~ Kept(h, l, q)
    <3>1. ASSUME NEW j \in p .. HistoryLen PROVE g[j] # NUL
      <4>1. j - l - 1 \in q .. HistoryLen - l - 1 /\ j - l - 1 \in 0 .. HistoryLen - l - 1
            /\ (j - l - 1) + l + 1 = j
        BY <1>1
      <4>2. g[(j - l - 1) + l + 1] = h[j - l - 1]
        BY <1>2, <4>1
      <4>. QED  BY <2>3, <4>1, <4>2 DEF Kept
    <3>. HIDE DEF p
    <3>2. z[p] = NUL
      BY <1>3, <2>1, <3>1
    <3>. QED  BY <2>3, <3>2 DEF p
  <2>. QED  BY <2>2, <2>3
<1>. QED  BY <1>4, <1>5, <1>6 DEF z, g

\* The bytes of an entry that is kept.
LEMMA KeptEntry ==
  ASSUME NEW h, NEW c, NEW l \in 1 .. HistoryLen,
         \A i \in 0 .. l - 1 : c[i] # NUL,
         NEW p \in Nat, NEW n, Spans(h, p, n), p + n + l + 1 <= HistoryLen
  PROVE  LET z == ZeroTail(PushedOf(h, c, l))
         IN  \A i \in 0 .. n : z[p + i + l + 1] = h[p + i]
<1>. DEFINE z == ZeroTail(PushedOf(h, c, l))
<1>. SUFFICES ASSUME NEW i \in 0 .. n PROVE z[p + i + l + 1] = h[p + i]
  OBVIOUS
<1>1. n \in Nat /\ h[p + n] = NUL
  BY DEF Spans
<1>2. p + n \in p + i .. HistoryLen - l - 1 /\ p + i \in 0 .. HistoryLen - l - 1
  BY <1>1
<1>3. Kept(h, l, p + i)
  BY <1>1, <1>2 DEF Kept
<1>4. \A q \in 0 .. HistoryLen - l - 1 : z[q + l + 1] = IF Kept(h, l, q) THEN h[q] ELSE NUL
  BY PushByte
<1>. HIDE DEF z
<1>5. z[(p + i) + l + 1] = h[p + i]
  BY <1>2, <1>3, <1>4
<1>. QED  BY <1>5

\* Where the entries begin after a push: at the first byte, and l + 1 further
\* than they did if they end inside the array.
LEMMA PushStarts ==
  ASSUME NEW h, NEW c, NEW l \in 1 .. HistoryLen,
         \A i \in 0 .. l - 1 : c[i] # NUL,
         NEW m, NEW e, NEW s, Laid(h, m, e, s)
  PROVE  LET z == ZeroTail(PushedOf(h, c, l))
         IN  /\ 0 \in StartsOf(z)
             /\ \A k \in 1 .. m : e[k] + s[k] + l + 1 <= HistoryLen =>
                  e[k] + l + 1 \in StartsOf(z)
             /\ \A p \in StartsOf(z) : p # 0 =>
                  \E k \in 1 .. m : /\ e[k] + s[k] + l + 1 <= HistoryLen
                                    /\ p = e[k] + l + 1
<1>. DEFINE z == ZeroTail(PushedOf(h, c, l))
<1>1. l \in Nat /\ HistoryLen \in Nat /\ l <= HistoryLen /\ 1 <= l
  OBVIOUS
<1>2. /\ \A i \in 0 .. l - 1 : z[i] = c[i]
      /\ z[l] = NUL
      /\ \A q \in 0 .. HistoryLen - l - 1 :
           z[q + l + 1] = IF Kept(h, l, q) THEN h[q] ELSE NUL
  BY PushByte
<1>3. Enumerates(e, m, StartsOf(h)) /\ s \in [1 .. m -> Nat]
      /\ \A k \in 1 .. m : Spans(h, e[k], s[k])
  BY DEF Laid
<1>4. ASSUME NEW k \in 1 .. m, e[k] + s[k] + l + 1 <= HistoryLen
      PROVE  \A i \in 0 .. s[k] : z[e[k] + i + l + 1] = h[e[k] + i]
  <2>1. e[k] \in Nat /\ Spans(h, e[k], s[k])
    BY <1>3, StartsOfFinite DEF Enumerates
  <2>. QED  BY <1>4, <2>1, KeptEntry
<1>. HIDE DEF z
<1>5. 0 \in StartsOf(z)
  BY <1>1, <1>2 DEF StartsOf
<1>6. ASSUME NEW k \in 1 .. m, e[k] + s[k] + l + 1 <= HistoryLen
      PROVE  e[k] + l + 1 \in StartsOf(z)
  <2>1. e[k] \in StartsOf(h) /\ s[k] \in Nat
    BY <1>3 DEF Enumerates
  <2>2. e[k] \in Nat /\ h[e[k]] # NUL /\ (e[k] = 0 \/ h[e[k] - 1] = NUL)
    BY <2>1 DEF StartsOf
  <2>3. h[e[k] + s[k]] = NUL
    BY <1>3 DEF Spans
  <2>4. s[k] # 0
    BY <2>2, <2>3
  <2>5. e[k] + l + 1 \in 0 .. HistoryLen - 1
    BY <1>1, <1>6, <2>1, <2>2, <2>4
  <2>6. z[e[k] + l + 1] # NUL
    <3>1. z[e[k] + 0 + l + 1] = h[e[k] + 0]
      BY <1>4, <1>6, <2>1
    <3>. QED  BY <2>2, <3>1, <1>1
  <2>7. z[(e[k] + l + 1) - 1] = NUL
    <3>1. CASE e[k] = 0
      <4>1. (e[k] + l + 1) - 1 = l
        BY <1>1, <3>1
      <4>. QED  BY <1>2, <4>1
    <3>2. CASE e[k] # 0
      <4>1. e[k] - 1 \in 0 .. HistoryLen - l - 1 /\ (e[k] - 1) + l + 1 = (e[k] + l + 1) - 1
        BY <1>1, <1>6, <2>1, <2>2, <3>2
      <4>2. h[e[k] - 1] = NUL
        BY <2>2, <3>2
      <4>3. z[(e[k] - 1) + l + 1] = NUL
        BY <1>2, <4>1, <4>2
      <4>. QED  BY <4>1, <4>3
    <3>. QED  BY <3>1, <3>2
  <2>. QED  BY <2>5, <2>6, <2>7 DEF StartsOf
<1>7. ASSUME NEW p \in StartsOf(z), p # 0
      PROVE  \E k \in 1 .. m : e[k] + s[k] + l + 1 <= HistoryLen /\ p = e[k] + l + 1
  <2>1. p \in 1 .. HistoryLen - 1 /\ z[p] # NUL /\ z[p - 1] = NUL
    BY <1>1, <1>7 DEF StartsOf
  <2>2. ~ (p < l)
    <3>1. p < l => p - 1 \in 0 .. l - 1 /\ p - 1 \in Nat
      BY <1>1, <2>1
    <3>. QED  BY <1>2, <2>1, <3>1
  <2>3. p # l
    BY <1>2, <2>1
  <2>. DEFINE q == p - l - 1
  <2>4. q \in 0 .. HistoryLen - l - 1 /\ q + l + 1 = p /\ q <= HistoryLen - 1 /\ q \in Nat
    BY <1>1, <2>1, <2>2, <2>3
  <2>. HIDE DEF q
  <2>5. Kept(h, l, q) /\ h[q] # NUL
    BY <1>2, <2>1, <2>4
  <2>6. q = 0 \/ h[q - 1] = NUL
    <3>. SUFFICES ASSUME q # 0 PROVE h[q - 1] = NUL
      OBVIOUS
    <3>1. q - 1 \in 0 .. HistoryLen - l - 1 /\ (q - 1) + l + 1 = p - 1
      BY <1>1, <2>1, <2>4
    <3>2. Kept(h, l, q - 1)
      <4>1. PICK r \in q .. HistoryLen - l - 1 : h[r] = NUL
        BY <2>5 DEF Kept
      <4>2. r \in q - 1 .. HistoryLen - l - 1
        BY <1>1, <2>4
      <4>. QED  BY <4>1, <4>2 DEF Kept
    <3>3. z[(q - 1) + l + 1] = h[q - 1]
      BY <1>2, <3>1, <3>2
    <3>. QED  BY <2>1, <3>1, <3>3
  <2>7. q \in StartsOf(h)
    BY <1>1, <2>4, <2>5, <2>6 DEF StartsOf
  <2>8. PICK k \in 1 .. m : e[k] = q
    BY <1>3, <2>7 DEF Enumerates
  <2>9. e[k] + s[k] + l + 1 <= HistoryLen
    <3>1. PICK r \in q .. HistoryLen - l - 1 : h[r] = NUL
      BY <2>5 DEF Kept
    <3>2. s[k] \in Nat /\ Spans(h, q, s[k])
      BY <1>3, <2>8
    <3>3. ~ (r < q + s[k])
      <4>1. r < q + s[k] => r \in q .. q + s[k] - 1
        BY <1>1, <2>4, <3>2
      <4>2. r \in q .. q + s[k] - 1 => h[r] # NUL
        BY <2>4, <3>2, InSpan
      <4>. QED  BY <3>1, <4>1, <4>2
    <3>. QED  BY <1>1, <2>4, <2>8, <3>2, <3>3
  <2>10. p = e[k] + l + 1
    BY <2>4, <2>8
  <2>. QED  BY <2>9, <2>10
<1>. QED  BY <1>5, <1>6, <1>7 DEF z

\* The entries a push keeps are the newest ones.
LEMMA Cut ==
  ASSUME NEW h, NEW m, NEW e, NEW s, Laid(h, m, e, s), NEW l \in 1 .. HistoryLen
  PROVE  \E M \in 0 .. m :
           \A k \in 1 .. m : k <= M <=> e[k] + s[k] + l + 1 <= HistoryLen
<1>. DEFINE Fits(k) == e[k] + s[k] + l + 1 <= HistoryLen
            S == {k \in 1 .. m + 1 : k = m + 1 \/ ~ Fits(k)}
<1>1. /\ m \in Nat /\ s \in [1 .. m -> Nat] /\ e \in [1 .. m -> StartsOf(h)]
      /\ \A k \in 1 .. m - 1 : e[k + 1] = e[k] + s[k] + 1
  BY DEF Laid, Enumerates
<1>2. \A k \in 1 .. m : e[k] \in Nat /\ s[k] \in Nat
  BY <1>1, StartsOfFinite
<1>3. ASSUME NEW k \in 1 .. m - 1, Fits(k + 1) PROVE Fits(k)
  <2>1. k \in 1 .. m /\ k + 1 \in 1 .. m
    BY <1>1
  <2>2. e[k] \in Nat /\ s[k] \in Nat /\ s[k + 1] \in Nat /\ e[k + 1] = e[k] + s[k] + 1
    BY <1>1, <1>2, <2>1
  <2>. QED  BY <1>3, <2>2
<1>. HIDE DEF Fits
<1>4. S \in SUBSET Nat /\ m + 1 \in S
  BY <1>1
<1>. HIDE DEF S
<1>5. PICK n \in S : \A k \in S : n <= k
  BY <1>4, Least
<1>. USE DEF S
<1>6. n \in 1 .. m + 1 /\ n \in Nat /\ (n = m + 1 \/ ~ Fits(n))
  BY <1>1
<1>7. ASSUME NEW k \in 1 .. m, k < n PROVE Fits(k)
  BY <1>1, <1>5, <1>6, <1>7
<1>. DEFINE D == {k \in 1 .. m : k >= n /\ Fits(k)}
<1>8. ASSUME D # {} PROVE FALSE
  <2>1. D \in SUBSET Nat
    BY <1>1
  <2>. HIDE DEF D
  <2>2. PICK k \in D : \A j \in D : k <= j
    BY <1>8, <2>1, Least
  <2>. USE DEF D
  <2>3. k \in 1 .. m /\ k >= n /\ Fits(k)
    OBVIOUS
  <2>4. k # n
    BY <1>1, <1>6, <2>3
  <2>5. /\ k - 1 \in 1 .. m - 1 /\ k - 1 \in 1 .. m /\ (k - 1) + 1 = k
        /\ k - 1 >= n /\ ~ (k <= k - 1)
    BY <1>1, <1>6, <2>3, <2>4
  <2>6. Fits(k - 1)
    BY <1>3, <2>3, <2>5
  <2>. QED  BY <2>2, <2>5, <2>6
<1>9. n - 1 \in 0 .. m /\ \A k \in 1 .. m : k <= n - 1 <=> k < n
  BY <1>1, <1>6
<1>10. ASSUME NEW k \in 1 .. m, Fits(k) PROVE k < n
  <2>1. ~ (k >= n)
    BY <1>8, <1>10
  <2>. QED  BY <1>1, <1>6, <2>1
<1>11. \A k \in 1 .. m : k <= n - 1 <=> Fits(k)
  BY <1>7, <1>9, <1>10
<1>. QED  BY <1>9, <1>11 DEF Fits

Places(e, l, M) == [k \in 1 .. M + 1 |-> IF k = 1 THEN 0 ELSE e[k - 1] + l + 1]
Lengths(s, l, M) == [k \in 1 .. M + 1 |-> IF k = 1 THEN l ELSE s[k - 1]]

\* The entries of a pushed history, and where they lie.
LEMMA PushLaid ==
  ASSUME NEW h, NEW c, NEW l \in 1 .. HistoryLen,
         \A i \in 0 .. l - 1 : c[i] # NUL,
         NEW m, NEW e, NEW s, Laid(h, m, e, s),
         NEW M \in 0 .. m,
         \A k \in 1 .. m : k <= M <=> e[k] + s[k] + l + 1 <= HistoryLen
  PROVE  Laid(ZeroTail(PushedOf(h, c, l)), M + 1, Places(e, l, M), Lengths(s, l, M))
<1>. DEFINE z == ZeroTail(PushedOf(h, c, l))
            e2 == Places(e, l, M)
            s2 == Lengths(s, l, M)
<1>1. /\ m \in Nat /\ s \in [1 .. m -> Nat] /\ e \in [1 .. m -> StartsOf(h)]
      /\ \A i, j \in 1 .. m : i < j => e[i] < e[j]
      /\ \A k \in 1 .. m : Spans(h, e[k], s[k])
      /\ m > 0 => e[1] = 0
      /\ \A k \in 1 .. m - 1 : e[k + 1] = e[k] + s[k] + 1
  BY DEF Laid, Enumerates
<1>2. M \in Nat /\ M <= m /\ l \in Nat /\ 1 <= l /\ l <= HistoryLen /\ HistoryLen \in Nat
  BY <1>1
<1>3. \A k \in 1 .. m : e[k] \in Nat /\ s[k] \in Nat
  BY <1>1, StartsOfFinite
<1>4. /\ 0 \in StartsOf(z)
      /\ \A k \in 1 .. m : k <= M => e[k] + l + 1 \in StartsOf(z)
      /\ \A p \in StartsOf(z) : p # 0 => \E k \in 1 .. m : k <= M /\ p = e[k] + l + 1
  BY PushStarts
<1>5. /\ \A i \in 0 .. l - 1 : z[i] = c[i]
      /\ z[l] = NUL
  BY PushByte
<1>6. ASSUME NEW k \in 1 .. m, k <= M
      PROVE  /\ \A i \in 0 .. s[k] : z[e[k] + i + l + 1] = h[e[k] + i]
             /\ e[k] + s[k] + l + 1 <= HistoryLen
  <2>1. e[k] \in Nat /\ Spans(h, e[k], s[k]) /\ e[k] + s[k] + l + 1 <= HistoryLen
    BY <1>1, <1>3, <1>6
  <2>. QED  BY <2>1, KeptEntry
<1>. HIDE DEF z
<1>7. ASSUME NEW k \in 1 .. M + 1, k # 1
      PROVE  /\ k - 1 \in 1 .. m /\ k - 1 <= M /\ k - 1 \in Nat /\ (k - 1) + 1 = k
             /\ e2[k] = e[k - 1] + l + 1 /\ s2[k] = s[k - 1]
  BY <1>1, <1>2, <1>7 DEF Places, Lengths
<1>8. 1 \in 1 .. M + 1 /\ e2[1] = 0 /\ s2[1] = l
  BY <1>2 DEF Places, Lengths
<1>9. e2 \in [1 .. M + 1 -> StartsOf(z)]
  BY <1>4, <1>7 DEF Places
<1>10. s2 \in [1 .. M + 1 -> Nat]
  BY <1>2, <1>3, <1>7 DEF Lengths
<1>. HIDE DEF e2, s2
<1>11. ASSUME NEW i \in 1 .. M + 1, NEW j \in 1 .. M + 1, i < j PROVE e2[i] < e2[j]
  <2>1. j # 1 /\ i \in Nat /\ j \in Nat
    BY <1>2, <1>11
  <2>2. e2[j] = e[j - 1] + l + 1 /\ j - 1 \in 1 .. m /\ e[j - 1] \in Nat
    BY <1>3, <1>7, <2>1
  <2>3. CASE i = 1
    BY <1>2, <1>8, <2>2, <2>3
  <2>4. CASE i # 1
    <3>1. e2[i] = e[i - 1] + l + 1 /\ i - 1 \in 1 .. m /\ e[i - 1] \in Nat
      BY <1>3, <1>7, <2>4
    <3>2. i - 1 < j - 1
      BY <1>11, <2>1
    <3>3. e[i - 1] < e[j - 1]
      BY <1>1, <2>2, <3>1, <3>2
    <3>. QED  BY <1>2, <2>2, <3>1, <3>3
  <2>. QED  BY <2>3, <2>4
<1>12. ASSUME NEW p \in StartsOf(z) PROVE \E i \in 1 .. M + 1 : e2[i] = p
  <2>1. CASE p = 0
    BY <1>8, <2>1
  <2>2. CASE p # 0
    <3>1. PICK k \in 1 .. m : k <= M /\ p = e[k] + l + 1
      BY <1>4, <2>2
    <3>2. k + 1 \in 1 .. M + 1 /\ k + 1 # 1 /\ (k + 1) - 1 = k
      BY <1>1, <1>2, <3>1
    <3>3. e2[k + 1] = e[k] + l + 1
      BY <1>7, <3>2
    <3>. QED  BY <3>1, <3>2, <3>3
  <2>. QED  BY <2>1, <2>2
<1>13. Enumerates(e2, M + 1, StartsOf(z))
  BY <1>2, <1>9, <1>11, <1>12 DEF Enumerates
<1>14. ASSUME NEW k \in 1 .. M + 1 PROVE Spans(z, e2[k], s2[k])
  <2>1. CASE k = 1
    <3>1. l \in Nat /\ 0 + l = l /\ l \in Hist
      BY <1>2 DEF Hist
    <3>2. \A i \in 0 .. l - 1 : 0 + i = i /\ z[0 + i] # NUL
      BY <1>2, <1>5
    <3>3. Spans(z, 0, l)
      BY <1>5, <3>1, <3>2 DEF Spans
    <3>. QED  BY <1>8, <2>1, <3>3
  <2>2. CASE k # 1
    <3>. DEFINE j == k - 1
                p == e[j]
                n == s[j]
    <3>1. j \in 1 .. m /\ j <= M /\ e2[k] = p + l + 1 /\ s2[k] = n
      BY <1>7, <2>2
    <3>. HIDE DEF j
    <3>2. p \in Nat /\ n \in Nat /\ p + n + l + 1 <= HistoryLen /\ Spans(h, p, n)
      BY <1>1, <1>3, <1>6, <3>1
    <3>3. \A i \in 0 .. n : z[p + i + l + 1] = h[p + i]
      BY <1>6, <3>1
    <3>. HIDE DEF p, n
    <3>4. \A i \in 0 .. n : (p + l + 1) + i = p + i + l + 1
      BY <1>2, <3>2
    <3>5. (p + l + 1) + n \in Hist /\ n \in 0 .. n
      BY <1>2, <3>2 DEF Hist
    <3>6. z[(p + l + 1) + n] = NUL
      BY <3>2, <3>3, <3>4, <3>5 DEF Spans
    <3>7. ASSUME NEW i \in 0 .. n - 1 PROVE z[(p + l + 1) + i] # NUL
      <4>1. i \in 0 .. n /\ h[p + i] # NUL
        BY <3>2 DEF Spans
      <4>. QED  BY <3>3, <3>4, <4>1
    <3>8. Spans(z, p + l + 1, n)
      BY <3>2, <3>5, <3>6, <3>7 DEF Spans
    <3>. QED  BY <3>1, <3>8
  <2>. QED  BY <2>1, <2>2
<1>15. ASSUME NEW k \in 1 .. (M + 1) - 1 PROVE e2[k + 1] = e2[k] + s2[k] + 1
  <2>1. /\ k \in 1 .. m /\ k \in Nat /\ k \in 1 .. M + 1
        /\ k + 1 \in 1 .. M + 1 /\ k + 1 # 1 /\ (k + 1) - 1 = k
    BY <1>1, <1>2
  <2>2. e2[k + 1] = e[k] + l + 1
    BY <1>7, <2>1
  <2>3. CASE k = 1
    <3>1. e[1] = 0
      BY <1>1, <2>1
    <3>. QED  BY <1>2, <1>8, <2>2, <2>3, <3>1
  <2>4. CASE k # 1
    <3>. DEFINE j == k - 1
    <3>1. /\ j \in 1 .. m - 1 /\ j \in 1 .. m /\ j + 1 = k
          /\ e2[k] = e[j] + l + 1 /\ s2[k] = s[j]
      BY <1>1, <1>2, <1>7, <2>1, <2>4
    <3>. HIDE DEF j
    <3>2. e[k] = e[j] + s[j] + 1 /\ e[j] \in Nat /\ s[j] \in Nat
      BY <1>1, <1>3, <3>1
    <3>. QED  BY <1>2, <2>2, <3>1, <3>2
  <2>. QED  BY <2>3, <2>4
<1>16. Laid(z, M + 1, e2, s2)
  BY <1>8, <1>10, <1>13, <1>14, <1>15 DEF Laid
<1>. QED  BY <1>16 DEF z, e2, s2

\* The commands after a push: the line, then the older ones that are kept.
LEMMA PushCommands ==
  ASSUME NEW h, NEW c, NEW l \in 1 .. HistoryLen,
         \A i \in 0 .. l - 1 : c[i] # NUL,
         NEW m, NEW e, NEW s, Laid(h, m, e, s),
         NEW M \in 0 .. m,
         \A k \in 1 .. m : k <= M <=> e[k] + s[k] + l + 1 <= HistoryLen
  PROVE  CommandsOf(ZeroTail(PushedOf(h, c, l))) =
           [k \in 1 .. M + 1 |-> IF k = 1 THEN Text(c, l) ELSE CommandsOf(h)[k - 1]]
<1>. DEFINE z == ZeroTail(PushedOf(h, c, l))
            e2 == Places(e, l, M)
            s2 == Lengths(s, l, M)
<1>1. /\ m \in Nat /\ s \in [1 .. m -> Nat] /\ e \in [1 .. m -> StartsOf(h)]
      /\ \A k \in 1 .. m : Spans(h, e[k], s[k])
  BY DEF Laid, Enumerates
<1>2. M \in Nat /\ M <= m /\ l \in Nat /\ 1 <= l
  BY <1>1
<1>3. \A k \in 1 .. m : e[k] \in Nat /\ s[k] \in Nat
  BY <1>1, StartsOfFinite
<1>4. Laid(z, M + 1, e2, s2)
  BY PushLaid
<1>5. ASSUME NEW k \in 1 .. m, k <= M
      PROVE  Bytes(z, e[k] + l + 1, s[k]) = Bytes(h, e[k], s[k])
  <2>1. e[k] \in Nat /\ s[k] \in Nat /\ Spans(h, e[k], s[k]) /\ e[k] + s[k] + l + 1 <= HistoryLen
    BY <1>1, <1>3, <1>5
  <2>2. \A i \in 0 .. s[k] : z[e[k] + i + l + 1] = h[e[k] + i]
    BY <2>1, KeptEntry
  <2>. HIDE DEF z
  <2>3. ASSUME NEW i \in 1 .. s[k] PROVE z[e[k] + l + 1 + i - 1] = h[e[k] + i - 1]
    <3>1. i - 1 \in 0 .. s[k] /\ e[k] + l + 1 + i - 1 = e[k] + (i - 1) + l + 1
          /\ e[k] + i - 1 = e[k] + (i - 1)
      BY <1>2, <2>1
    <3>2. z[e[k] + (i - 1) + l + 1] = h[e[k] + (i - 1)]
      BY <2>2, <3>1
    <3>. QED  BY <3>1, <3>2
  <2>. QED  BY <2>3 DEF Bytes
<1>6. Bytes(z, 0, l) = Text(c, l)
  <2>1. \A i \in 0 .. l - 1 : z[i] = c[i]
    BY PushByte
  <2>. HIDE DEF z
  <2>2. ASSUME NEW i \in 1 .. l PROVE z[0 + i - 1] = c[i - 1]
    <3>1. i - 1 \in 0 .. l - 1 /\ 0 + i - 1 = i - 1
      BY <1>2
    <3>. QED  BY <2>1, <3>1
  <2>. QED  BY <2>2 DEF Bytes, Text
<1>. HIDE DEF z
<1>7. CommandsOf(h) = [k \in 1 .. m |-> Bytes(h, e[k], s[k])]
  BY CommandsAre
<1>8. CommandsOf(z) = [k \in 1 .. M + 1 |-> Bytes(z, e2[k], s2[k])]
  <2>. HIDE DEF e2, s2
  <2>. QED  BY <1>4, CommandsAre
<1>9. ASSUME NEW k \in 1 .. M + 1
      PROVE  Bytes(z, e2[k], s2[k]) = IF k = 1 THEN Text(c, l) ELSE CommandsOf(h)[k - 1]
  <2>1. CASE k = 1
    BY <1>6, <2>1 DEF Places, Lengths
  <2>2. CASE k # 1
    <3>1. k - 1 \in 1 .. m /\ k - 1 <= M
      BY <1>1, <1>2, <2>2
    <3>2. e2[k] = e[k - 1] + l + 1 /\ s2[k] = s[k - 1]
      BY <2>2 DEF Places, Lengths
    <3>3. Bytes(z, e2[k], s2[k]) = Bytes(h, e[k - 1], s[k - 1])
      BY <1>5, <3>1, <3>2
    <3>4. CommandsOf(h)[k - 1] = Bytes(h, e[k - 1], s[k - 1])
      BY <1>7, <3>1
    <3>. QED  BY <2>2, <3>3, <3>4
  <2>. QED  BY <2>1, <2>2
<1>10. CommandsOf(z) =
         [k \in 1 .. M + 1 |-> IF k = 1 THEN Text(c, l) ELSE CommandsOf(h)[k - 1]]
  <2>. HIDE DEF e2, s2
  <2>. QED  BY <1>8, <1>9
<1>. QED  BY <1>10 DEF z

\* They form a sequence of sequences of characters.
LEMMA CommandsSeq ==
  ASSUME NEW h \in [Hist -> Symbols], NEW m, NEW e, NEW s, Laid(h, m, e, s)
  PROVE  /\ CommandsOf(h) \in Seq(Seq(Symbols)) /\ Len(CommandsOf(h)) = m
         /\ \A k \in 1 .. m : CommandsOf(h)[k] = Bytes(h, e[k], s[k])
         /\ \A k \in 1 .. m : Len(CommandsOf(h)[k]) = s[k]
<1>1. /\ m \in Nat /\ s \in [1 .. m -> Nat] /\ e \in [1 .. m -> StartsOf(h)]
      /\ \A k \in 1 .. m : Spans(h, e[k], s[k])
  BY DEF Laid, Enumerates
<1>2. CommandsOf(h) = [k \in 1 .. m |-> Bytes(h, e[k], s[k])]
  BY CommandsAre
<1>3. ASSUME NEW k \in 1 .. m
      PROVE  Bytes(h, e[k], s[k]) \in Seq(Symbols) /\ Len(Bytes(h, e[k], s[k])) = s[k]
  <2>1. e[k] \in Nat /\ s[k] \in Nat /\ e[k] + s[k] \in Hist
    BY <1>1, StartsOfFinite DEF Spans
  <2>2. \A i \in 1 .. s[k] : e[k] + i - 1 \in Hist
    BY <2>1 DEF Hist
  <2>3. Bytes(h, e[k], s[k]) \in [1 .. s[k] -> Symbols]
    BY <2>2 DEF Bytes
  <2>. QED  BY <2>1, <2>3
<1>4. CommandsOf(h) \in [1 .. m -> Seq(Symbols)]
  BY <1>2, <1>3
<1>5. \A k \in 1 .. m : CommandsOf(h)[k] = Bytes(h, e[k], s[k])
  BY <1>2
<1>. QED  BY <1>1, <1>3, <1>4, <1>5

\* What the abstract history remembers is what a push leaves in the array: the
\* budget of HistoryLen + 1 bytes runs out where the shift cuts.
LEMMA RememberIs ==
  ASSUME NEW h \in [Hist -> Symbols], NEW t \in Seq(Symbols), NEW l \in 1 .. HistoryLen,
         Len(t) = l, AbsCommands = CommandsOf(h),
         NEW m, NEW e, NEW s, Laid(h, m, e, s),
         NEW M \in 0 .. m,
         \A k \in 1 .. m : k <= M <=> e[k] + s[k] + l + 1 <= HistoryLen
  PROVE  CH!Remember(t) =
           [k \in 1 .. M + 1 |-> IF k = 1 THEN t ELSE CommandsOf(h)[k - 1]]
<1>. DEFINE cs == CommandsOf(h)
            first == <<t>>
            all == first \o cs
<1>1. /\ m \in Nat /\ s \in [1 .. m -> Nat] /\ e \in [1 .. m -> StartsOf(h)]
      /\ m > 0 => e[1] = 0
      /\ \A k \in 1 .. m - 1 : e[k + 1] = e[k] + s[k] + 1
  BY DEF Laid, Enumerates
<1>2. \A k \in 1 .. m : e[k] \in Nat /\ s[k] \in Nat
  BY <1>1, StartsOfFinite
<1>3. M \in Nat /\ M <= m /\ l \in Nat /\ 1 <= l /\ l <= HistoryLen /\ HistoryLen \in Nat
  BY <1>1
<1>4. cs \in Seq(Seq(Symbols)) /\ Len(cs) = m /\ \A k \in 1 .. m : Len(cs[k]) = s[k]
  BY CommandsSeq
<1>. HIDE DEF cs
<1>5. first \in Seq(Seq(Symbols)) /\ Len(first) = 1 /\ first[1] = t
  OBVIOUS
<1>. HIDE DEF first
<1>6. /\ all \in Seq(Seq(Symbols)) /\ Len(all) = 1 + m
      /\ \A k \in 1 .. 1 + m : all[k] = IF k <= 1 THEN first[k] ELSE cs[k - 1]
  <2>. DEFINE T == Seq(Symbols)
  <2>0. first \in Seq(T) /\ cs \in Seq(T)
    BY <1>4, <1>5
  <2>. HIDE DEF T
  <2>1. /\ all \in Seq(T) /\ Len(all) = Len(first) + Len(cs)
        /\ \A k \in 1 .. Len(first) + Len(cs) :
             all[k] = IF k <= Len(first) THEN first[k] ELSE cs[k - Len(first)]
    BY <2>0, ConcatProperties
  <2>. USE DEF T
  <2>. HIDE DEF all
  <2>. QED  BY <1>4, <1>5, <2>1
<1>. HIDE DEF all
<1>7. 1 \in 1 .. m + 1 /\ all[1] = t
  BY <1>1, <1>5, <1>6
<1>8. ASSUME NEW k \in 1 .. m + 1, k # 1
      PROVE  /\ k - 1 \in 1 .. m /\ (k - 1) + 1 = k /\ k \in Nat
             /\ all[k] = cs[k - 1] /\ Len(all[k]) = s[k - 1]
  <2>1. k - 1 \in 1 .. m /\ (k - 1) + 1 = k /\ k \in Nat /\ k \in 1 .. 1 + m /\ ~ (k <= 1)
    BY <1>1, <1>8
  <2>2. all[k] = cs[k - 1]
    BY <1>6, <2>1
  <2>. QED  BY <1>4, <2>1, <2>2
<1>. DEFINE cost == [k \in 0 .. m + 1 |->
                       IF k = 0 THEN 0
                       ELSE IF k = 1 THEN l + 1
                       ELSE l + 1 + e[k - 1] + s[k - 1] + 1]
<1>9. cost[0] = 0 /\ cost[1] = l + 1
  BY <1>1
<1>10. ASSUME NEW k \in 1 .. m + 1, k # 1
       PROVE  cost[k] = l + 1 + e[k - 1] + s[k - 1] + 1 /\ cost[k] \in Nat
  <2>1. k \in 0 .. m + 1 /\ k # 0
    BY <1>1
  <2>. QED  BY <1>2, <1>3, <1>8, <1>10, <2>1
<1>11. cost \in [0 .. m + 1 -> Nat]
  <2>1. ASSUME NEW k \in 0 .. m + 1 PROVE cost[k] \in Nat
    <3>1. k \in 1 .. m + 1 \/ k = 0
      BY <1>1
    <3>. HIDE DEF cost
    <3>. QED  BY <1>3, <1>9, <1>10, <3>1
  <2>2. cost = [k \in 0 .. m + 1 |-> cost[k]]
    OBVIOUS
  <2>. HIDE DEF cost
  <2>. QED  BY <2>1, <2>2
<1>. HIDE DEF cost
<1>12. ASSUME NEW k \in 1 .. m + 1 PROVE cost[k] = cost[k - 1] + Len(all[k]) + 1
  <2>1. CASE k = 1
    <3>1. 1 - 1 = 0 /\ Len(all[1]) = l
      BY <1>7
    <3>. QED  BY <1>3, <1>9, <2>1, <3>1
  <2>2. CASE k = 2
    <3>1. 1 \in 1 .. m /\ 2 - 1 = 1 /\ Len(all[2]) = s[1] /\ cost[2] = l + 1 + e[1] + s[1] + 1
      BY <1>8, <1>10, <2>2
    <3>2. e[1] = 0 /\ s[1] \in Nat
      BY <1>1, <1>2, <3>1
    <3>3. cost[2] = cost[1] + Len(all[2]) + 1
      BY <1>3, <1>9, <3>1, <3>2
    <3>. QED  BY <2>2, <3>1, <3>3
  <2>3. CASE k # 1 /\ k # 2
    <3>. DEFINE j == k - 2
    <3>1. /\ k \in Nat /\ j \in 1 .. m - 1 /\ j \in 1 .. m /\ j + 1 = k - 1
          /\ k - 1 \in 1 .. m + 1 /\ k - 1 # 1 /\ (k - 1) - 1 = j
      BY <1>1, <2>3
    <3>. HIDE DEF j
    <3>2. /\ cost[k] = l + 1 + e[k - 1] + s[k - 1] + 1
          /\ Len(all[k]) = s[k - 1]
      BY <1>8, <1>10, <2>3
    <3>3. cost[k - 1] = l + 1 + e[j] + s[j] + 1
      BY <1>10, <3>1
    <3>4. e[k - 1] = e[j] + s[j] + 1
      BY <1>1, <3>1
    <3>5. e[j] \in Nat /\ s[j] \in Nat /\ s[k - 1] \in Nat
      BY <1>2, <1>8, <2>3, <3>1
    <3>. QED  BY <1>3, <3>2, <3>3, <3>4, <3>5
  <2>. QED  BY <2>1, <2>2, <2>3
<1>13. CH!Cost(all) = cost
  <2>1. Len(all) = m + 1 /\ Len(all) \in Nat
    BY <1>1, <1>6
  <2>2. cost \in [0 .. Len(all) -> Nat]
    BY <1>11, <2>1
  <2>3. \A k \in 1 .. Len(all) : cost[k] = cost[k - 1] + Len(all[k]) + 1
    BY <1>12, <2>1
  <2>. QED  BY <1>9, <2>1, <2>2, <2>3, CostIs
<1>. DEFINE N == {k \in 0 .. m + 1 : cost[k] <= HistoryLen + 1}
<1>14. N = 0 .. M + 1
  <2>1. 0 .. M + 1 \in SUBSET (0 .. m + 1)
    BY <1>1, <1>3
  <2>2. ASSUME NEW k \in 0 .. m + 1 PROVE cost[k] <= HistoryLen + 1 <=> k \in 0 .. M + 1
    <3>1. CASE k = 0
      BY <1>3, <1>9, <3>1
    <3>2. CASE k = 1
      BY <1>3, <1>9, <3>2
    <3>3. CASE k # 0 /\ k # 1
      <4>1. k \in 1 .. m + 1 /\ k \in Nat /\ k - 1 \in 1 .. m
        BY <1>1, <3>3
      <4>2. cost[k] = l + 1 + e[k - 1] + s[k - 1] + 1 /\ e[k - 1] \in Nat /\ s[k - 1] \in Nat
        BY <1>2, <1>10, <3>3, <4>1
      <4>3. k - 1 <= M <=> e[k - 1] + s[k - 1] + l + 1 <= HistoryLen
        BY <4>1
      <4>4. k \in 0 .. M + 1 <=> k - 1 <= M
        BY <1>3, <4>1
      <4>5. cost[k] <= HistoryLen + 1 <=> e[k - 1] + s[k - 1] + l + 1 <= HistoryLen
        BY <1>3, <4>2
      <4>. QED  BY <4>3, <4>4, <4>5
    <3>. QED  BY <3>1, <3>2, <3>3
  <2>. QED  BY <2>1, <2>2
<1>15. CH!Max(N) = M + 1
  <2>1. M + 1 \in N /\ \A k \in N : k <= M + 1 /\ k \in Nat
    BY <1>3, <1>14
  <2>. HIDE DEF N
  <2>2. \A x \in N : (\A y \in N : x >= y) => x = M + 1
    BY <1>3, <2>1
  <2>3. \A y \in N : M + 1 >= y
    BY <1>3, <2>1
  <2>. QED  BY <2>1, <2>2, <2>3 DEF CH!Max
<1>16. CH!Remember(t) = SubSeq(all, 1, M + 1)
  <2>1. <<t>> \o AbsCommands = all
    BY DEF all, first, cs
  <2>2. {k \in 0 .. Len(all) : CH!Cost(all)[k] <= HistoryLen + 1} = N
    <3>1. Len(all) = m + 1
      BY <1>1, <1>6
    <3>. QED  BY <1>13, <3>1, Zenon
  <2>. HIDE DEF N
  <2>. QED  BY <1>15, <2>1, <2>2, Zenon DEF CH!Remember
<1>17. SubSeq(all, 1, M + 1) = [k \in 1 .. M + 1 |-> all[k]]
  <2>1. \A k \in 1 .. M + 1 : all[1 + k - 1] = all[k]
    BY <1>3
  <2>. QED  BY <1>1, <1>3, <1>6, <2>1
<1>18. ASSUME NEW k \in 1 .. M + 1
       PROVE  all[k] = IF k = 1 THEN t ELSE cs[k - 1]
  BY <1>1, <1>3, <1>7, <1>8
<1>. QED  BY <1>16, <1>17, <1>18 DEF cs

-----------------------------------------------------------------------------
(* The two arrays implement CommandHistory.                                *)

\* The mapping of ShellEditor is the list of the entries of its array.
LEMMA AbsCommandsIs ==
  /\ Starts = StartsOf(history)
  /\ \A k : GetHistory(k) = Ranked(StartsOf(history), k)
  /\ AbsCommands = CommandsOf(history)
  /\ AbsCommands' = CommandsOf(history')
<1>1. Starts = StartsOf(history)
  BY DEF Starts, StartsOf
<1>2. \A k : GetHistory(k) = Ranked(StartsOf(history), k)
  BY <1>1, Zenon DEF GetHistory, Ranked, Below
<1>3. AbsCommands = CommandsOf(history)
  BY Zenon DEF AbsCommands, CommandsOf, Starts, StartsOf, GetHistory, Ranked, Below,
               EntryAt, EntryOf, InEntry, InEntryOf
<1>4. AbsCommands' = CommandsOf(history')
  BY Zenon DEF AbsCommands, CommandsOf, Starts, StartsOf, GetHistory, Ranked, Below,
               EntryAt, EntryOf, InEntry, InEntryOf
<1>. QED  BY <1>1, <1>2, <1>3, <1>4

\* The invariant lays the history out.
LEMMA HistoryLaid ==
  ASSUME IInv
  PROVE  /\ history \in [Hist -> Symbols]
         /\ \E m, e, s : Laid(history, m, e, s)
<1>1. history \in [Hist -> Symbols] /\ history[HistoryLen] = NUL /\ Packed(history)
  BY DEF IInv, TypeOK, Windowed
<1>. QED  BY <1>1, LaidOut

\* A recalled entry is the line of that number.
LEMMA RecallGives ==
  ASSUME IInv, result' = "reading", NEW k \in Nat, NEW p \in GetHistory(k), RecallAt(p)
  PROVE  k \in 1 .. Len(AbsCommands) /\ AbsLine' = AbsCommands[k]
<1>. DEFINE h == history
<1>1. h \in [Hist -> Symbols]
  BY HistoryLaid
<1>2. PICK m, e, s : Laid(h, m, e, s)
  BY HistoryLaid
<1>3. p \in Starts /\ k \in 1 .. Cardinality(Starts)
  BY EntryNumber
<1>4. /\ m \in Nat /\ Cardinality(StartsOf(h)) = m
      /\ \A j \in 1 .. m : Ranked(StartsOf(h), j) = {e[j]}
  BY <1>2, CommandsAre
<1>5. /\ Len(AbsCommands) = m
      /\ \A j \in 1 .. m : AbsCommands[j] = Bytes(h, e[j], s[j])
  BY <1>1, <1>2, CommandsSeq, AbsCommandsIs
<1>6. k \in 1 .. m
  BY <1>3, <1>4, AbsCommandsIs
<1>7. p = e[k]
  BY <1>4, <1>6, AbsCommandsIs
<1>8. p \in Nat /\ Spans(h, p, s[k])
  BY <1>2, <1>3, <1>6, <1>7 DEF Laid, Starts
<1>9. PICK n \in Line :
        /\ \A i \in 0 .. n - 1 : InEntry(p, i)
        /\ ~ InEntry(p, n)
        /\ cmdline' = [i \in Line |->
             IF i < n THEN history[p + i] ELSE IF i = n THEN NUL ELSE cmdline[i]]
        /\ len' = n
  BY DEF RecallAt
<1>10. n \in Nat /\ n <= CmdlineLen /\ CmdlineLen \in Nat
  BY DEF Line
<1>11. s[k] \in Nat /\ p + s[k] \in Hist /\ h[p + s[k]] = NUL
  BY <1>8 DEF Spans
<1>12. ~ (s[k] < n)
  <2>1. s[k] < n => s[k] \in 0 .. n - 1
    BY <1>10, <1>11
  <2>2. InEntry(p, s[k]) => h[p + s[k]] # NUL
    BY <1>8, <1>11 DEF InEntry
  <2>. QED  BY <1>9, <1>11, <2>1, <2>2
<1>13. ~ (n < s[k])
  <2>. SUFFICES ASSUME n < s[k] PROVE FALSE
    OBVIOUS
  <2>1. p + n \in Hist
    BY <1>8, <1>10, <1>11 DEF Hist
  <2>2. \A j \in p .. p + n : j \in p .. p + s[k] - 1
    BY <1>8, <1>10, <1>11
  <2>3. \A j \in p .. p + n : h[j] # NUL
    BY <1>8, <2>2, InSpan
  <2>. QED  BY <1>9, <2>1, <2>3 DEF InEntry
<1>14. n = s[k]
  BY <1>10, <1>11, <1>12, <1>13
<1>15. AbsLine' = [i \in 1 .. n |-> cmdline'[i - 1]]
  BY <1>9 DEF AbsLine
<1>16. ASSUME NEW i \in 1 .. n PROVE cmdline'[i - 1] = h[p + i - 1]
  <2>1. i - 1 \in Line /\ i - 1 < n /\ p + (i - 1) = p + i - 1
    BY <1>8, <1>10 DEF Line
  <2>. QED  BY <1>9, <2>1
<1>17. AbsLine' = Bytes(h, p, n)
  BY <1>15, <1>16 DEF Bytes
<1>. QED  BY <1>5, <1>6, <1>7, <1>14, <1>17

\* A submitted line enters the list.
LEMMA EnterIsSubmit ==
  ASSUME IInv, Enter
  PROVE  CH!Submit
<1>1. /\ result = "reading" /\ result' = "line" /\ len' = len
      /\ cmdline' = [cmdline EXCEPT ![len] = NUL] /\ AddToHistory
  BY DEF Enter
<1>2. TypeOK /\ LineTerminated /\ len \in Line /\ len \in Nat
  BY DEF IInv, TypeOK, Line
<1>3. /\ AbsLine = Text(cmdline, len)
      /\ AbsLine \in Seq(Chars) /\ Len(AbsLine) = len
  BY <1>1, <1>2, ReadingText
<1>4. AbsLine' = AbsLine
  <2>1. \A i \in 1 .. len : cmdline'[i - 1] = cmdline[i - 1]
    BY <1>1, <1>2 DEF TypeOK, Line
  <2>2. AbsLine' = Text(cmdline', len)
    BY <1>1 DEF AbsLine, Text
  <2>. QED  BY <1>3, <2>1, <2>2 DEF Text
<1>5. CASE len = 0 \/ len > HistoryLen
  <2>1. UNCHANGED <<history, index>>
    BY <1>1, <1>5 DEF AddToHistory
  <2>2. AbsCommands' = AbsCommands
    BY <2>1, AbsCommandsIs
  <2>3. ~ (AbsLine # <<>> /\ Len(AbsLine) + 1 <= HistoryLen + 1)
    BY <1>2, <1>3, <1>5
  <2>. QED  BY <1>1, <1>4, <2>1, <2>2, <2>3 DEF CH!Submit
<1>6. CASE ~ (len = 0 \/ len > HistoryLen)
  <2>1. history' = ZeroTail(Pushed) /\ index' = 0
    BY <1>1, <1>6 DEF AddToHistory
  <2>2. len \in 1 .. HistoryLen
    BY <1>2, <1>6
  <2>3. \A i \in 0 .. len - 1 : cmdline[i] # NUL
    BY <1>1, <1>2, <2>2 DEF LineTerminated
  <2>4. Pushed = PushedOf(history, cmdline, len)
    BY DEF Pushed, PushedOf
  <2>5. history \in [Hist -> Symbols]
    BY HistoryLaid
  <2>6. PICK m, e, s : Laid(history, m, e, s)
    BY HistoryLaid
  <2>7. PICK M \in 0 .. m :
          \A k \in 1 .. m : k <= M <=> e[k] + s[k] + len + 1 <= HistoryLen
    BY <2>2, <2>6, Cut
  <2>8. AbsCommands' = CommandsOf(ZeroTail(PushedOf(history, cmdline, len)))
    BY <2>1, <2>4, AbsCommandsIs
  <2>9. CommandsOf(ZeroTail(PushedOf(history, cmdline, len))) =
          [k \in 1 .. M + 1 |-> IF k = 1 THEN Text(cmdline, len)
                                ELSE CommandsOf(history)[k - 1]]
    BY <2>2, <2>3, <2>6, <2>7, PushCommands
  <2>10. Text(cmdline, len) \in Seq(Symbols) /\ Len(Text(cmdline, len)) = len
    BY <1>3 DEF Symbols
  <2>11. CH!Remember(Text(cmdline, len)) =
          [k \in 1 .. M + 1 |-> IF k = 1 THEN Text(cmdline, len)
                                ELSE CommandsOf(history)[k - 1]]
    BY <2>2, <2>5, <2>6, <2>7, <2>10, RememberIs, AbsCommandsIs
  <2>12. AbsCommands' = CH!Remember(AbsLine)
    BY <1>3, <2>8, <2>9, <2>11
  <2>13. AbsLine # <<>> /\ Len(AbsLine) + 1 <= HistoryLen + 1
    BY <1>3, <2>2
  <2>. QED  BY <1>1, <1>4, <2>1, <2>12, <2>13 DEF CH!Submit
<1>. QED  BY <1>5, <1>6

\* Every key is a step of CommandHistory, or none.
LEMMA StepRefinesHistory ==
  ASSUME IInv, [Next]_vars
  PROVE  [CH!Next]_CH!vars
<1>1. ASSUME UNCHANGED <<history, index>>, result' \notin {"line", "interrupt"} \ {result}
      PROVE  CH!Next
  <2>1. AbsCommands' = AbsCommands
    BY <1>1, AbsCommandsIs
  <2>. QED  BY <1>1, <2>1 DEF CH!Next, CH!Other
<1>2. ASSUME NEW c \in Chars, Insert(c) PROVE CH!Next
  BY <1>1, <1>2 DEF Insert, Typing
<1>3. CASE Backspace
  BY <1>1, <1>3 DEF Backspace, Typing
<1>4. CASE Delete
  BY <1>1, <1>4 DEF Delete, Typing
<1>5. CASE Kill
  BY <1>1, <1>5 DEF Kill, Typing
<1>6. CASE Move
  BY <1>1, <1>6 DEF Move, Typing
<1>7. CASE EndOfInput
  BY <1>1, <1>7 DEF EndOfInput
<1>8. CASE ReadLine
  BY <1>1, <1>8 DEF ReadLine
<1>9. CASE Enter
  BY <1>9, EnterIsSubmit DEF CH!Next
<1>10. CASE Previous
  <2>1. /\ result = "reading" /\ result' = result /\ history' = history
        /\ index' = index + 1 /\ index + 1 \in Nat
    BY <1>10 DEF Previous, IInv, TypeOK
  <2>2. PICK p \in GetHistory(index + 1) : RecallAt(p)
    BY <1>10 DEF Previous
  <2>3. index + 1 \in 1 .. Len(AbsCommands) /\ AbsLine' = AbsCommands[index + 1]
    BY <2>1, <2>2, RecallGives
  <2>4. AbsCommands' = AbsCommands
    BY <2>1, AbsCommandsIs
  <2>5. CH!Recall(index + 1)
    BY <2>1, <2>3, <2>4 DEF CH!Recall
  <2>. QED  BY <2>5 DEF CH!Next, CH!Older
<1>11. CASE NextKey
  <2>1. /\ result = "reading" /\ result' = result /\ history' = history
        /\ index > 1 /\ index' = index - 1 /\ index - 1 \in Nat
    BY <1>11 DEF NextKey, IInv, TypeOK
  <2>2. PICK p \in GetHistory(index - 1) : RecallAt(p)
    BY <1>11 DEF NextKey
  <2>3. index - 1 \in 1 .. Len(AbsCommands) /\ AbsLine' = AbsCommands[index - 1]
    BY <2>1, <2>2, RecallGives
  <2>4. AbsCommands' = AbsCommands
    BY <2>1, AbsCommandsIs
  <2>5. CH!Recall(index - 1)
    BY <2>1, <2>3, <2>4 DEF CH!Recall
  <2>. QED  BY <2>1, <2>5 DEF CH!Next, CH!Newer
<1>12. CASE Interrupt
  <2>1. /\ result = "reading" /\ result' = "interrupt"
        /\ history' = history /\ index' = 0
    BY <1>12 DEF Interrupt
  <2>2. AbsCommands' = AbsCommands
    BY <2>1, AbsCommandsIs
  <2>. QED  BY <2>1, <2>2 DEF CH!Next, CH!Interrupt
<1>13. CASE UNCHANGED vars
  <2>1. UNCHANGED <<index, result, AbsCommands, AbsLine>>
    BY <1>13, AbsCommandsIs DEF vars, AbsLine
  <2>. QED  BY <2>1 DEF CH!vars
<1>. QED
  BY <1>2, <1>3, <1>4, <1>5, <1>6, <1>7, <1>8, <1>9, <1>10, <1>11, <1>12, <1>13
     DEF Next

\* An empty array is the empty list.
LEMMA InitRefinesHistory ==
  ASSUME Init
  PROVE  CH!Init
<1>1. StartsOf(history) = {}
  BY DEF Init, StartsOf, Hist
<1>2. Cardinality(StartsOf(history)) = 0
  BY <1>1, FS_EmptySet
<1>3. AbsCommands = <<>>
  BY <1>2, AbsCommandsIs DEF CommandsOf
<1>4. AbsLine = <<>>
  BY EmptyText DEF Init, AbsLine, Text
<1>. QED  BY <1>3, <1>4 DEF Init, CH!Init

\* The flat array behaves as the list of CommandHistory: after every line it
\* holds exactly the most recent whole lines that its bytes have room for,
\* newest first, and Ctrl-P / Ctrl-N recall them one by one and unchanged.
THEOREM HistoryRefinesCommandHistory == Spec => ImplementsCommandHistory
<1>1. Init => CH!Init
  BY InitRefinesHistory
<1>2. IInv /\ [Next]_vars => [CH!Next]_CH!vars
  BY StepRefinesHistory
<1>. QED  BY <1>1, <1>2, Invariance, PTL DEF Spec, CH!Spec, ImplementsCommandHistory
=============================================================================
