--------------------------- MODULE Logger_proofs ---------------------------
(***************************************************************************)
(* Proofs of the safety of Logger, for any number of producers and blocks, *)
(* any lengths of the queues, any limit and any set of faults.             *)
(***************************************************************************)
EXTENDS Logger, TLAPS

USE LoggerAssumption

-----------------------------------------------------------------------------
(* The inductive invariant.                                                *)

\* Types, in the parts that are proved apart.
FlagsTyped ==
  /\ enable \in BOOLEAN /\ monitoring \in BOOLEAN /\ busy \in BOOLEAN
  /\ faulty \in BOOLEAN

PlacesTyped ==
  /\ heap \subseteq Bufs
  /\ queue \in Seq(Events) /\ Len(queue) <= QLen
  /\ mqueue \in Seq(Events) /\ Len(mqueue) <= MLen
  /\ hand \in [Producers -> Bufs \union {None}]
  /\ levt \in Events \union {None}
  /\ sevt \in Events \union {None}

TasksTyped ==
  /\ mutex \in {None, "logger", "shell"}
  /\ lpc \in LoggerLabels
  /\ lthen \in {"idle", "first", "next", "close", "drop"}
  /\ size \in Int /\ -1 <= size
  /\ fsize \in 0 .. MaxSize
  /\ spc \in {"prompt", "lockfiles", "files", "locktail", "tail", "monitor",
              "print", "drain"}
  /\ late \in 0 .. 2

\* Where the logger task holds an event.
HasEvent == {"check", "lock", "size", "recheck", "open", "post", "forward", "check2"}

\* Each task holds an event exactly while it works on it.
EventsHeld ==
  /\ levt # None <=> lpc \in HasEvent
  /\ sevt # None <=> spc = "print"

\* Whether the logger task will be at one of the labels in P when it is done
\* with the event in hand.
Heading(P) == lpc \in P \/ (lpc \in {"post", "forward"} /\ lthen \in P)

\* The size is looked at before each line but the first two of a batch.
SizeBounded ==
  /\ size <= Limit + 2
  /\ Heading({"recheck", "open", "first", "drop"}) => size <= Limit
  /\ Heading({"more", "check2", "next"}) => size <= Limit + 1

\* The logger task never takes the file for smaller than it is.
SizeKnown ==
  ~ faulty =>
    /\ fsize <= Limit + 2
    /\ size >= 0 => fsize <= size
    /\ size < 0 /\ Heading({"recheck", "open", "first", "more", "check2", "next"}) =>
         fsize = 0

\* What is on its way to be written was looked at while writing was enabled.
LateInv ==
  /\ late <= 1
  /\ enable \/ Heading({"open", "first", "next"}) => late = 0

Exclusive ==
  /\ LogExclusive
  /\ lpc = "lock" => busy

\* Ownership, block by block.
Within(s, b) == \E i \in DOMAIN s : s[i] = b
Once(s, b) == \A i, j \in DOMAIN s : s[i] = b /\ s[j] = b => i = j

Owned(b) ==
  /\ b \in heap <=> \/ Within(queue, b) \/ Within(mqueue, b)
                    \/ (\E p \in Producers : hand[p] = b)
                    \/ levt = b \/ sevt = b
  /\ Once(queue, b) /\ Once(mqueue, b)
  /\ \A p, q \in Producers : hand[p] = b /\ hand[q] = b => p = q
  /\ Within(queue, b) => ~ Within(mqueue, b) /\ levt # b /\ sevt # b
  /\ Within(mqueue, b) => levt # b /\ sevt # b
  /\ levt = b => sevt # b
  /\ \A p \in Producers : hand[p] = b => 
       ~ Within(queue, b) /\ ~ Within(mqueue, b) /\ levt # b /\ sevt # b

AllOwned == \A b \in Bufs : Owned(b)

-----------------------------------------------------------------------------
(* Where a block occurs in a queue.                                        *)

LEMMA AppendWithin ==
  ASSUME NEW s \in Seq(Events), NEW e \in Events, NEW b
  PROVE  /\ Within(Append(s, e), b) <=> Within(s, b) \/ e = b
         /\ Once(s, b) /\ ~ (Within(s, b) /\ e = b) => Once(Append(s, e), b)
<1>1. /\ DOMAIN s = 1 .. Len(s) /\ Len(s) \in Nat
      /\ DOMAIN Append(s, e) = 1 .. Len(s) + 1
      /\ \A i \in 1 .. Len(s) : Append(s, e)[i] = s[i]
      /\ Append(s, e)[Len(s) + 1] = e
  OBVIOUS
<1>2. \A i \in 1 .. Len(s) + 1 : i \in 1 .. Len(s) \/ i = Len(s) + 1
  BY <1>1
<1>3. Len(s) + 1 \in 1 .. Len(s) + 1 /\ \A i \in 1 .. Len(s) : i \in 1 .. Len(s) + 1
  BY <1>1
<1> QED  BY <1>1, <1>2, <1>3, Zenon DEF Within, Once

LEMMA TailWithin ==
  ASSUME NEW s \in Seq(Events), s # <<>>, NEW b, Once(s, b)
  PROVE  /\ Within(Tail(s), b) <=> Within(s, b) /\ Head(s) # b
         /\ Head(s) = b => Within(s, b)
         /\ Once(Tail(s), b)
<1>1. /\ DOMAIN s = 1 .. Len(s) /\ Len(s) \in Nat \ {0}
      /\ DOMAIN Tail(s) = 1 .. Len(s) - 1
      /\ \A i \in 1 .. Len(s) - 1 : Tail(s)[i] = s[i + 1]
      /\ Head(s) = s[1]
  OBVIOUS
<1>2. Once(Tail(s), b)
  BY <1>1 DEF Once
<1>3. ASSUME Within(Tail(s), b) PROVE Within(s, b) /\ Head(s) # b
  BY <1>1, <1>3 DEF Within, Once
<1>4. ASSUME Within(s, b), Head(s) # b PROVE Within(Tail(s), b)
  <2>1. PICK i \in 1 .. Len(s) : s[i] = b
    BY <1>1, <1>4 DEF Within
  <2>2. i - 1 \in 1 .. Len(s) - 1 /\ Tail(s)[i - 1] = b
    BY <1>1, <1>4, <2>1
  <2> QED  BY <1>1, <2>2 DEF Within
<1>5. Head(s) = b => Within(s, b)
  BY <1>1 DEF Within
<1> QED  BY <1>2, <1>3, <1>4, <1>5

-----------------------------------------------------------------------------
(* Every block has one owner.                                              *)

LEMMA OwnedInit == Init => AllOwned
BY DEF Init, AllOwned, Owned, Within, Once

LEMMA OwnedSame ==
  ASSUME AllOwned, UNCHANGED <<heap, queue, mqueue, hand, levt, sevt>>
  PROVE  AllOwned'
BY DEF AllOwned, Owned, Within, Once

\* A block from a producer's hand, or a text in ROM, to the queue.
LEMMA OwnedPut ==
  ASSUME PlacesTyped, AllOwned, NEW p \in Producers, Copy(p) \/ Put(p)
  PROVE  AllOwned'
<1> SUFFICES ASSUME NEW b \in Bufs PROVE Owned(b)'
  BY DEF AllOwned
<1>1. Owned(b) BY DEF AllOwned
<1>2. CASE Copy(p)
  <2>1. PICK c \in Bufs \ heap :
          heap' = heap \union {c} /\ hand' = [hand EXCEPT ![p] = c]
    BY <1>2 DEF Copy
  <2>2. \A q \in Producers : hand'[q] = IF q = p THEN c ELSE hand[q]
    BY <2>1 DEF PlacesTyped
  <2>3. hand[p] = None /\ None \notin Bufs /\ UNCHANGED <<queue, mqueue, levt, sevt>>
    BY <1>2 DEF Copy, loggerVars, shellVars
  <2> QED  BY <1>1, <2>1, <2>2, <2>3 DEF Owned
<1>3. CASE Put(p)
  <2>1. \A q \in Producers : hand'[q] = IF q = p THEN None ELSE hand[q]
    BY <1>3 DEF Put, PlacesTyped
  <2>2. hand[p] \in Bufs /\ None \notin Bufs /\ UNCHANGED <<mqueue, levt, sevt>>
    BY <1>3 DEF Put, PlacesTyped, loggerVars, shellVars
  <2>3. CASE queue' = Append(queue, hand[p]) /\ UNCHANGED heap
    <3>1. /\ Within(queue', b) <=> Within(queue, b) \/ hand[p] = b
          /\ Once(queue, b) /\ ~ (Within(queue, b) /\ hand[p] = b) => Once(queue', b)
      BY <2>2, <2>3, AppendWithin DEF PlacesTyped, Events
    <3> QED  BY <1>1, <2>1, <2>2, <2>3, <3>1 DEF Owned
  <2>4. CASE heap' = heap \ {hand[p]} /\ UNCHANGED queue
    BY <1>1, <2>1, <2>2, <2>4 DEF Owned
  <2> QED  BY <1>3, <2>3, <2>4 DEF Put
<1> QED  BY <1>2, <1>3

LEMMA OwnedPutConst ==
  ASSUME PlacesTyped, AllOwned, PutConst
  PROVE  AllOwned'
<1> SUFFICES ASSUME NEW b \in Bufs PROVE Owned(b)'
  BY DEF AllOwned
<1>1. Owned(b) /\ Const # b BY DEF AllOwned
<1>2. /\ Within(queue', b) <=> Within(queue, b)
      /\ Once(queue, b) => Once(queue', b)
  BY <1>1, AppendWithin DEF PutConst, PlacesTyped, Events
<1> QED  BY <1>1, <1>2 DEF PutConst, Owned, loggerVars, shellVars

\* The head of a queue to the hand of the task that reads it.
LEMMA OwnedGet ==
  ASSUME PlacesTyped, AllOwned, levt = None, queue # <<>>,
         levt' = Head(queue), queue' = Tail(queue),
         UNCHANGED <<heap, mqueue, hand, sevt>>
  PROVE  AllOwned'
<1> SUFFICES ASSUME NEW b \in Bufs PROVE Owned(b)'
  BY DEF AllOwned
<1>1. Owned(b) /\ None # b BY DEF AllOwned
<1>2. /\ Within(queue', b) <=> Within(queue, b) /\ levt' # b
      /\ levt' = b => Within(queue, b)
      /\ Once(queue', b)
  BY <1>1, TailWithin DEF PlacesTyped, Owned
<1> QED  BY <1>1, <1>2 DEF Owned

LEMMA OwnedMonitor ==
  ASSUME PlacesTyped, EventsHeld, AllOwned, MonitorGet \/ MonitorPrint \/ MonitorDrain
  PROVE  AllOwned'
<1> SUFFICES ASSUME NEW b \in Bufs PROVE Owned(b)'
  BY DEF AllOwned
<1>1. Owned(b) /\ None # b BY DEF AllOwned
<1>2. UNCHANGED <<queue, hand, levt>>
  BY DEF MonitorGet, MonitorPrint, MonitorDrain, ShellAt, loggerVars
<1>3. CASE mqueue # <<>> /\ mqueue' = Tail(mqueue)
  <2>1. /\ Within(mqueue', b) <=> Within(mqueue, b) /\ Head(mqueue) # b
        /\ Head(mqueue) = b => Within(mqueue, b)
        /\ Once(mqueue', b)
    BY <1>1, <1>3, TailWithin DEF PlacesTyped, Owned
  <2>2. CASE MonitorGet
    <3>1. sevt = None /\ sevt' = Head(mqueue) /\ heap' = heap
      BY <2>2 DEF MonitorGet, ShellAt, EventsHeld
    <3> QED  BY <1>1, <1>2, <2>1, <3>1 DEF Owned
  <2>3. CASE MonitorDrain
    <3>1. sevt' = sevt /\ heap' = heap \ {Head(mqueue)}
      BY <2>3 DEF MonitorDrain
    <3> QED  BY <1>1, <1>2, <2>1, <3>1 DEF Owned
  <2>4. CASE MonitorPrint
    <3>1. sevt' = None /\ heap' = heap \ {sevt} /\ mqueue' = mqueue
      BY <2>4 DEF MonitorPrint
    <3> QED  BY <1>1, <1>2, <3>1 DEF Owned
  <2> QED  BY <2>2, <2>3, <2>4
<1>4. CASE MonitorPrint
  <2>1. sevt' = None /\ heap' = heap \ {sevt} /\ mqueue' = mqueue
    BY <1>4 DEF MonitorPrint
  <2> QED  BY <1>1, <1>2, <2>1 DEF Owned
<1> QED  BY <1>3, <1>4 DEF MonitorGet, MonitorDrain

\* The event in the logger task's hand: freed, or forwarded to the monitor.
LEMMA OwnedPost ==
  ASSUME PlacesTyped, EventsHeld, AllOwned, PostFree \/ PostForward
  PROVE  AllOwned'
<1> SUFFICES ASSUME NEW b \in Bufs PROVE Owned(b)'
  BY DEF AllOwned
<1>1. Owned(b) /\ None # b BY DEF AllOwned
<1>2. levt \in Events /\ levt' = None /\ UNCHANGED <<queue, hand, sevt>>
  BY DEF PostFree, PostForward, EventsHeld, HasEvent, PlacesTyped, shellVars
<1>3. CASE heap' = heap \ {levt} /\ mqueue' = mqueue
  BY <1>1, <1>2, <1>3 DEF Owned
<1>4. CASE mqueue' = Append(mqueue, levt) /\ heap' = heap
  <2>1. /\ Within(mqueue', b) <=> Within(mqueue, b) \/ levt = b
        /\ Once(mqueue, b) /\ ~ (Within(mqueue, b) /\ levt = b) => Once(mqueue', b)
    BY <1>2, <1>4, AppendWithin DEF PlacesTyped
  <2> QED  BY <1>1, <1>2, <1>4, <2>1 DEF Owned
<1> QED  BY <1>3, <1>4 DEF PostFree, PostForward

\* What a block's one owner is called in BuffersOwned.
LEMMA OwnedHolders == 
  ASSUME PlacesTyped, AllOwned
  PROVE  BuffersOwned
<1> SUFFICES ASSUME NEW b \in Bufs
             PROVE  IF b \in heap THEN \E h \in Holders(b) : Holders(b) = {h}
                                  ELSE Holders(b) = {}
  BY DEF BuffersOwned
<1>1. Owned(b)
  BY DEF AllOwned
<1>2. \A h : h \in Holders(b) <=>
        \/ \E i \in DOMAIN queue : queue[i] = b /\ h = <<"queue", i>>
        \/ \E i \in DOMAIN mqueue : mqueue[i] = b /\ h = <<"mqueue", i>>
        \/ \E p \in Producers : hand[p] = b /\ h = <<"hand", p>>
        \/ levt = b /\ h = <<"logger", 0>>
        \/ sevt = b /\ h = <<"shell", 0>>
  BY Zenon DEF Holders
<1>3. CASE b \notin heap
  BY <1>1, <1>2, <1>3 DEF Owned, Within
<1> SUFFICES ASSUME b \in heap PROVE \E h \in Holders(b) : Holders(b) = {h}
  BY <1>3
<1>4. CASE Within(queue, b)
  <2>1. /\ ~ Within(mqueue, b)
        /\ \A p \in Producers : hand[p] # b
        /\ levt # b
        /\ sevt # b
    BY <1>1, <1>4 DEF Owned
  <2>2. PICK i \in DOMAIN queue :
          queue[i] = b /\ \A j \in DOMAIN queue : queue[j] = b => j = i
    BY <1>1, <1>4 DEF Owned, Within, Once
  <2>3. \A h : h \in Holders(b) <=> h = <<"queue", i>>
    BY <1>2, <2>1, <2>2, Zenon DEF Within
  <2>4. Holders(b) = {<<"queue", i>>} /\ <<"queue", i>> \in Holders(b)
    BY <2>3
  <2> QED  BY <2>4, Zenon
<1>5. CASE Within(mqueue, b)
  <2>1. /\ ~ Within(queue, b)
        /\ \A p \in Producers : hand[p] # b
        /\ levt # b
        /\ sevt # b
    BY <1>1, <1>5 DEF Owned
  <2>2. PICK i \in DOMAIN mqueue :
          mqueue[i] = b /\ \A j \in DOMAIN mqueue : mqueue[j] = b => j = i
    BY <1>1, <1>5 DEF Owned, Within, Once
  <2>3. \A h : h \in Holders(b) <=> h = <<"mqueue", i>>
    BY <1>2, <2>1, <2>2, Zenon DEF Within
  <2>4. Holders(b) = {<<"mqueue", i>>} /\ <<"mqueue", i>> \in Holders(b)
    BY <2>3
  <2> QED  BY <2>4, Zenon
<1>6. CASE \E p \in Producers : hand[p] = b
  <2>1. /\ ~ Within(queue, b)
        /\ ~ Within(mqueue, b)
        /\ levt # b
        /\ sevt # b
    BY <1>1, <1>6 DEF Owned
  <2>2. PICK p \in Producers : hand[p] = b /\ \A q \in Producers : hand[q] = b => q = p
    BY <1>1, <1>6 DEF Owned
  <2>3. \A h : h \in Holders(b) <=> h = <<"hand", p>>
    BY <1>2, <2>1, <2>2, Zenon DEF Within
  <2>4. Holders(b) = {<<"hand", p>>} /\ <<"hand", p>> \in Holders(b)
    BY <2>3
  <2> QED  BY <2>4, Zenon
<1>7. CASE levt = b
  <2>1. /\ ~ Within(queue, b)
        /\ ~ Within(mqueue, b)
        /\ \A p \in Producers : hand[p] # b
        /\ sevt # b
    BY <1>1, <1>7 DEF Owned
  <2>2. \A h : h \in Holders(b) <=> h = <<"logger", 0>>
    BY <1>2, <1>7, <2>1, Zenon DEF Within
  <2>3. Holders(b) = {<<"logger", 0>>} /\ <<"logger", 0>> \in Holders(b)
    BY <2>2
  <2> QED  BY <2>3, Zenon
<1>8. CASE sevt = b
  <2>1. /\ ~ Within(queue, b)
        /\ ~ Within(mqueue, b)
        /\ \A p \in Producers : hand[p] # b
        /\ levt # b
    BY <1>1, <1>8 DEF Owned
  <2>2. \A h : h \in Holders(b) <=> h = <<"shell", 0>>
    BY <1>2, <1>8, <2>1, Zenon DEF Within
  <2>3. Holders(b) = {<<"shell", 0>>} /\ <<"shell", 0>> \in Holders(b)
    BY <2>2
  <2> QED  BY <2>3, Zenon
<1> QED  BY <1>1, <1>3, <1>4, <1>5, <1>6, <1>7, <1>8 DEF Owned

\* All steps: the rest leaves every block where it is.
LEMMA OwnedStep ==
  PlacesTyped /\ EventsHeld /\ AllOwned /\ [Next]_vars => AllOwned'
<1> SUFFICES ASSUME PlacesTyped, EventsHeld, AllOwned, [Next]_vars PROVE AllOwned'
  OBVIOUS
<1>1. CASE \E p \in Producers : Copy(p)
  BY <1>1, OwnedPut
<1>2. CASE \E p \in Producers : Put(p)
  BY <1>2, OwnedPut
<1>3. CASE PutConst
  BY <1>3, OwnedPutConst
<1>4. CASE SwitchEnable
  BY <1>4, OwnedSame DEF SwitchEnable, flags, loggerVars, shellVars
<1>5. CASE Get("idle", "check")
  BY <1>5, OwnedGet DEF Get, LoggerAt, EventsHeld, HasEvent, shellVars
<1>6. CASE Check
  BY <1>6, OwnedSame DEF Check, Post, flags, loggerVars, shellVars
<1>7. CASE Lock
  BY <1>7, OwnedSame DEF Lock, LoggerAt, flags, loggerVars, shellVars
<1>8. CASE CheckSize
  BY <1>8, OwnedSame DEF CheckSize, LoggerAt, flags, loggerVars, shellVars
<1>9. CASE Recheck
  BY <1>9, OwnedSame DEF Recheck, Post, flags, loggerVars, shellVars
<1>10. CASE Open
  BY <1>10, OwnedSame DEF Open, Post, flags, loggerVars, shellVars
<1>11. CASE PostLook
  BY <1>11, OwnedSame DEF PostLook, flags, loggerVars, shellVars
<1>12. CASE PostFree
  BY <1>12, OwnedPost
<1>13. CASE PostForward
  BY <1>13, OwnedPost
<1>14. CASE WriteFirst
  BY <1>14, OwnedSame DEF WriteFirst, WriteLine, LoggerAt, flags, loggerVars, shellVars
<1>15. CASE Get("more", "check2")
  BY <1>15, OwnedGet DEF Get, LoggerAt, EventsHeld, HasEvent, shellVars
<1>16. CASE CheckMore
  BY <1>16, OwnedSame DEF CheckMore, Post, flags, loggerVars, shellVars
<1>17. CASE WriteMore
  BY <1>17, OwnedSame DEF WriteMore, WriteLine, flags, loggerVars, shellVars
<1>18. CASE LazyTimeout
  BY <1>18, OwnedSame DEF LazyTimeout, LoggerAt, flags, loggerVars, shellVars
<1>19. CASE DropNext
  BY <1>19, OwnedGet DEF DropNext, Post, EventsHeld, HasEvent, shellVars
<1>20. CASE Unlock
  BY <1>20, OwnedSame DEF Unlock, flags, loggerVars, shellVars
<1>21. CASE FilesAsk
  BY <1>21, OwnedSame DEF FilesAsk, ShellAt, flags, loggerVars, shellVars
<1>22. CASE FilesLock
  BY <1>22, OwnedSame DEF FilesLock, ShellAt, flags, loggerVars, shellVars
<1>23. CASE FilesDone
  BY <1>23, OwnedSame DEF FilesDone, ShellAt, flags, loggerVars, shellVars
<1>24. CASE TailAsk
  BY <1>24, OwnedSame DEF TailAsk, ShellAt, flags, loggerVars, shellVars
<1>25. CASE TailLock
  BY <1>25, OwnedSame DEF TailLock, ShellAt, flags, loggerVars, shellVars
<1>26. CASE TailTimeout
  BY <1>26, OwnedSame DEF TailTimeout, ShellAt, flags, loggerVars, shellVars
<1>27. CASE TailDone
  BY <1>27, OwnedSame DEF TailDone, ShellAt, flags, loggerVars, shellVars
<1>28. CASE MonitorStart
  BY <1>28, OwnedSame DEF MonitorStart, ShellAt, flags, loggerVars, shellVars
<1>29. CASE MonitorGet
  BY <1>29, OwnedMonitor
<1>30. CASE MonitorPrint
  BY <1>30, OwnedMonitor
<1>31. CASE MonitorStop
  BY <1>31, OwnedSame DEF MonitorStop, ShellAt, flags, loggerVars, shellVars
<1>32. CASE MonitorDrain
  BY <1>32, OwnedMonitor
<1>33. CASE MonitorEnd
  BY <1>33, OwnedSame DEF MonitorEnd, ShellAt, flags, loggerVars, shellVars
<1>34. CASE Reset
  BY <1>34 DEF Reset, AllOwned, Owned, Within, Once
<1>35. CASE UNCHANGED vars
  BY <1>35, OwnedSame DEF vars
<1> QED
  BY <1>1, <1>2, <1>3, <1>4, <1>5, <1>6, <1>7, <1>8, <1>9, <1>10, <1>11, <1>12, <1>13,
     <1>14, <1>15, <1>16, <1>17, <1>18, <1>19, <1>20, <1>21, <1>22, <1>23, <1>24, <1>25,
     <1>26, <1>27, <1>28, <1>29, <1>30, <1>31, <1>32, <1>33, <1>34, <1>35 DEF Next, Log,
     LoggerTask, ShellTask

-----------------------------------------------------------------------------
(* The other parts, action by action.                                      *)

\* Types of the flags.
LEMMA FlagsStep == FlagsTyped /\ [Next]_vars => FlagsTyped'
<1> SUFFICES ASSUME FlagsTyped, [Next]_vars PROVE FlagsTyped'
  OBVIOUS
<1> USE DEF FlagsTyped, flags, loggerVars, shellVars
<1>1. CASE \E p \in Producers : Copy(p)
  BY <1>1, Zenon DEF Copy
<1>2. CASE \E p \in Producers : Put(p)
  BY <1>2, Zenon DEF Put
<1>3. CASE PutConst
  BY <1>3, Zenon DEF PutConst
<1>4. CASE SwitchEnable
  BY <1>4, Zenon DEF SwitchEnable
<1>5. CASE Get("idle", "check")
  BY <1>5, Zenon DEF Get, LoggerAt
<1>6. CASE Check
  BY <1>6, Zenon DEF Check, Post
<1>7. CASE Lock
  BY <1>7, Zenon DEF Lock, LoggerAt
<1>8. CASE CheckSize
  BY <1>8, Zenon DEF CheckSize, LoggerAt
<1>9. CASE Recheck
  BY <1>9, Zenon DEF Recheck, Post
<1>10. CASE Open
  BY <1>10, Zenon DEF Open, Post
<1>11. CASE PostLook
  BY <1>11, Zenon DEF PostLook
<1>12. CASE PostFree
  BY <1>12, Zenon DEF PostFree
<1>13. CASE PostForward
  BY <1>13, Zenon DEF PostForward
<1>14. CASE WriteFirst
  BY <1>14, Zenon DEF WriteFirst, WriteLine, LoggerAt
<1>15. CASE Get("more", "check2")
  BY <1>15, Zenon DEF Get, LoggerAt
<1>16. CASE CheckMore
  BY <1>16, Zenon DEF CheckMore, Post
<1>17. CASE WriteMore
  BY <1>17, Zenon DEF WriteMore, WriteLine
<1>18. CASE LazyTimeout
  BY <1>18, Zenon DEF LazyTimeout, LoggerAt
<1>19. CASE DropNext
  BY <1>19, Zenon DEF DropNext, Post
<1>20. CASE Unlock
  BY <1>20, Zenon DEF Unlock
<1>21. CASE ShellTask
  BY <1>21, Zenon DEF ShellTask, ShellAt, FilesAsk, FilesLock, FilesDone, TailAsk,
     TailLock, TailTimeout, TailDone, MonitorStart, MonitorGet, MonitorPrint,
     MonitorStop, MonitorDrain, MonitorEnd
<1>22. CASE Reset
  BY <1>22, Zenon DEF Reset
<1>23. CASE UNCHANGED vars
  BY <1>23, Zenon DEF vars
<1> QED
  BY <1>1, <1>2, <1>3, <1>4, <1>5, <1>6, <1>7, <1>8, <1>9, <1>10, <1>11, <1>12, <1>13,
     <1>14, <1>15, <1>16, <1>17, <1>18, <1>19, <1>20, <1>21, <1>22, <1>23 DEF Next, Log,
     LoggerTask, ShellTask

\* Types of queues and hands, and who holds an event.
LEMMA PlacesStep ==
  PlacesTyped /\ TasksTyped /\ EventsHeld /\ [Next]_vars => (PlacesTyped /\ EventsHeld)'
<1> SUFFICES ASSUME PlacesTyped, TasksTyped, EventsHeld, [Next]_vars
  PROVE (PlacesTyped /\ EventsHeld)'
  OBVIOUS
<1> USE DEF PlacesTyped, TasksTyped, EventsHeld, HasEvent, Events,
            flags, loggerVars, shellVars
<1>1. CASE \E p \in Producers : Copy(p)
  BY <1>1 DEF Copy
<1>2. CASE \E p \in Producers : Put(p)
  <2> SUFFICES ASSUME NEW p \in Producers, Put(p) PROVE (PlacesTyped /\ EventsHeld)'
    BY <1>2
  <2>1. hand[p] \in Bufs /\ hand' \in [Producers -> Bufs \union {None}]
    BY DEF Put
  <2>2. queue' \in Seq(Events) /\ Len(queue') <= QLen
    <3>1. CASE UNCHANGED queue
      BY <3>1
    <3>2. CASE Len(queue) < QLen /\ queue' = Append(queue, hand[p])
      <4>1. hand[p] \in Events /\ queue \in Seq(Events)
        BY <2>1
      <4>2. /\ Append(queue, hand[p]) \in Seq(Events)
            /\ Len(Append(queue, hand[p])) = Len(queue) + 1
        BY <4>1
      <4> QED  BY <3>2, <4>1, <4>2
    <3> QED  BY <3>1, <3>2 DEF Put
  <2>3. heap' \subseteq Bufs
    BY DEF Put
  <2>4. UNCHANGED <<mqueue, levt, sevt, lpc, spc>>
    BY DEF Put
  <2> QED  BY <2>1, <2>2, <2>3, <2>4
<1>3. CASE PutConst
  BY <1>3 DEF PutConst
<1>4. CASE SwitchEnable
  BY <1>4 DEF SwitchEnable
<1>5. CASE Get("idle", "check")
  BY <1>5 DEF Get, LoggerAt
<1>6. CASE Check
  BY <1>6 DEF Check, Post
<1>7. CASE Lock
  BY <1>7 DEF Lock, LoggerAt
<1>8. CASE CheckSize
  BY <1>8 DEF CheckSize, LoggerAt
<1>9. CASE Recheck
  BY <1>9 DEF Recheck, Post
<1>10. CASE Open
  BY <1>10 DEF Open, Post
<1>11. CASE PostLook
  BY <1>11 DEF PostLook
<1>12. CASE PostFree
  BY <1>12 DEF PostFree
<1>13. CASE PostForward
  BY <1>13 DEF PostForward
<1>14. CASE WriteFirst
  BY <1>14 DEF WriteFirst, WriteLine, LoggerAt
<1>15. CASE Get("more", "check2")
  BY <1>15 DEF Get, LoggerAt
<1>16. CASE CheckMore
  BY <1>16 DEF CheckMore, Post
<1>17. CASE WriteMore
  BY <1>17 DEF WriteMore, WriteLine
<1>18. CASE LazyTimeout
  BY <1>18 DEF LazyTimeout, LoggerAt
<1>19. CASE DropNext
  BY <1>19 DEF DropNext, Post
<1>20. CASE Unlock
  BY <1>20 DEF Unlock
<1>21. CASE FilesAsk
  BY <1>21 DEF FilesAsk, ShellAt
<1>22. CASE FilesLock
  BY <1>22 DEF FilesLock, ShellAt
<1>23. CASE FilesDone
  BY <1>23 DEF FilesDone, ShellAt
<1>24. CASE TailAsk
  BY <1>24 DEF TailAsk, ShellAt
<1>25. CASE TailLock
  BY <1>25 DEF TailLock, ShellAt
<1>26. CASE TailTimeout
  BY <1>26 DEF TailTimeout, ShellAt
<1>27. CASE TailDone
  BY <1>27 DEF TailDone, ShellAt
<1>28. CASE MonitorStart
  BY <1>28 DEF MonitorStart, ShellAt
<1>29. CASE MonitorGet
  BY <1>29 DEF MonitorGet, ShellAt
<1>30. CASE MonitorPrint
  BY <1>30 DEF MonitorPrint, ShellAt
<1>31. CASE MonitorStop
  BY <1>31 DEF MonitorStop, ShellAt
<1>32. CASE MonitorDrain
  BY <1>32 DEF MonitorDrain, ShellAt
<1>33. CASE MonitorEnd
  BY <1>33 DEF MonitorEnd, ShellAt
<1>34. CASE Reset
  BY <1>34 DEF Reset
<1>35. CASE UNCHANGED vars
  BY <1>35 DEF vars
<1> QED
  BY <1>1, <1>2, <1>3, <1>4, <1>5, <1>6, <1>7, <1>8, <1>9, <1>10, <1>11, <1>12, <1>13,
     <1>14, <1>15, <1>16, <1>17, <1>18, <1>19, <1>20, <1>21, <1>22, <1>23, <1>24, <1>25,
     <1>26, <1>27, <1>28, <1>29, <1>30, <1>31, <1>32, <1>33, <1>34, <1>35 DEF Next, Log,
     LoggerTask, ShellTask

\* Types of the tasks' state; the size stays near the limit.
LEMMA TasksStep ==
  TasksTyped /\ SizeBounded /\ [Next]_vars => (TasksTyped /\ SizeBounded)'
<1> SUFFICES ASSUME TasksTyped, SizeBounded, [Next]_vars
  PROVE (TasksTyped /\ SizeBounded)'
  OBVIOUS
<1> USE DEF TasksTyped, SizeBounded, Heading, LoggerLabels, flags, loggerVars, shellVars
<1>1. CASE \E p \in Producers : Copy(p)
  BY <1>1 DEF Copy
<1>2. CASE \E p \in Producers : Put(p)
  BY <1>2 DEF Put
<1>3. CASE PutConst
  BY <1>3 DEF PutConst
<1>4. CASE SwitchEnable
  BY <1>4 DEF SwitchEnable
<1>5. CASE Get("idle", "check")
  BY <1>5 DEF Get, LoggerAt
<1>6. CASE Check
  BY <1>6 DEF Check, Post
<1>7. CASE Lock
  BY <1>7 DEF Lock, LoggerAt
<1>8. CASE CheckSize
  BY <1>8 DEF CheckSize, LoggerAt
<1>9. CASE Recheck
  BY <1>9 DEF Recheck, Post
<1>10. CASE Open
  BY <1>10 DEF Open, Post
<1>11. CASE PostLook
  BY <1>11 DEF PostLook
<1>12. CASE PostFree
  BY <1>12 DEF PostFree
<1>13. CASE PostForward
  BY <1>13 DEF PostForward
<1>14. CASE WriteFirst
  BY <1>14 DEF WriteFirst, WriteLine, LoggerAt
<1>15. CASE Get("more", "check2")
  BY <1>15 DEF Get, LoggerAt
<1>16. CASE CheckMore
  BY <1>16 DEF CheckMore, Post
<1>17. CASE WriteMore
  BY <1>17 DEF WriteMore, WriteLine
<1>18. CASE LazyTimeout
  BY <1>18 DEF LazyTimeout, LoggerAt
<1>19. CASE DropNext
  BY <1>19 DEF DropNext, Post
<1>20. CASE Unlock
  BY <1>20 DEF Unlock
<1>21. CASE ShellTask
  BY <1>21 DEF ShellTask, ShellAt, FilesAsk, FilesLock, FilesDone, TailAsk, TailLock,
     TailTimeout, TailDone, MonitorStart, MonitorGet, MonitorPrint, MonitorStop,
     MonitorDrain, MonitorEnd
<1>22. CASE Reset
  BY <1>22 DEF Reset
<1>23. CASE UNCHANGED vars
  BY <1>23 DEF vars
<1> QED
  BY <1>1, <1>2, <1>3, <1>4, <1>5, <1>6, <1>7, <1>8, <1>9, <1>10, <1>11, <1>12, <1>13,
     <1>14, <1>15, <1>16, <1>17, <1>18, <1>19, <1>20, <1>21, <1>22, <1>23 DEF Next, Log,
     LoggerTask, ShellTask

\* The mutex says who is at the files.
LEMMA ExclusiveStep == TasksTyped /\ Exclusive /\ [Next]_vars => Exclusive'
<1> SUFFICES ASSUME TasksTyped, Exclusive, [Next]_vars PROVE Exclusive'
  OBVIOUS
<1> USE DEF TasksTyped, Exclusive, LogExclusive, InLog, LoggerLabels,
            flags, loggerVars, shellVars
<1>1. CASE \E p \in Producers : Copy(p)
  BY <1>1 DEF Copy
<1>2. CASE \E p \in Producers : Put(p)
  BY <1>2 DEF Put
<1>3. CASE PutConst
  BY <1>3 DEF PutConst
<1>4. CASE SwitchEnable
  BY <1>4 DEF SwitchEnable
<1>5. CASE Get("idle", "check")
  BY <1>5 DEF Get, LoggerAt
<1>6. CASE Check
  BY <1>6 DEF Check, Post
<1>7. CASE Lock
  BY <1>7 DEF Lock, LoggerAt
<1>8. CASE CheckSize
  BY <1>8 DEF CheckSize, LoggerAt
<1>9. CASE Recheck
  BY <1>9 DEF Recheck, Post
<1>10. CASE Open
  BY <1>10 DEF Open, Post
<1>11. CASE PostLook
  BY <1>11 DEF PostLook
<1>12. CASE PostFree
  BY <1>12 DEF PostFree
<1>13. CASE PostForward
  BY <1>13 DEF PostForward
<1>14. CASE WriteFirst
  BY <1>14 DEF WriteFirst, WriteLine, LoggerAt
<1>15. CASE Get("more", "check2")
  BY <1>15 DEF Get, LoggerAt
<1>16. CASE CheckMore
  BY <1>16 DEF CheckMore, Post
<1>17. CASE WriteMore
  BY <1>17 DEF WriteMore, WriteLine
<1>18. CASE LazyTimeout
  BY <1>18 DEF LazyTimeout, LoggerAt
<1>19. CASE DropNext
  BY <1>19 DEF DropNext, Post
<1>20. CASE Unlock
  BY <1>20 DEF Unlock
<1>21. CASE FilesAsk
  BY <1>21 DEF FilesAsk, ShellAt
<1>22. CASE FilesLock
  BY <1>22 DEF FilesLock, ShellAt
<1>23. CASE FilesDone
  BY <1>23 DEF FilesDone, ShellAt
<1>24. CASE TailAsk
  BY <1>24 DEF TailAsk, ShellAt
<1>25. CASE TailLock
  BY <1>25 DEF TailLock, ShellAt
<1>26. CASE TailTimeout
  BY <1>26 DEF TailTimeout, ShellAt
<1>27. CASE TailDone
  BY <1>27 DEF TailDone, ShellAt
<1>28. CASE MonitorStart
  BY <1>28 DEF MonitorStart, ShellAt
<1>29. CASE MonitorGet
  BY <1>29 DEF MonitorGet, ShellAt
<1>30. CASE MonitorPrint
  BY <1>30 DEF MonitorPrint, ShellAt
<1>31. CASE MonitorStop
  BY <1>31 DEF MonitorStop, ShellAt
<1>32. CASE MonitorDrain
  BY <1>32 DEF MonitorDrain, ShellAt
<1>33. CASE MonitorEnd
  BY <1>33 DEF MonitorEnd, ShellAt
<1>34. CASE Reset
  BY <1>34 DEF Reset
<1>35. CASE UNCHANGED vars
  BY <1>35 DEF vars
<1> QED
  BY <1>1, <1>2, <1>3, <1>4, <1>5, <1>6, <1>7, <1>8, <1>9, <1>10, <1>11, <1>12, <1>13,
     <1>14, <1>15, <1>16, <1>17, <1>18, <1>19, <1>20, <1>21, <1>22, <1>23, <1>24, <1>25,
     <1>26, <1>27, <1>28, <1>29, <1>30, <1>31, <1>32, <1>33, <1>34, <1>35 DEF Next, Log,
     LoggerTask, ShellTask

\* The size is no smaller than the file.
LEMMA SizeStep == TasksTyped /\ SizeBounded /\ SizeKnown /\ [Next]_vars => SizeKnown'
<1> SUFFICES ASSUME TasksTyped, SizeBounded, SizeKnown, [Next]_vars PROVE SizeKnown'
  OBVIOUS
<1> USE DEF TasksTyped, SizeBounded, SizeKnown, Heading, LoggerLabels,
            flags, loggerVars, shellVars
<1>1. CASE \E p \in Producers : Copy(p)
  BY <1>1 DEF Copy
<1>2. CASE \E p \in Producers : Put(p)
  BY <1>2 DEF Put
<1>3. CASE PutConst
  BY <1>3 DEF PutConst
<1>4. CASE SwitchEnable
  BY <1>4 DEF SwitchEnable
<1>5. CASE Get("idle", "check")
  BY <1>5 DEF Get, LoggerAt
<1>6. CASE Check
  BY <1>6 DEF Check, Post
<1>7. CASE Lock
  BY <1>7 DEF Lock, LoggerAt
<1>8. CASE CheckSize
  BY <1>8 DEF CheckSize, LoggerAt
<1>9. CASE Recheck
  BY <1>9 DEF Recheck, Post
<1>10. CASE Open
  BY <1>10 DEF Open, Post
<1>11. CASE PostLook
  BY <1>11 DEF PostLook
<1>12. CASE PostFree
  BY <1>12 DEF PostFree
<1>13. CASE PostForward
  BY <1>13 DEF PostForward
<1>14. CASE WriteFirst
  BY <1>14 DEF WriteFirst, WriteLine, LoggerAt
<1>15. CASE Get("more", "check2")
  BY <1>15 DEF Get, LoggerAt
<1>16. CASE CheckMore
  BY <1>16 DEF CheckMore, Post
<1>17. CASE WriteMore
  BY <1>17 DEF WriteMore, WriteLine
<1>18. CASE LazyTimeout
  BY <1>18 DEF LazyTimeout, LoggerAt
<1>19. CASE DropNext
  BY <1>19 DEF DropNext, Post
<1>20. CASE Unlock
  BY <1>20 DEF Unlock
<1>21. CASE ShellTask
  BY <1>21 DEF ShellTask, ShellAt, FilesAsk, FilesLock, FilesDone, TailAsk, TailLock,
     TailTimeout, TailDone, MonitorStart, MonitorGet, MonitorPrint, MonitorStop,
     MonitorDrain, MonitorEnd
<1>22. CASE Reset
  BY <1>22 DEF Reset
<1>23. CASE UNCHANGED vars
  BY <1>23 DEF vars
<1> QED
  BY <1>1, <1>2, <1>3, <1>4, <1>5, <1>6, <1>7, <1>8, <1>9, <1>10, <1>11, <1>12, <1>13,
     <1>14, <1>15, <1>16, <1>17, <1>18, <1>19, <1>20, <1>21, <1>22, <1>23 DEF Next, Log,
     LoggerTask, ShellTask

\* Nothing more than the line under way is written while disabled.
LEMMA LateStep == TasksTyped /\ LateInv /\ [Next]_vars => LateInv'
<1> SUFFICES ASSUME TasksTyped, LateInv, [Next]_vars PROVE LateInv'
  OBVIOUS
<1> USE DEF TasksTyped, LateInv, Heading, LoggerLabels, flags, loggerVars, shellVars
<1>1. CASE \E p \in Producers : Copy(p)
  BY <1>1 DEF Copy
<1>2. CASE \E p \in Producers : Put(p)
  BY <1>2 DEF Put
<1>3. CASE PutConst
  BY <1>3 DEF PutConst
<1>4. CASE SwitchEnable
  BY <1>4 DEF SwitchEnable
<1>5. CASE Get("idle", "check")
  BY <1>5 DEF Get, LoggerAt
<1>6. CASE Check
  BY <1>6 DEF Check, Post
<1>7. CASE Lock
  BY <1>7 DEF Lock, LoggerAt
<1>8. CASE CheckSize
  BY <1>8 DEF CheckSize, LoggerAt
<1>9. CASE Recheck
  BY <1>9 DEF Recheck, Post
<1>10. CASE Open
  BY <1>10 DEF Open, Post
<1>11. CASE PostLook
  BY <1>11 DEF PostLook
<1>12. CASE PostFree
  BY <1>12 DEF PostFree
<1>13. CASE PostForward
  BY <1>13 DEF PostForward
<1>14. CASE WriteFirst
  BY <1>14 DEF WriteFirst, WriteLine, LoggerAt
<1>15. CASE Get("more", "check2")
  BY <1>15 DEF Get, LoggerAt
<1>16. CASE CheckMore
  BY <1>16 DEF CheckMore, Post
<1>17. CASE WriteMore
  BY <1>17 DEF WriteMore, WriteLine
<1>18. CASE LazyTimeout
  BY <1>18 DEF LazyTimeout, LoggerAt
<1>19. CASE DropNext
  BY <1>19 DEF DropNext, Post
<1>20. CASE Unlock
  BY <1>20 DEF Unlock
<1>21. CASE ShellTask
  BY <1>21 DEF ShellTask, ShellAt, FilesAsk, FilesLock, FilesDone, TailAsk, TailLock,
     TailTimeout, TailDone, MonitorStart, MonitorGet, MonitorPrint, MonitorStop,
     MonitorDrain, MonitorEnd
<1>22. CASE Reset
  BY <1>22 DEF Reset
<1>23. CASE UNCHANGED vars
  BY <1>23 DEF vars
<1> QED
  BY <1>1, <1>2, <1>3, <1>4, <1>5, <1>6, <1>7, <1>8, <1>9, <1>10, <1>11, <1>12, <1>13,
     <1>14, <1>15, <1>16, <1>17, <1>18, <1>19, <1>20, <1>21, <1>22, <1>23 DEF Next, Log,
     LoggerTask, ShellTask

-----------------------------------------------------------------------------
(* The theorems.                                                           *)

IInv ==
  /\ FlagsTyped /\ PlacesTyped /\ TasksTyped /\ SizeBounded /\ EventsHeld
  /\ Exclusive /\ SizeKnown /\ LateInv /\ AllOwned

LEMMA InitIInv == Init => IInv
<1> SUFFICES ASSUME Init PROVE IInv
  OBVIOUS
<1>1. FlagsTyped
  BY Zenon DEF Init, FlagsTyped
<1>2. PlacesTyped /\ EventsHeld
  BY DEF Init, PlacesTyped, EventsHeld, HasEvent
<1>3. TasksTyped /\ SizeBounded /\ SizeKnown /\ LateInv
  BY DEF Init, TasksTyped, LoggerLabels, SizeBounded, SizeKnown, LateInv, Heading
<1>4. Exclusive
  BY DEF Init, Exclusive, LogExclusive, InLog
<1> QED  BY <1>1, <1>2, <1>3, <1>4, OwnedInit DEF IInv

LEMMA NextIInv == IInv /\ [Next]_vars => IInv'
BY FlagsStep, PlacesStep, TasksStep, ExclusiveStep, SizeStep, LateStep, OwnedStep DEF IInv

LEMMA Invariance == Spec => []IInv
BY InitIInv, NextIInv, PTL DEF Spec

\* Types, and the queues within their lengths.
THEOREM TypeCorrect == Spec => []TypeOK
<1>1. IInv => TypeOK
  BY DEF IInv, TypeOK, FlagsTyped, PlacesTyped, TasksTyped, SizeBounded
<1> QED  BY <1>1, Invariance, PTL

\* Every text of task_logger.c has one owner until it is freed, and is freed
\* once, however many tasks log.
THEOREM BuffersAlwaysOwned == Spec => []BuffersOwned
<1>1. IInv => BuffersOwned
  BY OwnedHolders DEF IInv
<1> QED  BY <1>1, Invariance, PTL

\* The log files have one user at a time, and no path keeps the mutex.
THEOREM LogAlwaysExclusive == Spec => []LogExclusive
<1>1. IInv => LogExclusive
  BY DEF IInv, Exclusive
<1> QED  BY <1>1, Invariance, PTL

\* The log file outgrows its limit by two lines at most, unless the file
\* system fails.
THEOREM FileAlwaysBounded == Spec => []FileBounded
<1>1. IInv => FileBounded
  BY DEF IInv, SizeKnown, FileBounded
<1> QED  BY <1>1, Invariance, PTL

\* After writing is disabled at most one more line is written.
THEOREM DisableAlwaysBinds == Spec => []DisableBinds
<1>1. IInv => DisableBinds
  BY DEF IInv, LateInv, DisableBinds
<1> QED  BY <1>1, Invariance, PTL
=============================================================================
