-------------------------- MODULE LogFiles_proofs --------------------------
(***************************************************************************)
(* Proofs about LogFiles, for every number of levels and every set of      *)
(* calls that may fail.                                                    *)
(***************************************************************************)
EXTENDS LogFiles, TLAPS

USE LogFilesAssumption

ShellBusy == spc \in {"delete", "deletebak", "backup", "backupmove"}

\* Who holds the mutex is the only one in the middle of something, and
\* rotation removes at the last level only.
Locked ==
  /\ mutex = "logger" <=> lpc # "idle"
  /\ mutex = "shell" <=> ShellBusy
  /\ mutex \in {None, "logger", "shell"}
  /\ lpc = "remove" => level + 1 = Level

\* What is said of the files alone.
FilesOK(l, b, g) ==
  /\ l \in [Levels -> Gens \union {None}]
  /\ b \in [Levels -> Gens \union {None}]
  /\ g \in 0 .. MaxGen
  /\ \A n \in Levels : l[n] # None => l[n] <= g
  /\ \A n \in Levels : b[n] # None => b[n] <= g
  /\ \A m, n \in Levels : m < n /\ l[m] # None /\ l[n] # None => l[m] > l[n]
  /\ \A m, n \in Levels : m <= n /\ l[m] # None /\ b[n] # None => l[m] > b[n]

\* The rest of the types.
TasksOK ==
  /\ mutex \in {None, "logger", "shell"}
  /\ lpc \in {"idle", "look", "remove", "rename", "open"}
  /\ level \in 0 .. Level - 1
  /\ size \in {"unknown", "small", "big"}
  /\ spc \in {"idle", "delete", "deletebak", "deleted", "backup", "backupmove", "saved"}
  /\ i \in Levels
  /\ both \in BOOLEAN /\ succ \in BOOLEAN
  /\ asked \subseteq Gens /\ passed \subseteq Gens

IInv == FilesOK(log, bak, gen) /\ TasksOK /\ Locked

-----------------------------------------------------------------------------
(* What each change of the files keeps.                                    *)

LEMMA RemovedOK ==
  ASSUME NEW l, NEW b, NEW g, FilesOK(l, b, g), NEW n \in Levels
  PROVE  FilesOK([l EXCEPT ![n] = None], b, g)
BY DEF FilesOK

LEMMA BakRemovedOK ==
  ASSUME NEW l, NEW b, NEW g, FilesOK(l, b, g), NEW n \in Levels
  PROVE  FilesOK(l, [b EXCEPT ![n] = None], g)
BY DEF FilesOK

LEMMA RenamedOK ==
  ASSUME NEW l, NEW b, NEW g, FilesOK(l, b, g), NEW n \in 0 .. Level - 1,
         l[n] # None, l[n + 1] = None
  PROVE  FilesOK([l EXCEPT ![n + 1] = l[n], ![n] = None], b, g)
<1>. DEFINE k == [l EXCEPT ![n + 1] = l[n], ![n] = None]
<1>1. n \in Levels /\ n + 1 \in Levels /\ n # n + 1
  BY DEF Levels
<1>2. /\ k \in [Levels -> Gens \union {None}]
      /\ k[n] = None /\ k[n + 1] = l[n]
      /\ \A m \in Levels : m # n /\ m # n + 1 => k[m] = l[m]
  BY <1>1 DEF FilesOK
<1>. HIDE DEF k
<1>3. \A m, p \in Levels : m < p /\ k[m] # None /\ k[p] # None => k[m] > k[p]
  <2>. SUFFICES ASSUME NEW m \in Levels, NEW p \in Levels,
                       m < p, k[m] # None, k[p] # None
                PROVE  k[m] > k[p]
    OBVIOUS
  <2>1. m # n /\ p # n
    BY <1>2
  <2>2. CASE m = n + 1
    <3>1. n < p /\ p # n + 1
      BY <1>1, <2>2 DEF Levels
    <3>. QED  BY <1>1, <1>2, <2>1, <2>2, <3>1 DEF FilesOK
  <2>3. CASE p = n + 1
    <3>1. m < n
      BY <1>1, <2>1, <2>3 DEF Levels
    <3>. QED  BY <1>1, <1>2, <2>1, <2>3, <3>1 DEF FilesOK
  <2>4. CASE m # n + 1 /\ p # n + 1
    BY <1>2, <2>1, <2>4 DEF FilesOK
  <2>. QED  BY <2>2, <2>3, <2>4
<1>4. \A m \in Levels : k[m] # None => k[m] <= g
  BY <1>1, <1>2 DEF FilesOK
<1>5. \A m, p \in Levels : m <= p /\ k[m] # None /\ b[p] # None => k[m] > b[p]
  <2>. SUFFICES ASSUME NEW m \in Levels, NEW p \in Levels,
                       m <= p, k[m] # None, b[p] # None
                PROVE  k[m] > b[p]
    OBVIOUS
  <2>1. CASE m = n + 1
    <3>1. n <= p
      BY <2>1 DEF Levels
    <3>. QED  BY <1>1, <1>2, <2>1, <3>1 DEF FilesOK
  <2>2. CASE m # n + 1
    BY <1>2, <2>2 DEF FilesOK
  <2>. QED  BY <2>1, <2>2
<1>6. FilesOK(k, b, g)
  BY <1>2, <1>3, <1>4, <1>5 DEF FilesOK
<1>. QED  BY <1>6 DEF k

LEMMA CreatedOK ==
  ASSUME NEW l, NEW b, NEW g, FilesOK(l, b, g), l[0] = None, g < MaxGen
  PROVE  FilesOK([l EXCEPT ![0] = g + 1], b, g + 1)
<1>. DEFINE k == [l EXCEPT ![0] = g + 1]
<1>1. 0 \in Levels /\ g \in Nat /\ g + 1 \in Gens /\ g + 1 \in 0 .. MaxGen
  BY DEF Levels, Gens, FilesOK
<1>2. /\ k \in [Levels -> Gens \union {None}]
      /\ k[0] = g + 1
      /\ \A m \in Levels : m # 0 => k[m] = l[m]
  BY <1>1 DEF FilesOK
<1>. HIDE DEF k
<1>3. \A m \in Levels : (l[m] # None => l[m] < g + 1) /\ (b[m] # None => b[m] < g + 1)
  BY <1>1 DEF FilesOK, Gens
<1>4. \A m \in Levels : (k[m] # None => k[m] <= g + 1) /\ (b[m] # None => b[m] <= g + 1)
  BY <1>1, <1>2, <1>3 DEF FilesOK, Gens
<1>5. \A m, p \in Levels : m < p /\ k[m] # None /\ k[p] # None => k[m] > k[p]
  <2>. SUFFICES ASSUME NEW m \in Levels, NEW p \in Levels,
                       m < p, k[m] # None, k[p] # None
                PROVE  k[m] > k[p]
    OBVIOUS
  <2>1. p # 0
    BY DEF Levels
  <2>2. CASE m = 0
    BY <1>1, <1>2, <1>3, <2>1, <2>2 DEF FilesOK, Gens
  <2>3. CASE m # 0
    BY <1>2, <2>1, <2>3 DEF FilesOK
  <2>. QED  BY <2>2, <2>3
<1>6. \A m, p \in Levels : m <= p /\ k[m] # None /\ b[p] # None => k[m] > b[p]
  <2>. SUFFICES ASSUME NEW m \in Levels, NEW p \in Levels,
                       m <= p, k[m] # None, b[p] # None
                PROVE  k[m] > b[p]
    OBVIOUS
  <2>1. CASE m = 0
    <3>1. b[p] \in Nat /\ b[p] < g + 1
      BY <1>3 DEF FilesOK, Gens
    <3>. QED  BY <1>1, <1>2, <2>1, <3>1
  <2>2. CASE m # 0
    BY <1>2, <2>2 DEF FilesOK
  <2>. QED  BY <2>1, <2>2
<1>7. FilesOK(k, b, g + 1)
  BY <1>1, <1>2, <1>4, <1>5, <1>6 DEF FilesOK
<1>. QED  BY <1>7 DEF k

LEMMA SavedOK ==
  ASSUME NEW l, NEW b, NEW g, FilesOK(l, b, g), NEW n \in Levels,
         l[n] # None, b[n] = None
  PROVE  FilesOK([l EXCEPT ![n] = None], [b EXCEPT ![n] = l[n]], g)
<1>. DEFINE k == [l EXCEPT ![n] = None]
            c == [b EXCEPT ![n] = l[n]]
<1>1. /\ k \in [Levels -> Gens \union {None}] /\ c \in [Levels -> Gens \union {None}]
      /\ k[n] = None /\ c[n] = l[n]
      /\ \A m \in Levels : m # n => k[m] = l[m] /\ c[m] = b[m]
  BY DEF FilesOK
<1>. HIDE DEF k, c
<1>3. \A m, p \in Levels : m <= p /\ k[m] # None /\ c[p] # None => k[m] > c[p]
  <2>. SUFFICES ASSUME NEW m \in Levels, NEW p \in Levels,
                       m <= p, k[m] # None, c[p] # None
                PROVE  k[m] > c[p]
    OBVIOUS
  <2>1. m # n /\ k[m] = l[m]
    BY <1>1
  <2>2. CASE p = n
    <3>1. m < n
      BY <2>1, <2>2 DEF Levels
    <3>. QED  BY <1>1, <2>1, <2>2, <3>1 DEF FilesOK
  <2>3. CASE p # n
    BY <1>1, <2>1, <2>3 DEF FilesOK
  <2>. QED  BY <2>2, <2>3
<1>5. \A m, p \in Levels : m < p /\ k[m] # None /\ k[p] # None => k[m] > k[p]
  BY <1>1 DEF FilesOK
<1>6. \A m \in Levels : (k[m] # None => k[m] <= g) /\ (c[m] # None => c[m] <= g)
  BY <1>1 DEF FilesOK
<1>7. FilesOK(k, c, g)
  BY <1>1, <1>3, <1>5, <1>6 DEF FilesOK
<1>. QED  BY <1>7 DEF k, c

-----------------------------------------------------------------------------
(* The invariant.                                                          *)

LEMMA ZeroOK == 0 \in Levels /\ 0 \in 0 .. Level - 1
BY DEF Levels

LEMMA NoneIsNoFile == None \notin Gens /\ Gens \subseteq Nat
BY DEF Gens

LEMMA InitIInv == Init => IInv
<1>. SUFFICES ASSUME Init PROVE IInv
  OBVIOUS
<1>1. FilesOK(log, bak, gen)
  BY DEF Init, FilesOK
<1>2. TasksOK
  BY ZeroOK DEF Init, TasksOK
<1>3. Locked
  BY DEF Init, Locked, ShellBusy
<1>. QED  BY <1>1, <1>2, <1>3 DEF IInv

LEMMA LoggerIInv == IInv /\ LoggerTask => IInv'
<1>. SUFFICES ASSUME IInv, LoggerTask PROVE IInv'
  OBVIOUS
<1>0. FilesOK(log, bak, gen) /\ TasksOK /\ Locked
  BY DEF IInv
<1>1. CASE LoggerLock
  <2>1. FilesOK(log', bak', gen')
    BY <1>0, <1>1 DEF LoggerLock
  <2>2. TasksOK' /\ Locked'
    BY <1>0, <1>1, ZeroOK DEF LoggerLock, TasksOK, Locked, shellVars, ShellBusy
  <2>. QED  BY <2>1, <2>2 DEF IInv
<1>2. CASE RotateLook
  <2>1. FilesOK(log', bak', gen')
    BY <1>0, <1>2 DEF RotateLook
  <2>2. TasksOK' /\ Locked'
    BY <1>0, <1>2 DEF RotateLook, TasksOK, Locked, shellVars, ShellBusy
  <2>. QED  BY <2>1, <2>2 DEF IInv
<1>3. CASE RotateRemove
  <2>1. level + 1 \in Levels
    BY <1>0 DEF TasksOK, Levels
  <2>2. FilesOK(log', bak', gen')
    BY <1>0, <1>3, <2>1, RemovedOK DEF RotateRemove, Remove
  <2>3. TasksOK' /\ Locked'
    BY <1>0, <1>3 DEF RotateRemove, TasksOK, Locked, shellVars, ShellBusy
  <2>. QED  BY <2>2, <2>3 DEF IInv
<1>4. CASE RotateRename
  <2>1. level \in 0 .. Level - 1
    BY <1>0 DEF TasksOK
  <2>2. FilesOK(log', bak', gen')
    BY <1>0, <1>4, <2>1, RenamedOK DEF RotateRename, Renames
  <2>3. TasksOK' /\ Locked'
    BY <1>0, <1>4 DEF RotateRename, TasksOK, Locked, shellVars, ShellBusy
  <2>. QED  BY <2>2, <2>3 DEF IInv
<1>5. CASE LoggerWrite
  <2>1. FilesOK(log', bak', gen')
    BY <1>0, <1>5, CreatedOK DEF LoggerWrite
  <2>2. TasksOK' /\ Locked'
    BY <1>0, <1>5 DEF LoggerWrite, TasksOK, Locked, shellVars, ShellBusy
  <2>. QED  BY <2>1, <2>2 DEF IInv
<1>. QED  BY <1>1, <1>2, <1>3, <1>4, <1>5 DEF LoggerTask

\* Removing a file, or failing to, from either set.
LEMMA RemovedKeeps ==
  ASSUME IInv, NEW gone, NEW n \in Levels
  PROVE  /\ Removed(log, n, log', gone) => FilesOK(log', bak, gen)
         /\ Removed(bak, n, bak', gone) => FilesOK(log, bak', gen)
<1>. FilesOK(log, bak, gen)
  BY DEF IInv
<1>1. ASSUME Removed(log, n, log', gone) PROVE FilesOK(log', bak, gen)
  <2>1. log' = log \/ log' = [log EXCEPT ![n] = None]
    BY <1>1 DEF Removed, Remove
  <2>. QED  BY <2>1, RemovedOK
<1>2. ASSUME Removed(bak, n, bak', gone) PROVE FilesOK(log, bak', gen)
  <2>1. bak' = bak \/ bak' = [bak EXCEPT ![n] = None]
    BY <1>2 DEF Removed, Remove
  <2>. QED  BY <2>1, BakRemovedOK
<1>. QED  BY <1>1, <1>2

LEMMA ShellIInv == IInv /\ ShellTask => IInv'
<1>. SUFFICES ASSUME IInv, ShellTask PROVE IInv'
  OBVIOUS
<1>0. FilesOK(log, bak, gen) /\ TasksOK /\ Locked /\ i \in Levels
  BY DEF IInv, TasksOK
<1>1. CASE FilesLock
  <2>1. FilesOK(log', bak', gen')
    BY <1>0, <1>1 DEF FilesLock
  <2>2. Files(log) \union Files(bak) \subseteq Gens
    BY <1>0 DEF FilesOK, Files
  <2>3. 0 \in Levels
    BY DEF Levels
  <2>4. TasksOK' /\ Locked'
    BY <1>0, <1>1, <2>2, <2>3 DEF FilesLock, TasksOK, Locked, loggerVars, ShellBusy
  <2>. QED  BY <2>1, <2>4 DEF IInv
<1>2. ASSUME NEW from \in {"delete", "backup"}, NEW to \in {"deleted", "saved"},
             FilesNext(from, to)
      PROVE  /\ i' \in Levels
             /\ spc' \in {from, to}
             /\ mutex' = IF spc' = from THEN mutex ELSE None
  BY <1>0, <1>2 DEF FilesNext, FilesEnd, Levels
<1>3. CASE DeleteLog
  <2>1. /\ FilesOK(log', bak', gen')
        /\ succ' \in BOOLEAN
    BY <1>0, <1>3, RemovedKeeps DEF DeleteLog, TasksOK
  <2>2. TasksOK' /\ Locked'
    BY <1>0, <1>2, <1>3, <2>1 DEF DeleteLog, TasksOK, Locked, loggerVars, ShellBusy
  <2>. QED  BY <2>1, <2>2 DEF IInv
<1>4. CASE DeleteBak
  <2>1. /\ FilesOK(log', bak', gen')
        /\ succ' \in BOOLEAN
    BY <1>0, <1>4, RemovedKeeps DEF DeleteBak, TasksOK
  <2>2. TasksOK' /\ Locked'
    BY <1>0, <1>2, <1>4, <2>1 DEF DeleteBak, TasksOK, Locked, loggerVars, ShellBusy
  <2>. QED  BY <2>1, <2>2 DEF IInv
<1>5. CASE BackupLook
  <2>1. PICK there \in Seen(log[i]), gone \in BOOLEAN :
          /\ there => Removed(bak, i, bak', gone)
          /\ passed' = IF there /\ ~ gone THEN passed \union {bak[i]} ELSE passed
          /\ \/ ~ there /\ FilesEnd("saved") /\ UNCHANGED <<bak, succ>>
             \/ there /\ gone /\ spc' = "backupmove" /\ UNCHANGED <<i, mutex, succ>>
             \/ there /\ ~ gone /\ succ' = FALSE /\ FilesNext("backup", "saved")
    BY <1>5 DEF BackupLook
  <2>2. there \in BOOLEAN
    BY <2>1 DEF Seen
  <2>3. FilesOK(log', bak', gen')
    BY <1>0, <1>5, <2>1, <2>2, RemovedKeeps DEF BackupLook
  <2>4. 0 \in Levels
    BY DEF Levels
  <2>5. UNCHANGED <<lpc, level, size, both, asked>> /\ spc = "backup"
    BY <1>5 DEF BackupLook, loggerVars
  <2>9. passed' \subseteq Gens
    <3>1. there /\ ~ gone => bak[i] # None
      BY <2>1 DEF Removed, Seen, Remove
    <3>2. bak[i] # None => bak[i] \in Gens
      BY <1>0 DEF FilesOK
    <3>3. passed \subseteq Gens
      BY <1>0 DEF TasksOK
    <3>. QED  BY <2>1, <3>1, <3>2, <3>3
  <2>6. CASE FilesEnd("saved") /\ UNCHANGED <<bak, succ>>
    BY <1>0, <2>3, <2>4, <2>5, <2>6, <2>9 DEF FilesEnd, IInv, TasksOK, Locked, ShellBusy
  <2>7. CASE spc' = "backupmove" /\ UNCHANGED <<i, mutex, succ>>
    BY <1>0, <2>3, <2>5, <2>7, <2>9 DEF IInv, TasksOK, Locked, ShellBusy
  <2>8. CASE succ' = FALSE /\ FilesNext("backup", "saved")
    BY <1>0, <1>2, <2>3, <2>5, <2>8, <2>9 DEF IInv, TasksOK, Locked, ShellBusy
  <2>. QED  BY <2>1, <2>2, <2>6, <2>7, <2>8
<1>6. CASE BackupMove
  <2>1. FilesOK(log', bak', gen')
    BY <1>0, <1>6, SavedOK DEF BackupMove, Renames
  <2>2. 0 \in Levels
    BY DEF Levels
  <2>3. UNCHANGED <<lpc, level, size, both, asked, passed>> /\ spc = "backupmove"
    BY <1>6 DEF BackupMove, loggerVars
  <2>4. CASE succ' = TRUE /\ FilesNext("backup", "saved")
    BY <1>0, <1>2, <2>1, <2>3, <2>4 DEF IInv, TasksOK, Locked, ShellBusy
  <2>5. CASE succ' = FALSE /\ FilesEnd("saved")
    BY <1>0, <2>1, <2>2, <2>3, <2>5 DEF FilesEnd, IInv, TasksOK, Locked, ShellBusy
  <2>. QED  BY <1>6, <2>4, <2>5 DEF BackupMove
<1>. QED  BY <1>1, <1>3, <1>4, <1>5, <1>6 DEF ShellTask

LEMMA NextIInv == IInv /\ [Next]_vars => IInv'
<1>. SUFFICES ASSUME IInv, [Next]_vars PROVE IInv'
  OBVIOUS
<1>1. CASE PowerCycle
  <2>1. FilesOK(log', bak', gen')
    BY <1>1 DEF PowerCycle, IInv
  <2>2. TasksOK' /\ Locked'
    BY <1>1, ZeroOK DEF IInv, PowerCycle, TasksOK, Locked, ShellBusy
  <2>. QED  BY <2>1, <2>2 DEF IInv
<1>2. CASE UNCHANGED vars
  BY <1>2 DEF vars, IInv, TasksOK, Locked, ShellBusy
<1>. QED  BY <1>1, <1>2, LoggerIInv, ShellIInv DEF Next

LEMMA Invariance == Spec => []IInv
BY InitIInv, NextIInv, PTL DEF Spec

LEMMA FilesOrdered == IInv => TypeOK /\ OldestLast
BY DEF IInv, FilesOK, TasksOK, TypeOK, OldestLast

\* Types.
THEOREM TypeCorrect == Spec => []TypeOK
BY Invariance, FilesOrdered, PTL

\* The log files stay in the order of their names, through failures of the
\* file system and of power, for any number of levels.
THEOREM LogAlwaysOrdered == Spec => []OldestLast
BY Invariance, FilesOrdered, PTL

-----------------------------------------------------------------------------
(* The order of what was saved.                                            *)

Saving == spc \in {"backup", "backupmove"}

\* The .bak files are in order, and those of the saving under way are younger
\* than the logs it has still before it.
BaksOK(b, p) ==
  \A m, n \in Levels :
    m < n /\ b[m] # None /\ b[n] # None /\ b[m] \notin p => b[m] > b[n]

AheadOK(l, b, p, k) ==
  \A m, n \in Levels :
    m < k /\ k <= n /\ b[m] # None /\ l[n] # None /\ b[m] \notin p => b[m] > l[n]

SavedInv == BaksOK(bak, passed) /\ (Saving => AheadOK(log, bak, passed, i))

LEMMA SavedInit == Init => SavedInv
BY DEF Init, SavedInv, BaksOK, Saving

\* A .bak that is gone, or has become one passed over, breaks no order.
LEMMA FewerBaks ==
  ASSUME NEW l, NEW b, NEW p, NEW q, NEW k, NEW c,
         \A n \in Levels : c[n] = b[n] \/ c[n] = None, p \subseteq q
  PROVE  /\ BaksOK(b, p) => BaksOK(c, q)
         /\ AheadOK(l, b, p, k) => AheadOK(l, c, q, k)
BY DEF BaksOK, AheadOK

LEMMA LoggerSaved ==
  ASSUME IInv, SavedInv, LoggerTask
  PROVE  SavedInv'
<1>1. ~ Saving
  BY DEF IInv, Locked, ShellBusy, Saving, LoggerTask, LoggerLock, RotateLook, RotateRemove,
         RotateRename, LoggerWrite
<1>2. bak' = bak /\ UNCHANGED shellVars
  BY DEF LoggerTask, LoggerLock, RotateLook, RotateRemove, RotateRename, LoggerWrite
<1>. QED  BY <1>1, <1>2 DEF SavedInv, Saving, shellVars

\* The loop goes on behind a level whose .bak is in order with what is ahead.
LEMMA NextSaved ==
  ASSUME NEW l, NEW b, NEW p, TasksOK, AheadOK(l, b, p, i),
         \A n \in Levels : i < n /\ b[i] # None /\ b[i] \notin p /\ l[n] # None => b[i] > l[n]
  PROVE  AheadOK(l, b, p, i + 1)
<1>. SUFFICES ASSUME NEW m \in Levels, NEW n \in Levels, m < i + 1, i + 1 <= n,
                     b[m] # None, l[n] # None, b[m] \notin p
              PROVE  b[m] > l[n]
  BY DEF AheadOK
<1>1. i <= n /\ i < n /\ (m < i \/ m = i)
  BY DEF TasksOK, Levels
<1>2. CASE m < i
  BY <1>1, <1>2 DEF AheadOK
<1>3. CASE m = i
  BY <1>1, <1>3
<1>. QED  BY <1>1, <1>2, <1>3

LEMMA ShellSaved ==
  ASSUME IInv, SavedInv, ShellTask
  PROVE  SavedInv'
<1>0. TasksOK /\ FilesOK(log, bak, gen) /\ i \in Levels /\ BaksOK(bak, passed)
  BY DEF IInv, TasksOK, SavedInv
<1>1. CASE FilesLock
  <2>1. bak' = bak /\ passed' = passed /\ i' = 0
    BY <1>1 DEF FilesLock
  <2>2. AheadOK(log', bak', passed', 0)
    BY DEF AheadOK, Levels
  <2>. QED  BY <1>0, <2>1, <2>2 DEF SavedInv
<1>2. CASE DeleteLog \/ DeleteBak
  <2>1. ~ Saving'
    BY <1>2 DEF DeleteLog, DeleteBak, FilesNext, FilesEnd, Saving
  <2>2. passed' = passed /\ \A n \in Levels : bak'[n] = bak[n] \/ bak'[n] = None
    BY <1>0, <1>2 DEF DeleteLog, DeleteBak, Removed, Remove, FilesOK
  <2>3. BaksOK(bak', passed')
    BY <1>0, <2>2, FewerBaks
  <2>. QED  BY <2>1, <2>3 DEF SavedInv
<1>3. CASE BackupLook
  <2>1. PICK there \in Seen(log[i]), gone \in BOOLEAN :
          /\ there => Removed(bak, i, bak', gone)
          /\ passed' = IF there /\ ~ gone THEN passed \union {bak[i]} ELSE passed
          /\ \/ ~ there /\ FilesEnd("saved") /\ UNCHANGED <<bak, succ>>
             \/ there /\ gone /\ spc' = "backupmove" /\ UNCHANGED <<i, mutex, succ>>
             \/ there /\ ~ gone /\ succ' = FALSE /\ FilesNext("backup", "saved")
    BY <1>3 DEF BackupLook
  <2>2. log' = log /\ AheadOK(log, bak, passed, i)
    BY <1>3 DEF BackupLook, SavedInv, Saving
  <2>3. \A n \in Levels : bak'[n] = bak[n] \/ bak'[n] = None
    BY <1>0, <2>1 DEF Removed, Remove, FilesOK
  <2>4. passed \subseteq passed'
    BY <2>1
  <2>5. BaksOK(bak', passed')
    BY <1>0, <2>3, <2>4, FewerBaks
  <2>6. AheadOK(log', bak', passed', i)
    BY <2>2, <2>3, <2>4, FewerBaks
  <2>7. CASE spc' = "saved"
    BY <2>5, <2>7 DEF SavedInv, Saving
  <2>8. CASE i' = i
    BY <2>5, <2>6, <2>8 DEF SavedInv
  <2>9. CASE there /\ ~ gone /\ i' = i + 1
    <3>1. bak'[i] = None \/ bak'[i] \in passed'
      BY <1>0, <2>1, <2>3, <2>9
    <3>2. AheadOK(log', bak', passed', i + 1)
      BY <1>0, <2>6, <3>1, NextSaved
    <3>. QED  BY <2>5, <2>9, <3>2 DEF SavedInv
  <2>. QED  BY <2>1, <2>7, <2>8, <2>9 DEF FilesEnd, FilesNext
<1>4. CASE BackupMove
  <2>1. passed' = passed /\ AheadOK(log, bak, passed, i)
    BY <1>4 DEF BackupMove, SavedInv, Saving
  <2>2. CASE /\ log[i] # None /\ bak[i] = None
             /\ bak' = [bak EXCEPT ![i] = log[i]]
             /\ log' = [log EXCEPT ![i] = None]
             /\ FilesNext("backup", "saved")
    <3>1. /\ bak'[i] = log[i] /\ log'[i] = None
          /\ \A n \in Levels : n # i => bak'[n] = bak[n] /\ log'[n] = log[n]
      BY <1>0, <2>2 DEF FilesOK
    <3>2. BaksOK(bak', passed')
      <4>. SUFFICES ASSUME NEW m \in Levels, NEW n \in Levels, m < n, bak'[m] # None,
                           bak'[n] # None, bak'[m] \notin passed'
                    PROVE  bak'[m] > bak'[n]
        BY DEF BaksOK
      <4>1. CASE m = i
        <5>1. i <= n /\ n # i
          BY <4>1 DEF Levels
        <5>. QED  BY <1>0, <2>2, <3>1, <4>1, <5>1 DEF FilesOK
      <4>2. CASE n = i
        <5>1. m # i /\ i <= i
          BY <4>2 DEF Levels
        <5>. QED  BY <1>0, <2>1, <2>2, <3>1, <4>2, <5>1 DEF AheadOK
      <4>3. CASE m # i /\ n # i
        BY <1>0, <2>1, <3>1, <4>3 DEF BaksOK
      <4>. QED  BY <4>1, <4>2, <4>3
    <3>3. AheadOK(log', bak', passed', i)
      <4>. SUFFICES ASSUME NEW m \in Levels, NEW n \in Levels, m < i, i <= n,
                           bak'[m] # None, log'[n] # None, bak'[m] \notin passed'
                    PROVE  bak'[m] > log'[n]
        BY DEF AheadOK
      <4>1. m # i
        BY DEF Levels
      <4>2. n # i
        BY <3>1
      <4>. QED  BY <2>1, <3>1, <4>1, <4>2 DEF AheadOK
    <3>4. \A n \in Levels : i < n /\ log'[n] # None => bak'[i] > log'[n]
      <4>. SUFFICES ASSUME NEW n \in Levels, i < n, log'[n] # None
                    PROVE  bak'[i] > log'[n]
        OBVIOUS
      <4>1. n # i
        BY DEF Levels
      <4>. QED  BY <1>0, <2>2, <3>1, <4>1 DEF FilesOK
    <3>5. AheadOK(log', bak', passed', i + 1)
      BY <1>0, <3>3, <3>4, NextSaved
    <3>6. i' = i + 1 \/ ~ Saving'
      BY <2>2 DEF FilesNext, FilesEnd, Saving
    <3>. QED  BY <3>2, <3>5, <3>6 DEF SavedInv
  <2>3. CASE FilesEnd("saved") /\ UNCHANGED <<log, bak>>
    BY <1>0, <2>1, <2>3 DEF FilesEnd, SavedInv, Saving
  <2>. QED  BY <1>4, <2>2, <2>3 DEF BackupMove, Renames
<1>. QED  BY <1>1, <1>2, <1>3, <1>4 DEF ShellTask

LEMMA SavedNext == IInv /\ SavedInv /\ [Next]_vars => SavedInv'
<1>1. ASSUME SavedInv, PowerCycle PROVE SavedInv'
  BY <1>1 DEF PowerCycle, SavedInv, Saving
<1>2. ASSUME SavedInv, UNCHANGED vars PROVE SavedInv'
  BY <1>2 DEF vars, SavedInv, Saving
<1>. QED  BY <1>1, <1>2, LoggerSaved, ShellSaved DEF Next

\* Saved files stay in the order of their names, except one that a saving
\* could not remove and passed over, and are older than the logs that may take
\* their place: for any depth, failing calls and power cycles.
THEOREM SavedAlwaysOrdered == Spec => []SavedOldestLast
<1>1. IInv /\ SavedInv => SavedOldestLast
  BY DEF IInv, FilesOK, SavedInv, BaksOK, SavedOldestLast
<1>. QED  BY <1>1, SavedInit, SavedNext, Invariance, PTL DEF Spec

-----------------------------------------------------------------------------
(* What is lost.                                                           *)

LEMMA RenameKeepsFiles ==
  ASSUME IInv, RotateRename
  PROVE  Files(log) \subseteq Files(log')
<1>. DEFINE n == level
<1>1. n \in Levels /\ n + 1 \in Levels /\ n # n + 1
  BY DEF IInv, TasksOK, Levels
<1>2. log \in [Levels -> Gens \union {None}]
  BY DEF IInv, FilesOK
<1>3. CASE log' = log
  BY <1>3 DEF Files
<1>4. CASE log[n + 1] = None /\ log' = [log EXCEPT ![n + 1] = log[n], ![n] = None]
  <2>1. ASSUME NEW g \in Files(log) PROVE g \in Files(log')
    <3>1. PICK m \in Levels : g = log[m] /\ g # None
      BY <2>1 DEF Files
    <3>2. CASE m = n
      <4>1. log'[n + 1] = g
        BY <1>1, <1>2, <1>4, <3>1, <3>2
      <4>. QED  BY <1>1, <3>1, <4>1 DEF Files
    <3>3. CASE m # n
      <4>1. m # n + 1 /\ log'[m] = g
        BY <1>1, <1>2, <1>4, <3>1, <3>3
      <4>. QED  BY <3>1, <4>1 DEF Files
    <3>. QED  BY <3>2, <3>3
  <2>. QED  BY <2>1
<1>. QED  BY <1>3, <1>4 DEF RotateRename, Renames

LEMMA OldestIsLast ==
  ASSUME IInv, NEW g \in Files(log), g = log[Level]
  PROVE  \A h \in Files(log) : g <= h
<1>. SUFFICES ASSUME NEW h \in Files(log) PROVE g <= h
  OBVIOUS
<1>1. PICK m \in Levels : h = log[m] /\ h # None
  BY DEF Files
<1>2. Level \in Levels /\ g # None /\ g \in Nat /\ h \in Nat
  BY <1>1 DEF Levels, Files, IInv, FilesOK, Gens
<1>3. m = Level \/ m < Level
  BY DEF Levels
<1>. QED  BY <1>1, <1>2, <1>3 DEF IInv, FilesOK

LEMMA StepLoses ==
  ASSUME IInv, [Next]_vars, mutex = "logger", NEW g \in Lost
  PROVE  g = log[Level] /\ \A h \in Files(log) : g <= h
<1>0. TasksOK /\ Locked /\ FilesOK(log, bak, gen)
  BY DEF IInv
<1>1. CASE log' = log /\ bak' = bak
  BY <1>1 DEF Lost, Files
<1>2. CASE ShellTask
  BY <1>0, <1>2 DEF ShellTask, FilesLock, DeleteLog, DeleteBak, BackupLook, BackupMove,
                    Locked, ShellBusy
<1>3. CASE RotateRemove
  <2>1. level + 1 = Level /\ Level \in Levels /\ bak' = bak
    BY <1>0, <1>3 DEF Locked, RotateRemove, Levels
  <2>2. log' = [log EXCEPT ![Level] = None] \/ log' = log
    BY <1>3, <2>1 DEF RotateRemove, Remove
  <2>. SUFFICES ASSUME log' # log PROVE g = log[Level] /\ \A h \in Files(log) : g <= h
    BY <1>1, <2>1
  <2>3. log' = [log EXCEPT ![Level] = None]
    BY <2>2
  <2>4. g \in Files(log) /\ g \notin Files(log')
    BY <2>1 DEF Lost, Files
  <2>5. PICK m \in Levels : g = log[m] /\ g # None
    BY <2>4 DEF Files
  <2>6. m = Level
    <3>1. m # Level => log'[m] = g
      BY <1>0, <2>1, <2>3, <2>5 DEF FilesOK
    <3>. QED  BY <2>4, <2>5, <3>1 DEF Files
  <2>. QED  BY <2>4, <2>5, <2>6, OldestIsLast
<1>4. CASE RotateRename
  <2>1. Files(log) \subseteq Files(log') /\ bak' = bak
    BY <1>4, RenameKeepsFiles DEF RotateRename
  <2>. QED  BY <2>1 DEF Lost, Files
<1>5. CASE LoggerWrite /\ log' # log
  <2>1. log[0] = None /\ log' = [log EXCEPT ![0] = gen + 1] /\ bak' = bak
    BY <1>5 DEF LoggerWrite
  <2>2. Files(log) \subseteq Files(log')
    <3>1. ASSUME NEW m \in Levels, log[m] # None PROVE log'[m] = log[m]
      BY <1>0, <2>1, <3>1 DEF FilesOK
    <3>. QED  BY <3>1 DEF Files
  <2>. QED  BY <2>1, <2>2 DEF Lost, Files
<1>6. LoggerLock \/ RotateLook \/ PowerCycle \/ UNCHANGED vars => log' = log /\ bak' = bak
  BY DEF LoggerLock, RotateLook, PowerCycle, vars
<1>7. LoggerWrite => bak' = bak
  BY DEF LoggerWrite
<1>. QED  BY <1>1, <1>2, <1>3, <1>4, <1>5, <1>6, <1>7 DEF Next, LoggerTask

\* Rotation makes room by removing the oldest file from the last name, and a
\* file is lost to it in no other way, wherever a call of it fails or power
\* does.
THEOREM OnlyOldestEverLost == Spec => OnlyOldestLost
<1>1. IInv /\ [Next]_vars => LosesOldest
  BY StepLoses DEF LosesOldest
<1>. QED  BY <1>1, Invariance, PTL DEF Spec, OnlyOldestLost

-----------------------------------------------------------------------------
(* What a deletion that succeeds has deleted.                              *)

Clear(n) == log[n] \notin asked /\ (both => bak[n] \notin asked)

DeletionInv ==
  /\ asked \subseteq 1 .. gen
  /\ "size" \notin Faults /\ succ =>
       /\ spc \in {"delete", "deletebak"} => \A n \in Levels : n < i => Clear(n)
       /\ spc = "deletebak" => both /\ log[i] \notin asked
       /\ spc = "deleted" => \A n \in Levels : Clear(n)

LEMMA DeletionInit == Init => DeletionInv
BY DEF Init, DeletionInv

\* A step of the logger's makes no file that was asked for.
LEMMA LoggerDeletion ==
  ASSUME IInv, DeletionInv, LoggerTask
  PROVE  DeletionInv'
<1>0. TasksOK /\ Locked /\ FilesOK(log, bak, gen)
  BY DEF IInv
<1>1. UNCHANGED shellVars /\ bak' = bak
  BY DEF LoggerTask, LoggerLock, RotateLook, RotateRemove, RotateRename, LoggerWrite
<1>2. UNCHANGED <<spc, i, both, succ, asked>>
  BY <1>1 DEF shellVars
<1>3. None \notin asked /\ asked \subseteq 1 .. gen /\ gen \in Nat
  <2>1. None \notin asked
    BY <1>0, NoneIsNoFile DEF TasksOK
  <2>2. asked \subseteq 1 .. gen
    BY DEF DeletionInv
  <2>3. gen \in Nat
    BY <1>0 DEF FilesOK
  <2>. QED  BY <2>1, <2>2, <2>3
<1>4. ~ LoggerLock => spc \notin {"delete", "deletebak"}
  BY <1>0 DEF LoggerTask, LoggerLock, RotateLook, RotateRemove, RotateRename, LoggerWrite,
              Locked, ShellBusy
<1>5. CASE log' = log /\ gen' = gen
  BY <1>1, <1>2, <1>5 DEF DeletionInv, Clear
<1>6. ASSUME NEW n \in Levels, log'[n] \in asked, ~ LoggerLock
      PROVE  \E m \in Levels : log[m] \in asked
  <2>1. CASE RotateRemove
    <3>1. log'[n] = log[n] \/ log'[n] = None
      BY <1>0, <1>6, <2>1 DEF RotateRemove, Remove, FilesOK
    <3>. QED  BY <1>3, <1>6, <3>1
  <2>2. CASE RotateRename
    <3>1. level \in Levels /\ level + 1 \in Levels
      BY <1>0 DEF TasksOK, Levels
    <3>2. log'[n] = log[n] \/ log'[n] = None \/ log'[n] = log[level]
      BY <1>0, <2>2, <3>1 DEF RotateRename, Renames, FilesOK
    <3>. QED  BY <1>3, <1>6, <3>1, <3>2
  <2>3. CASE LoggerWrite
    <3>1. log'[n] = log[n] \/ log'[n] = gen + 1
      BY <1>0, <2>3 DEF LoggerWrite, FilesOK
    <3>2. gen + 1 \notin asked
      BY <1>3
    <3>. QED  BY <1>6, <3>1, <3>2
  <2>4. RotateLook => log' = log
    BY DEF RotateLook
  <2>. QED  BY <1>6, <2>1, <2>2, <2>3, <2>4 DEF LoggerTask
<1>7. CASE ~ LoggerLock
  <2>0. gen' = gen \/ gen' = gen + 1
    BY DEF LoggerTask, LoggerLock, RotateLook, RotateRemove, RotateRename, LoggerWrite
  <2>1. asked' \subseteq 1 .. gen'
    BY <1>2, <1>3, <2>0
  <2>2. ASSUME "size" \notin Faults, succ, spc = "deleted", NEW n \in Levels
        PROVE  Clear(n)'
    BY <1>1, <1>2, <1>6, <1>7, <2>2 DEF DeletionInv, Clear
  <2>. QED  BY <1>2, <1>4, <1>7, <2>1, <2>2 DEF DeletionInv
<1>8. CASE LoggerLock
  BY <1>5, <1>8 DEF LoggerLock
<1>. QED  BY <1>7, <1>8

LEMMA ShellDeletion ==
  ASSUME IInv, DeletionInv, ShellTask
  PROVE  DeletionInv'
<1>0. /\ TasksOK /\ Locked /\ FilesOK(log, bak, gen) /\ i \in Levels
      /\ log \in [Levels -> Gens \union {None}] /\ bak \in [Levels -> Gens \union {None}]
  BY DEF IInv, TasksOK, FilesOK
<1>1. None \notin asked /\ asked \subseteq 1 .. gen /\ gen' = gen
  <2>1. None \notin asked
    BY <1>0, NoneIsNoFile DEF TasksOK
  <2>3. asked \subseteq 1 .. gen
    BY DEF DeletionInv
  <2>2. gen' = gen
    BY DEF ShellTask, FilesLock, DeleteLog, DeleteBak, BackupLook, BackupMove
  <2>. QED  BY <2>1, <2>2, <2>3
<1>2. CASE FilesLock
  <2>1. Files(log) \union Files(bak) \subseteq 1 .. gen
    <3>1. ASSUME NEW n \in Levels, NEW x \in {log[n], bak[n]}, x # None PROVE x \in 1 .. gen
      BY <1>0, <3>1 DEF FilesOK, Gens
    <3>. QED  BY <3>1 DEF Files
  <2>2. asked' \subseteq 1 .. gen'
    BY <1>1, <1>2, <2>1 DEF FilesLock
  <2>3. i' = 0 /\ spc' \in {"delete", "backup"}
    BY <1>2 DEF FilesLock
  <2>4. \A n \in Levels : ~ (n < 0)
    BY DEF Levels
  <2>. QED  BY <2>2, <2>3, <2>4 DEF DeletionInv
<1>3. ASSUME FilesNext("delete", "deleted"), asked' = asked,
             \A n \in Levels : n < i \/ n = i => Clear(n)'
      PROVE  DeletionInv'
  <2>1. asked' \subseteq 1 .. gen'
    BY <1>1, <1>3
  <2>2. CASE i < Level
    <3>1. spc' = "delete" /\ i' = i + 1
      BY <1>3, <2>2 DEF FilesNext
    <3>2. \A n \in Levels : n < i' => n < i \/ n = i
      BY <1>0, <3>1 DEF Levels
    <3>. QED  BY <1>3, <2>1, <3>1, <3>2 DEF DeletionInv
  <2>3. CASE ~ (i < Level)
    <3>1. spc' = "deleted"
      BY <1>3, <2>3 DEF FilesNext, FilesEnd
    <3>2. \A n \in Levels : n < i \/ n = i
      BY <1>0, <2>3 DEF Levels
    <3>. QED  BY <1>3, <2>1, <3>1, <3>2 DEF DeletionInv
  <2>. QED  BY <2>2, <2>3
<1>4. CASE DeleteLog
  <2>1. PICK gone \in BOOLEAN : Removed(log, i, log', gone) /\ succ' = (succ /\ gone)
    BY <1>4 DEF DeleteLog
  <2>2. /\ spc = "delete" /\ asked' = asked /\ both' = both /\ bak' = bak
        /\ IF both THEN spc' = "deletebak" /\ UNCHANGED <<i, mutex>>
                   ELSE FilesNext("delete", "deleted")
    BY <1>4 DEF DeleteLog
  <2>3. CASE "size" \in Faults \/ ~ succ'
    BY <1>1, <2>2, <2>3 DEF DeletionInv
  <2>4. CASE "size" \notin Faults /\ succ'
    <3>1. succ /\ Removed(log, i, log', TRUE)
      BY <1>0, <2>1, <2>4 DEF TasksOK
    <3>0. log'[i] = None /\ \A n \in Levels : n # i => log'[n] = log[n]
      BY <1>0, <2>4, <3>1 DEF Removed, Remove, Seen
    <3>2. log'[i] \notin asked /\ \A n \in Levels : n # i => log'[n] = log[n]
      BY <1>1, <3>0
    <3>3. \A n \in Levels : n < i => log'[n] \notin asked /\ (both => bak[n] \notin asked)
      BY <1>0, <2>2, <2>4, <3>1, <3>2 DEF DeletionInv, Clear, Levels
    <3>4. CASE both
      BY <1>1, <2>2, <3>2, <3>3, <3>4 DEF DeletionInv, Clear
    <3>5. CASE ~ both
      <4>1. \A n \in Levels : n < i \/ n = i => Clear(n)'
        BY <2>2, <3>2, <3>3, <3>5 DEF Clear
      <4>. QED  BY <1>3, <2>2, <3>5, <4>1
    <3>. QED  BY <3>4, <3>5
  <2>. QED  BY <2>3, <2>4
<1>5. CASE DeleteBak
  <2>1. PICK gone \in BOOLEAN : Removed(bak, i, bak', gone) /\ succ' = (succ /\ gone)
    BY <1>5 DEF DeleteBak
  <2>2. /\ spc = "deletebak" /\ asked' = asked /\ both' = both /\ log' = log
        /\ FilesNext("delete", "deleted")
    BY <1>5 DEF DeleteBak
  <2>3. CASE "size" \in Faults \/ ~ succ'
    BY <1>1, <2>2, <2>3 DEF DeletionInv
  <2>4. CASE "size" \notin Faults /\ succ'
    <3>1. succ /\ Removed(bak, i, bak', TRUE)
      BY <1>0, <2>1, <2>4 DEF TasksOK
    <3>0. bak'[i] = None /\ \A n \in Levels : n # i => bak'[n] = bak[n]
      BY <1>0, <2>4, <3>1 DEF Removed, Remove, Seen
    <3>2. bak'[i] \notin asked /\ \A n \in Levels : n # i => bak'[n] = bak[n]
      BY <1>1, <3>0
    <3>3. \A n \in Levels : n < i \/ n = i => log[n] \notin asked
      BY <1>0, <2>2, <2>4, <3>1 DEF DeletionInv, Clear
    <3>4. \A n \in Levels : n < i => (both => bak[n] \notin asked)
      BY <1>0, <2>2, <2>4, <3>1 DEF DeletionInv, Clear
    <3>5. \A n \in Levels : n < i \/ n = i => Clear(n)'
      BY <1>0, <2>2, <3>2, <3>3, <3>4 DEF Clear, Levels
    <3>. QED  BY <1>3, <2>2, <3>5
  <2>. QED  BY <2>3, <2>4
<1>6. CASE BackupLook \/ BackupMove
  <2>1. spc' \in {"backup", "backupmove", "saved"} /\ asked' = asked
    BY <1>6 DEF BackupLook, BackupMove, FilesNext, FilesEnd
  <2>. QED  BY <1>1, <2>1 DEF DeletionInv
<1>. QED  BY <1>2, <1>4, <1>5, <1>6 DEF ShellTask

LEMMA DeletionNext == IInv /\ DeletionInv /\ [Next]_vars => DeletionInv'
<1>1. ASSUME IInv, DeletionInv, PowerCycle PROVE DeletionInv'
  BY <1>1 DEF PowerCycle, DeletionInv
<1>2. ASSUME DeletionInv, UNCHANGED vars PROVE DeletionInv'
  BY <1>2 DEF vars, DeletionInv, Clear
<1>. QED  BY <1>1, <1>2, LoggerDeletion, ShellDeletion DEF Next

\* A deletion that says it succeeded has deleted every file it was asked to,
\* also if an earlier file of its loop could not be removed.
THEOREM DeletionAlwaysTold == Spec => []DeletionTold
<1>1. IInv /\ DeletionInv => DeletionTold
  <2>. SUFFICES ASSUME IInv, DeletionInv, spc = "deleted", succ, "size" \notin Faults
                PROVE  asked \intersect (Files(log) \union IF both THEN Files(bak) ELSE {}) = {}
    BY DEF DeletionTold
  <2>1. \A n \in Levels : Clear(n)
    BY DEF DeletionInv
  <2>. QED  BY <2>1 DEF Clear, Files
<1>. QED  BY <1>1, DeletionInit, DeletionNext, Invariance, PTL DEF Spec
=============================================================================
