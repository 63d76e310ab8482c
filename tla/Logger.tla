------------------------------- MODULE Logger -------------------------------
(***************************************************************************)
(* The logging service (mcush/service/task_logger.c): tasks and interrupts *)
(* queue events, the logger task writes them to the log file and forwards  *)
(* them to the shell when it monitors, the shell command "log" switches    *)
(* writing on and off, monitors, and handles the log files under the       *)
(* logger's mutex.                                                         *)
(*                                                                         *)
(* An event is the block its text lies in, or Const for a text in ROM; who *)
(* holds the event frees the block.  A line adds 1 to the size of the log  *)
(* file; the older files and their renaming are LogFiles'.  Each step of a *)
(* task touches what others share (queues, _enable, _monitoring, mutex)    *)
(* once.                                                                   *)
(***************************************************************************)
EXTENDS Naturals, Integers, Sequences

CONSTANTS
  Producers,    (* tasks that log                                          *)
  Bufs,         (* heap blocks for texts                                   *)
  Const,        (* a text in ROM (LOG_FLAG_CONST)                          *)
  None,
  QLen,         (* TASK_LOGGER_QUEUE_SIZE                                  *)
  MLen,         (* TASK_LOGGER_MONITOR_QUEUE_SIZE                          *)
  Limit,        (* LOGGER_FSIZE_LIMIT                                      *)
  MaxSize,      (* bound: the room the log file can ever take              *)
  Faults        (* subset of BOOLEAN: may the file system fail             *)

ASSUME LoggerAssumption ==
  /\ Const \notin Bufs
  /\ None \notin Bufs \union {Const, "logger", "shell"}
  /\ QLen \in Nat \ {0}
  /\ MLen \in Nat \ {0}
  /\ Limit \in Nat
  /\ MaxSize \in Nat /\ MaxSize > Limit + 2
  /\ Faults \subseteq BOOLEAN /\ Faults # {}

Events == Bufs \union {Const}

VARIABLES
  enable, monitoring, busy,    (* _enable, _monitoring, _busy               *)
  heap,         (* blocks allocated for texts                              *)
  queue,        (* queue_logger                                            *)
  mqueue,       (* queue_logger_monitor                                    *)
  mutex,        (* holder of mutex_logger: None, "logger" or "shell"       *)
  hand,         (* per producer: the block it filled and has not queued    *)
  lpc, levt,    (* the logger task: where it is, its evt                   *)
  lthen,        (* where it goes on after post_process_event               *)
  size,         (* its count of the log file's size, -1: not known         *)
  fsize,        (* the size of the log file, 0 when there is none          *)
  spc, sevt,    (* the shell task: where it is, its evt                    *)
  faulty,       (* whether the file system may fail in this behaviour      *)
  late          (* history: lines written since writing was disabled       *)

flags == <<enable, monitoring, busy>>
loggerVars == <<lpc, levt, lthen, size>>
shellVars == <<spc, sevt>>
vars == <<enable, monitoring, busy, heap, queue, mqueue, mutex, hand, lpc,
          levt, lthen, size, fsize, spc, sevt, faulty, late>>

Init ==
  /\ enable = TRUE /\ monitoring = FALSE /\ busy = FALSE
  /\ heap = {} /\ queue = <<>> /\ mqueue = <<>> /\ mutex = None
  /\ hand = [p \in Producers |-> None]
  /\ lpc = "idle" /\ levt = None /\ lthen = "idle" /\ size = -1
  /\ fsize \in 0 .. Limit
  /\ spc = "prompt" /\ sevt = None
  /\ faulty \in Faults
  /\ late = 0

\* Power fails and comes back: the log file is all that stays.
Reset ==
  /\ enable' = TRUE /\ monitoring' = FALSE /\ busy' = FALSE
  /\ heap' = {} /\ queue' = <<>> /\ mqueue' = <<>> /\ mutex' = None
  /\ hand' = [p \in Producers |-> None]
  /\ lpc' = "idle" /\ levt' = None /\ lthen' = "idle" /\ size' = -1
  /\ spc' = "prompt" /\ sevt' = None
  /\ late' = 0
  /\ UNCHANGED <<fsize, faulty>>

-----------------------------------------------------------------------------
(* _logger_module_str: a text is copied to the heap, then queued without   *)
(* waiting; a full queue drops it.                                         *)

Copy(p) ==
  /\ hand[p] = None
  /\ \E b \in Bufs \ heap :
       /\ heap' = heap \union {b}
       /\ hand' = [hand EXCEPT ![p] = b]
  /\ UNCHANGED <<flags, queue, mqueue, mutex, loggerVars, fsize, shellVars, faulty, late>>

Put_Bug(p) ==
  /\ hand[p] # None
  /\ hand' = [hand EXCEPT ![p] = None]
  /\ queue' = IF Len(queue) <= QLen THEN Append(queue, hand[p]) ELSE queue
  /\ heap' = IF Len(queue) <= QLen THEN heap ELSE heap \ {hand[p]}
  /\ UNCHANGED <<flags, mqueue, mutex, loggerVars, fsize, shellVars, faulty, late>>

Put(p) ==
  /\ hand[p] # None
  /\ hand' = [hand EXCEPT ![p] = None]
  /\ IF Len(queue) < QLen
       THEN queue' = Append(queue, hand[p]) /\ UNCHANGED heap
       ELSE heap' = heap \ {hand[p]} /\ UNCHANGED queue
  /\ UNCHANGED <<flags, mqueue, mutex, loggerVars, fsize, shellVars, faulty, late>>

\* A call of a task: logger_module_str, logger_printf and the others.
Log(p) == Copy(p) \/ Put(p)

\* A text in ROM, from a task or an interrupt.
PutConst ==
  /\ Len(queue) < QLen
  /\ queue' = Append(queue, Const)
  /\ UNCHANGED <<flags, heap, mqueue, mutex, hand, loggerVars, fsize, shellVars,
                 faulty, late>>

\* logger_enable, logger_disable, or the command's -e and -d.
SwitchEnable ==
  /\ enable' = ~ enable
  /\ late' = 0
  /\ UNCHANGED <<monitoring, busy, heap, queue, mqueue, mutex, hand, loggerVars,
                 fsize, shellVars, faulty>>

-----------------------------------------------------------------------------
(* The logger task, task_logger_entry.                                     *)

LoggerAt(from, to) == lpc = from /\ lpc' = to

\* Takes the next event from the queue.
Get(from, to) ==
  /\ LoggerAt(from, to)
  /\ queue # <<>>
  /\ levt' = Head(queue)
  /\ queue' = Tail(queue)
  /\ UNCHANGED <<flags, heap, mqueue, mutex, hand, lthen, size, fsize, shellVars,
                 faulty, late>>

\* post_process_event, then on to where lthen says; it looks at _monitoring
\* first and acts on it later.
Post(then) == lpc' = "post" /\ lthen' = then

PostLook ==
  /\ lpc = "post"
  /\ monitoring
  /\ lpc' = "forward"
  /\ UNCHANGED <<flags, heap, queue, mqueue, mutex, hand, levt, lthen, size, fsize,
                 shellVars, faulty, late>>

PostFree ==
  /\ lpc = "post"
  /\ ~ monitoring
  /\ lpc' = lthen /\ lthen' = "idle"
  /\ heap' = heap \ {levt}
  /\ levt' = None
  /\ UNCHANGED <<flags, queue, mqueue, mutex, hand, size, fsize, shellVars,
                 faulty, late>>

PostForward_Bug ==
  /\ lpc = "forward"
  /\ lpc' = lthen /\ lthen' = "idle"
  /\ levt' = None
  /\ mqueue' = IF Len(mqueue) < MLen THEN Append(mqueue, levt) ELSE mqueue
  /\ UNCHANGED <<flags, heap, queue, mutex, hand, size, fsize, shellVars,
                 faulty, late>>                   \* not freed when it is full

PostForward ==
  /\ lpc = "forward"
  /\ lpc' = lthen /\ lthen' = "idle"
  /\ levt' = None
  /\ IF Len(mqueue) < MLen
       THEN mqueue' = Append(mqueue, levt) /\ UNCHANGED heap
       ELSE heap' = heap \ {levt} /\ UNCHANGED mqueue
  /\ UNCHANGED <<flags, queue, mutex, hand, size, fsize, shellVars, faulty, late>>

\* A first event: written only if writing is enabled.
Check ==
  /\ lpc = "check"
  /\ IF enable
       THEN lpc' = "lock" /\ busy' = TRUE /\ UNCHANGED lthen
       ELSE Post("idle") /\ UNCHANGED busy
  /\ UNCHANGED <<enable, monitoring, heap, queue, mqueue, mutex, hand, levt, size,
                 fsize, shellVars, faulty, late>>

Lock ==
  /\ LoggerAt("lock", "size")
  /\ mutex = None
  /\ mutex' = "logger"
  /\ UNCHANGED <<flags, heap, queue, mqueue, hand, levt, lthen, size, fsize,
                 shellVars, faulty, late>>

\* The size is asked for once; a file over the limit is rotated away, after
\* which the size is not known, whether the renaming worked or not.
CheckSize ==
  /\ LoggerAt("size", "recheck")
  /\ \E s \in IF size >= 0 THEN {size} ELSE IF faulty THEN {0, fsize} ELSE {fsize} :
       IF s > Limit
         THEN /\ size' = -1
              /\ \/ fsize' = 0
                 \/ faulty /\ UNCHANGED fsize
         ELSE size' = s /\ UNCHANGED fsize
  /\ UNCHANGED <<flags, heap, queue, mqueue, mutex, hand, levt, lthen, shellVars,
                 faulty, late>>

Recheck_Bug ==
  /\ lpc = "recheck"
  /\ IF enable THEN lpc' = "open" /\ UNCHANGED lthen
               ELSE Post("idle")                  \* keeps the mutex
  /\ UNCHANGED <<flags, heap, queue, mqueue, mutex, hand, levt, size, fsize,
                 shellVars, faulty, late>>

\* Disabled meanwhile: the log is let go (and _busy stays set).
Recheck ==
  /\ lpc = "recheck"
  /\ IF enable THEN lpc' = "open" /\ UNCHANGED <<lthen, mutex>>
               ELSE Post("idle") /\ mutex' = None
  /\ UNCHANGED <<flags, heap, queue, mqueue, hand, levt, size, fsize, shellVars,
                 faulty, late>>

\* A log that does not open drops the event and all that wait.
Open ==
  /\ lpc = "open"
  /\ \/ Post("first")
     \/ faulty /\ Post("drop")
  /\ UNCHANGED <<flags, heap, queue, mqueue, mutex, hand, levt, size, fsize,
                 shellVars, faulty, late>>

\* One line to the file: written, or not for want of room or by a fault.
WriteLine ==
  LET known == IF size < 0 THEN 0 ELSE size IN
  /\ \/ /\ fsize < MaxSize
        /\ fsize' = fsize + 1
        /\ size' = known + 1
        /\ late' = IF enable \/ late > 1 THEN late ELSE late + 1
     \/ /\ faulty \/ fsize = MaxSize
        /\ size' = known
        /\ UNCHANGED <<fsize, late>>
  /\ UNCHANGED <<flags, heap, queue, mqueue, mutex, hand, levt, lthen, shellVars, faulty>>

WriteFirst ==
  /\ LoggerAt("first", "more")
  /\ WriteLine

\* The file stays open for more events, until one comes too late or the
\* file is over the limit.
WriteMore_Bug ==
  /\ LoggerAt("next", "more")                     \* the limit is not looked at
  /\ WriteLine

WriteMore ==
  /\ lpc = "next"
  /\ WriteLine
  /\ lpc' = IF size' > Limit THEN "close" ELSE "more"

\* No event for TASK_LOGGER_LAZY_CLOSE_MS.
LazyTimeout ==
  /\ LoggerAt("more", "close")
  /\ queue = <<>>
  /\ UNCHANGED <<flags, heap, queue, mqueue, mutex, hand, levt, lthen, size, fsize,
                 shellVars, faulty, late>>

CheckMore_Bug ==
  /\ lpc = "check2"
  /\ Post("next")
  /\ UNCHANGED <<flags, heap, queue, mqueue, mutex, hand, levt, size, fsize,
                 shellVars, faulty, late>>

CheckMore ==
  /\ lpc = "check2"
  /\ IF enable THEN Post("next") ELSE Post("close")
  /\ UNCHANGED <<flags, heap, queue, mqueue, mutex, hand, levt, size, fsize,
                 shellVars, faulty, late>>

\* After the last line, or when nothing is left to drop.
Unlock ==
  /\ \/ lpc = "close"
     \/ lpc = "drop" /\ queue = <<>>
  /\ lpc' = "idle"
  /\ mutex' = None
  /\ busy' = FALSE
  /\ UNCHANGED <<enable, monitoring, heap, queue, mqueue, hand, levt, lthen, size,
                 fsize, shellVars, faulty, late>>

\* While dropping, the next event is only forwarded or freed.
DropNext ==
  /\ lpc = "drop"
  /\ queue # <<>>
  /\ levt' = Head(queue)
  /\ queue' = Tail(queue)
  /\ Post("drop")
  /\ UNCHANGED <<flags, heap, mqueue, mutex, hand, size, fsize, shellVars, faulty, late>>

LoggerTask ==
  \/ Get("idle", "check") \/ Check \/ CheckSize \/ Recheck \/ Open
  \/ PostLook \/ PostFree \/ PostForward
  \/ WriteFirst \/ Get("more", "check2") \/ CheckMore \/ WriteMore \/ LazyTimeout
  \/ DropNext \/ Unlock

-----------------------------------------------------------------------------
(* The shell's command, cmd_logger.                                        *)

ShellAt(from, to) ==
  /\ spc = from /\ spc' = to
  /\ UNCHANGED <<enable, busy, queue, hand, loggerVars, faulty, late>>

\* delete_all_log_files and backup_all_log_files wait for the logger.
FilesAsk ==
  /\ ShellAt("prompt", "lockfiles")
  /\ UNCHANGED <<monitoring, heap, mqueue, mutex, fsize, sevt>>

FilesLock ==
  /\ ShellAt("lockfiles", "files")
  /\ mutex = None
  /\ mutex' = "shell"
  /\ UNCHANGED <<monitoring, heap, mqueue, fsize, sevt>>

\* The log file is removed or renamed, unless that fails.
FilesDone ==
  /\ ShellAt("files", "prompt")
  /\ \/ fsize' = 0
     \/ faulty /\ UNCHANGED fsize
  /\ mutex' = None
  /\ UNCHANGED <<monitoring, heap, mqueue, sevt>>

\* log -t waits for 1000 ms at most.
TailAsk ==
  /\ ShellAt("prompt", "locktail")
  /\ UNCHANGED <<monitoring, heap, mqueue, mutex, fsize, sevt>>

TailLock ==
  /\ ShellAt("locktail", "tail")
  /\ mutex = None
  /\ mutex' = "shell"
  /\ UNCHANGED <<monitoring, heap, mqueue, fsize, sevt>>

TailTimeout ==
  /\ ShellAt("locktail", "prompt")
  /\ mutex # None
  /\ UNCHANGED <<monitoring, heap, mqueue, mutex, fsize, sevt>>

TailDone_Bug ==
  /\ ShellAt("tail", "prompt")
  /\ mutex' = IF fsize = 0 THEN mutex ELSE None   \* kept if there is no file
  /\ UNCHANGED <<monitoring, heap, mqueue, fsize, sevt>>

TailDone ==
  /\ ShellAt("tail", "prompt")
  /\ mutex' = None
  /\ UNCHANGED <<monitoring, heap, mqueue, fsize, sevt>>

MonitorStart ==
  /\ ShellAt("prompt", "monitor")
  /\ monitoring' = TRUE
  /\ UNCHANGED <<heap, mqueue, mutex, fsize, sevt>>

MonitorGet ==
  /\ ShellAt("monitor", "print")
  /\ mqueue # <<>>
  /\ sevt' = Head(mqueue)
  /\ mqueue' = Tail(mqueue)
  /\ UNCHANGED <<monitoring, heap, mutex, fsize>>

\* Printed if it passes the filters, freed in any case.
MonitorPrint ==
  /\ ShellAt("print", "monitor")
  /\ heap' = heap \ {sevt}
  /\ sevt' = None
  /\ UNCHANGED <<monitoring, mqueue, mutex, fsize>>

\* Ctrl-C.
MonitorStop ==
  /\ ShellAt("monitor", "drain")
  /\ monitoring' = FALSE
  /\ UNCHANGED <<heap, mqueue, mutex, fsize, sevt>>

MonitorDrain ==
  /\ ShellAt("drain", "drain")
  /\ mqueue # <<>>
  /\ heap' = heap \ {Head(mqueue)}
  /\ mqueue' = Tail(mqueue)
  /\ UNCHANGED <<monitoring, mutex, fsize, sevt>>

MonitorEnd ==
  /\ ShellAt("drain", "prompt")
  /\ mqueue = <<>>
  /\ UNCHANGED <<monitoring, heap, mqueue, mutex, fsize, sevt>>

ShellTask ==
  \/ FilesAsk \/ FilesLock \/ FilesDone
  \/ TailAsk \/ TailLock \/ TailTimeout \/ TailDone
  \/ MonitorStart \/ MonitorGet \/ MonitorPrint \/ MonitorStop
  \/ MonitorDrain \/ MonitorEnd

-----------------------------------------------------------------------------
Next ==
  \/ \E p \in Producers : Log(p)
  \/ PutConst
  \/ SwitchEnable
  \/ LoggerTask \/ Lock
  \/ ShellTask
  \/ Reset

\* The logger task runs when nothing else does, and others do wait.  A mutex
\* let go goes to who waits for it, since the other waits for a key or an
\* event before it asks again.
Fairness ==
  /\ WF_vars(LoggerTask)
  /\ SF_vars(Lock)
  /\ SF_vars(FilesLock)
  /\ WF_vars(FilesDone \/ TailDone)

Spec == Init /\ [][Next]_vars /\ Fairness

-----------------------------------------------------------------------------
LoggerLabels == {"idle", "check", "lock", "size", "recheck", "open", "post", "forward",
                 "first", "more", "check2", "next", "close", "drop"}

TypeOK ==
  /\ enable \in BOOLEAN /\ monitoring \in BOOLEAN /\ busy \in BOOLEAN
  /\ heap \subseteq Bufs
  /\ queue \in Seq(Events) /\ Len(queue) <= QLen
  /\ mqueue \in Seq(Events) /\ Len(mqueue) <= MLen
  /\ mutex \in {None, "logger", "shell"}
  /\ hand \in [Producers -> Bufs \union {None}]
  /\ lpc \in LoggerLabels
  /\ lthen \in {"idle", "first", "next", "close", "drop"}
  /\ levt \in Events \union {None}
  /\ size \in -1 .. MaxSize /\ fsize \in 0 .. MaxSize
  /\ spc \in {"prompt", "lockfiles", "files", "locktail", "tail", "monitor",
              "print", "drain"}
  /\ sevt \in Events \union {None}
  /\ faulty \in BOOLEAN
  /\ late \in 0 .. 2

\* The places that refer to a block.
Holders(b) ==
  {<<"queue", i>> : i \in {i \in DOMAIN queue : queue[i] = b}} \union
  {<<"mqueue", i>> : i \in {i \in DOMAIN mqueue : mqueue[i] = b}} \union
  {<<"hand", p>> : p \in {p \in Producers : hand[p] = b}} \union
  {<<"logger", 0>> : e \in {levt} \intersect {b}} \union
  {<<"shell", 0>> : e \in {sevt} \intersect {b}}

\* Every text is owned by one place as long as its block is allocated: none
\* is lost, none is freed twice or used after it was freed, whether it was
\* queued or dropped, written or not, forwarded or not
\* (task_logger.c:145-149, 536-553, 979-984).
BuffersOwned ==
  \A b \in Bufs :
    IF b \in heap THEN \E h \in Holders(b) : Holders(b) = {h}
                  ELSE Holders(b) = {}

\* Where the logger task has the log files for itself.
InLog ==
  \/ lpc \in {"size", "recheck", "open", "first", "more", "check2", "next", "close", "drop"}
  \/ lpc \in {"post", "forward"} /\ lthen # "idle"

\* Logger and shell never handle the log files at the same time, the mutex is
\* given back on every path, and logger_is_busy is true while files are open
\* (task_logger.c:581-658).
LogExclusive ==
  /\ mutex = "logger" <=> InLog
  /\ mutex = "shell" <=> spc \in {"files", "tail"}
  /\ InLog => busy

\* The log file stays below its limit plus the two lines that are written
\* before the limit is looked at, also when the shell deleted it meanwhile, as
\* long as the file system does not fail ("maximium log file size",
\* task_logger.h:23).
FileBounded == ~ faulty => fsize <= Limit + 2

\* Disabling stops the writing within one line, wherever the logger task is
\* (task_logger.c:601-607, 626-630).
DisableBinds == late <= 1

\* When the monitor command is over it has freed "all remaining event"
\* (task_logger.c:979).
MonitorLeavesNothing == spc = "prompt" => mqueue = <<>>

\* A full queue takes events again: the logger task is never stuck for good,
\* neither on a mutex nor on a file that fails.
QueueDrains == (Len(queue) = QLen) ~> (Len(queue) < QLen)

\* Deleting or saving the log files gets its turn although events keep coming
\* to a logger that keeps the file open for them - if lines can be written:
\* the only other end of that loop is a pause of 200 ms.
FilesGetTurn == (~ faulty /\ spc = "lockfiles") ~> (spc # "lockfiles")
=============================================================================
