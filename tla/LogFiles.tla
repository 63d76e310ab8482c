------------------------------ MODULE LogFiles ------------------------------
(***************************************************************************)
(* The files of the log: logger, logger.1 .. logger.N and their .bak       *)
(* copies.  The logger task rotates and extends them, the shell deletes    *)
(* and saves them, both under mutex_logger (task_logger.c); any call of    *)
(* the file system may fail and power may fail between any two.            *)
(*                                                                         *)
(* A file is the number it was created with, so a greater number is a      *)
(* younger file.  What it holds and when it is over its limit are Logger's *)
(* (there: fsize, size); here that is open whenever the size is read.      *)
(***************************************************************************)
EXTENDS Naturals, FiniteSets

CONSTANTS
  Level,        (* LOGGER_ROTATE_LEVEL                                     *)
  MaxGen,       (* bound: files ever created                               *)
  Faults,       (* calls that may fail: subset of "size","remove","rename" *)
  None

ASSUME LogFilesAssumption ==
  /\ Level \in Nat \ {0}
  /\ MaxGen \in Nat
  /\ Faults \subseteq {"size", "remove", "rename"}
  /\ None \notin Nat \union {"logger", "shell"}

Levels == 0 .. Level
Gens == 1 .. MaxGen

VARIABLES
  log,          (* logger, logger.1 ..: the file with that name, or None   *)
  bak,          (* the same with .bak                                      *)
  gen,          (* files created so far                                    *)
  mutex,        (* mutex_logger                                            *)
  lpc, level,   (* logger task: where it is, level of rotate_log_files     *)
  size,         (* its count: "unknown" (-1), "small", "big" (> limit)     *)
  spc, i,       (* shell: where it is, its loop counter                    *)
  both,         (* delete_backup                                           *)
  succ,         (* succ of the shell's call                                *)
  asked,        (* history: files there when the shell's call began        *)
  passed        (* history: .bak files a saving failed to remove           *)

loggerVars == <<lpc, level, size>>
shellVars == <<spc, i, both, succ, asked, passed>>
vars == <<log, bak, gen, mutex, lpc, level, size, spc, i, both, succ, asked,
          passed>>

Files(f) == {f[n] : n \in Levels} \ {None}

Init ==
  /\ log = [n \in Levels |-> None]
  /\ bak = [n \in Levels |-> None]
  /\ gen = 0
  /\ mutex = None
  /\ lpc = "idle" /\ level = 0 /\ size = "unknown"
  /\ spc = "idle" /\ i = 0 /\ both = FALSE /\ succ = TRUE /\ asked = {}
  /\ passed = {}

\* Power fails and the tasks start anew; the files stay as they are.
PowerCycle ==
  /\ mutex' = None
  /\ lpc' = "idle" /\ level' = 0 /\ size' = "unknown"
  /\ spc' = "idle" /\ i' = 0 /\ both' = FALSE /\ succ' = TRUE /\ asked' = {}
  /\ UNCHANGED <<log, bak, gen, passed>>

-----------------------------------------------------------------------------
(* The file system.  SPIFFS does not rename to a name that is taken.       *)

\* mcush_size and mcush_file_exists: what they say of a file.
Seen(file) == IF file = None THEN {FALSE}
              ELSE {TRUE} \union (IF "size" \in Faults THEN {FALSE} ELSE {})

Remove(f, n, g) == \/ g = [f EXCEPT ![n] = None]
                   \/ g = f /\ ("remove" \in Faults \/ f[n] = None)

Renames(from, to) == from # None /\ to = None

-----------------------------------------------------------------------------
(* The logger task.                                                        *)

\* The log is to be written: rotated first if it is over the limit.
LoggerLock ==
  /\ lpc = "idle"
  /\ mutex = None
  /\ mutex' = "logger"
  /\ \E s \in IF size # "unknown" THEN {size}
              ELSE {"small"} \union (IF TRUE \in Seen(log[0]) THEN {"big"} ELSE {}) :
       \/ s = "big" /\ lpc' = "look" /\ size' = "unknown"
       \/ s # "big" /\ lpc' = "open" /\ size' = s
  /\ level' = 0
  /\ UNCHANGED <<log, bak, gen, shellVars>>

\* rotate_log_files goes down the levels while the next file is there, and
\* makes room at the last.
RotateLook_Bug ==
  /\ lpc = "look"
  /\ \E there \in Seen(log[level + 1]) :
       \/ there /\ lpc' = "remove" /\ UNCHANGED level    \* one level only
       \/ ~ there /\ lpc' = "rename" /\ UNCHANGED level
  /\ UNCHANGED <<log, bak, gen, mutex, size, shellVars>>

RotateLook ==
  /\ lpc = "look"
  /\ \E there \in Seen(log[level + 1]) :
       \/ there /\ level + 1 >= Level /\ lpc' = "remove" /\ UNCHANGED level
       \/ there /\ level + 1 < Level /\ level' = level + 1 /\ UNCHANGED lpc
       \/ ~ there /\ lpc' = "rename" /\ UNCHANGED level
  /\ UNCHANGED <<log, bak, gen, mutex, size, shellVars>>

RotateRemove ==
  /\ lpc = "remove"
  /\ lpc' = "rename"
  /\ Remove(log, level + 1, log')
  /\ UNCHANGED <<bak, gen, mutex, level, size, shellVars>>

\* Back up the levels: each file takes the name of the next older one.
RotateRename_Bug ==
  /\ lpc = "rename"
  /\ \/ log' = [log EXCEPT ![level + 1] = log[0], ![0] = None]   \* always logger
     \/ UNCHANGED log /\ "rename" \in Faults
  /\ IF level = 0 THEN lpc' = "open" /\ UNCHANGED level
                  ELSE level' = level - 1 /\ UNCHANGED lpc
  /\ UNCHANGED <<bak, gen, mutex, size, shellVars>>

RotateRename ==
  /\ lpc = "rename"
  /\ \/ /\ Renames(log[level], log[level + 1])
        /\ log' = [log EXCEPT ![level + 1] = log[level], ![level] = None]
     \/ /\ "rename" \in Faults \/ ~ Renames(log[level], log[level + 1])
        /\ UNCHANGED log
  /\ IF level = 0 THEN lpc' = "open" /\ UNCHANGED level
                  ELSE level' = level - 1 /\ UNCHANGED lpc
  /\ UNCHANGED <<bak, gen, mutex, size, shellVars>>

\* Lines are appended to the log file, made if there is none; or, disabled
\* meanwhile or with a file that does not open, they are not.
LoggerWrite ==
  /\ lpc = "open"
  /\ \/ /\ log[0] # None
        /\ UNCHANGED <<log, gen>>
        /\ size' \in {"small", "big"}
     \/ /\ log[0] = None /\ gen < MaxGen
        /\ gen' = gen + 1
        /\ log' = [log EXCEPT ![0] = gen + 1]
        /\ size' \in {"small", "big"}
     \/ UNCHANGED <<log, gen, size>>
  /\ lpc' = "idle"
  /\ mutex' = None
  /\ UNCHANGED <<bak, level, shellVars>>

LoggerTask == LoggerLock \/ RotateLook \/ RotateRemove \/ RotateRename \/ LoggerWrite

-----------------------------------------------------------------------------
(* The shell: delete_all_log_files, backup_all_log_files.                  *)

FilesLock ==
  /\ spc \in {"idle", "deleted", "saved"}
  /\ mutex = None
  /\ mutex' = "shell"
  /\ spc' \in {"delete", "backup"}
  /\ both' \in BOOLEAN /\ (spc' = "backup" => ~ both')
  /\ i' = 0
  /\ succ' = TRUE
  /\ asked' = Files(log) \union (IF both' THEN Files(bak) ELSE {})
  /\ UNCHANGED <<log, bak, gen, loggerVars, passed>>

FilesEnd(to) ==
  /\ spc' = to
  /\ mutex' = None
  /\ i' = 0

FilesNext_Bug(from, to) ==
  IF i <= Level THEN spc' = from /\ i' = i + 1 /\ UNCHANGED mutex
                ELSE FilesEnd(to)

\* The next file of the call's loop.
FilesNext(from, to) ==
  IF i < Level THEN spc' = from /\ i' = i + 1 /\ UNCHANGED mutex
               ELSE FilesEnd(to)

\* One file removed: true if, looked for again, it is gone.
Removed(f, n, g, gone) ==
  \E there \in Seen(f[n]) :
    IF there THEN Remove(f, n, g) /\ \E left \in Seen(g[n]) : gone = ~ left
             ELSE g = f /\ gone = TRUE

DeleteLog_Bug ==
  /\ spc = "delete"
  /\ \E gone \in BOOLEAN : Removed(log, i, log', gone) /\ succ' = gone
  /\ IF both THEN spc' = "deletebak" /\ UNCHANGED <<i, mutex>>
             ELSE FilesNext("delete", "deleted")
  /\ UNCHANGED <<bak, gen, loggerVars, both, asked, passed>>

DeleteLog ==
  /\ spc = "delete"
  /\ \E gone \in BOOLEAN : Removed(log, i, log', gone) /\ succ' = (succ /\ gone)
  /\ IF both THEN spc' = "deletebak" /\ UNCHANGED <<i, mutex>>
             ELSE FilesNext("delete", "deleted")
  /\ UNCHANGED <<bak, gen, loggerVars, both, asked, passed>>

DeleteBak ==
  /\ spc = "deletebak"
  /\ \E gone \in BOOLEAN : Removed(bak, i, bak', gone) /\ succ' = (succ /\ gone)
  /\ FilesNext("delete", "deleted")
  /\ UNCHANGED <<log, gen, loggerVars, both, asked, passed>>

\* The first name without a file ends the saving; a .bak that cannot be
\* removed is passed over, with its log.
BackupLook_Bug ==
  /\ spc = "backup"
  /\ \E there \in Seen(log[i]), gone \in BOOLEAN :
       /\ there => Removed(bak, i, bak', gone)
       /\ passed' = IF there /\ ~ gone THEN passed \union {bak[i]} ELSE passed
       /\ \/ ~ there /\ FilesNext("backup", "saved") /\ UNCHANGED <<bak, succ>>  \* goes on
          \/ there /\ gone /\ spc' = "backupmove" /\ UNCHANGED <<i, mutex, succ>>
          \/ there /\ ~ gone /\ succ' = FALSE /\ FilesNext("backup", "saved")
  /\ UNCHANGED <<log, gen, loggerVars, both, asked>>

BackupLook ==
  /\ spc = "backup"
  /\ \E there \in Seen(log[i]), gone \in BOOLEAN :
       /\ there => Removed(bak, i, bak', gone)
       /\ passed' = IF there /\ ~ gone THEN passed \union {bak[i]} ELSE passed
       /\ \/ ~ there /\ FilesEnd("saved") /\ UNCHANGED <<bak, succ>>
          \/ there /\ gone /\ spc' = "backupmove" /\ UNCHANGED <<i, mutex, succ>>
          \/ there /\ ~ gone /\ succ' = FALSE /\ FilesNext("backup", "saved")
  /\ UNCHANGED <<log, gen, loggerVars, both, asked>>

\* The result is that of the last renaming.
BackupMove ==
  /\ spc = "backupmove"
  /\ \/ /\ Renames(log[i], bak[i])
        /\ bak' = [bak EXCEPT ![i] = log[i]]
        /\ log' = [log EXCEPT ![i] = None]
        /\ succ' = TRUE
        /\ FilesNext("backup", "saved")
     \/ /\ "rename" \in Faults \/ ~ Renames(log[i], bak[i])
        /\ succ' = FALSE
        /\ FilesEnd("saved")
        /\ UNCHANGED <<log, bak>>
  /\ UNCHANGED <<gen, loggerVars, both, asked, passed>>

ShellTask == FilesLock \/ DeleteLog \/ DeleteBak \/ BackupLook \/ BackupMove

Next == LoggerTask \/ ShellTask \/ PowerCycle

Spec == Init /\ [][Next]_vars

-----------------------------------------------------------------------------
TypeOK ==
  /\ log \in [Levels -> Gens \union {None}]
  /\ bak \in [Levels -> Gens \union {None}]
  /\ gen \in 0 .. MaxGen
  /\ mutex \in {None, "logger", "shell"}
  /\ lpc \in {"idle", "look", "remove", "rename", "open"}
  /\ level \in 0 .. Level - 1
  /\ size \in {"unknown", "small", "big"}
  /\ spc \in {"idle", "delete", "deletebak", "deleted", "backup", "backupmove", "saved"}
  /\ i \in Levels
  /\ both \in BOOLEAN /\ succ \in BOOLEAN
  /\ asked \subseteq Gens /\ passed \subseteq Gens

\* A file with a greater number in its name is older, whatever failed and
\* whenever power did: "(current) logger --> logger.1 --> ... --> logger.N
\* (oldest)" (task_logger.h:28-31).
OldestLast ==
  \A m, n \in Levels :
    m < n /\ log[m] # None /\ log[n] # None => log[m] > log[n]

\* What was saved stays in the order of its names too, over savings that end
\* anywhere and rotations between them: of the .bak files the one with the
\* greater number is the older, and it is older than the logs with its number
\* and smaller ones, so that a saving never replaces a file by an older one.
\* It is why a saving stops at a missing or failing log and does not go on to
\* the next (task_logger.c:471-500); where it does go on, over a .bak it could
\* not remove, that .bak is older than what is saved after it.
SavedOldestLast ==
  \A m, n \in Levels :
    bak[n] # None =>
      /\ m <= n /\ log[m] # None => log[m] > bak[n]
      /\ m < n /\ bak[m] # None /\ bak[m] \notin passed => bak[m] > bak[n]

Lost == (Files(log) \union Files(bak)) \ (Files(log') \union Files(bak'))

LosesOldest ==
  \A g \in Lost : mutex = "logger" => /\ g = log[Level]
                                      /\ \A h \in Files(log) : g <= h

\* A step of the logger task loses a file only when it is the oldest log and
\* has the last name: rotation makes room by it and by nothing else
\* (task_logger.c:506-532).
OnlyOldestLost == [][LosesOldest]_vars

\* A deletion that reports success has deleted every file it found, those of
\* an earlier failure included (task_logger.c:398-451) - as far as the file
\* system tells what is there.
DeletionTold ==
  spc = "deleted" /\ succ /\ "size" \notin Faults =>
    asked \intersect (Files(log) \union IF both THEN Files(bak) ELSE {}) = {}

\* A saving that reports success has renamed every log file there was:
\* "backup policy: rename /?/logger -> /?/logger.bak, /?/logger.N ->
\* /?/logger.N.bak" (task_logger.h:224).
BackupTold ==
  spc = "saved" /\ succ => asked \intersect Files(log) = {}
=============================================================================
