---------------------------- MODULE ShellEditor ----------------------------
(***************************************************************************)
(* The line editor and the command history of the shell core               *)
(* (mcush/shell_core.c: shell_read_line, shell_process_char,               *)
(* shell_add_cmd_to_history, shell_get_history), at the level of its two   *)
(* byte arrays.  One action per key or group of keys; terminal echo is     *)
(* left out.  Only the shell task touches this state, so a key is one      *)
(* step.  Keys the editor ignores (CR, ESC, Ctrl-L, NUL) are no step.      *)
(***************************************************************************)
EXTENDS Naturals, FiniteSets, Sequences

CONSTANTS
  Chars,        (* characters stored in a line                             *)
  Space,        (* the one that separates arguments                        *)
  NUL,          (* the string terminator                                   *)
  CmdlineLen,   (* SHELL_CMDLINE_LEN                                       *)
  HistoryLen    (* SHELL_CMDLINE_HISTORY_LEN                               *)

ASSUME CharsAssumption == Space \in Chars /\ NUL \notin Chars
\* cmdline_len, cmdline_cursor and history_index are uint8_t: the first two
\* reach CmdlineLen, the third the number of entries, one per two bytes.
ASSUME SizeAssumption == CmdlineLen \in 1 .. 255 /\ HistoryLen \in 1 .. 509

VARIABLES
  cmdline,      (* char cmdline[SHELL_CMDLINE_LEN+1]                       *)
  len,          (* cmdline_len                                             *)
  cursor,       (* cmdline_cursor                                          *)
  history,      (* char cmdline_history[SHELL_CMDLINE_HISTORY_LEN+1]       *)
  index,        (* history_index                                           *)
  result        (* "reading" inside shell_read_line, else what it returned *)

editVars == <<cmdline, len, cursor>>
vars == <<cmdline, len, cursor, history, index, result>>

Line == 0 .. CmdlineLen
Hist == 0 .. HistoryLen
Symbols == Chars \union {NUL}

Init ==
  /\ cmdline = [i \in Line |-> NUL]
  /\ len = 0
  /\ cursor = 0
  /\ history = [i \in Hist |-> NUL]
  /\ index = 0
  /\ result = "reading"

-----------------------------------------------------------------------------
(* Editing keys: shell_process_char returns 0.                             *)

Typing ==
  /\ result = "reading"
  /\ UNCHANGED <<history, index, result>>

\* (The operators whose names end in _Bug are what a plausible slip in the
\* definition that follows them would make of it; no specification uses them.)
Insert_Bug(c) ==
  /\ Typing
  /\ len < CmdlineLen
  /\ cmdline' = [i \in Line |->       \* overwrites instead of moving
       IF i = cursor THEN c ELSE IF i = len + 1 THEN NUL ELSE cmdline[i]]
  /\ len' = len + 1
  /\ cursor' = cursor + 1

\* Append and insert are the same movement of bytes, terminator included.
Insert(c) ==
  /\ Typing
  /\ len < CmdlineLen
  /\ cmdline' = [i \in Line |->
       IF i < cursor \/ i > len + 1 THEN cmdline[i]
       ELSE IF i = len + 1 THEN NUL
       ELSE IF i = cursor THEN c
       ELSE cmdline[i - 1]]
  /\ len' = len + 1
  /\ cursor' = cursor + 1

\* The bytes right of position k move one to the left.
CutAt(k) ==
  [i \in Line |->
     IF i < k \/ i >= len THEN cmdline[i]
     ELSE IF i = len - 1 THEN NUL
     ELSE cmdline[i + 1]]

Backspace ==
  /\ Typing
  /\ len > 0
  /\ cursor > 0
  /\ cmdline' = CutAt(cursor - 1)
  /\ len' = len - 1
  /\ cursor' = cursor - 1

Delete_Bug ==
  /\ Typing
  /\ cursor <= len                    \* off by one
  /\ cmdline' = CutAt(cursor)
  /\ len' = len - 1
  /\ UNCHANGED cursor

Delete ==
  /\ Typing
  /\ cursor < len
  /\ cmdline' = CutAt(cursor)
  /\ len' = len - 1
  /\ UNCHANGED cursor

Kill_Bug ==
  /\ Typing
  /\ cursor < len
  /\ len' = cursor
  /\ UNCHANGED <<cmdline, cursor>>    \* no terminator

Kill ==
  /\ Typing
  /\ cursor < len
  /\ cmdline' = [cmdline EXCEPT ![cursor] = NUL]
  /\ len' = cursor
  /\ UNCHANGED cursor

\* Ctrl-A, Ctrl-E, Ctrl-F, Ctrl-B.
Move ==
  /\ Typing
  /\ \/ cursor' = 0
     \/ cursor' = len
     \/ cursor < len /\ cursor' = cursor + 1
     \/ cursor > 0 /\ cursor' = cursor - 1
  /\ UNCHANGED <<cmdline, len>>

-----------------------------------------------------------------------------
(* The history: NUL-separated entries, newest at position 0.               *)

\* Where an entry starts.  The walk never takes the last byte for a start.
Starts ==
  {p \in 0 .. HistoryLen - 1 :
     history[p] # NUL /\ (p = 0 \/ history[p - 1] = NUL)}

\* shell_get_history: the place of the k-th entry, as a set of at most one.
GetHistory(k) ==
  {p \in Starts : Cardinality({q \in Starts : q < p}) + 1 = k}

\* The bytes of the entry at p, without its terminator.
InEntry(p, i) ==
  /\ p + i \in Hist
  /\ \A j \in p .. p + i : history[j] # NUL

\* strcpy of the entry at p into cmdline, and its strlen.  An entry longer
\* than the line would run over its end.
RecallAt(p) ==
  \E n \in Line :
    /\ \A i \in 0 .. n - 1 : InEntry(p, i)
    /\ ~ InEntry(p, n)
    /\ cmdline' = [i \in Line |->
         IF i < n THEN history[p + i] ELSE IF i = n THEN NUL ELSE cmdline[i]]
    /\ len' = n
    /\ cursor' = n

Previous_Bug ==
  /\ result = "reading"
  /\ IF GetHistory(index + 1) = {}
       THEN UNCHANGED editVars
       ELSE \E p \in GetHistory(index + 1) : RecallAt(p)
  /\ index' = index + 1               \* counted though nothing was found
  /\ index < HistoryLen
  /\ UNCHANGED <<history, result>>

\* Ctrl-P; without an older entry nothing happens.
Previous ==
  /\ result = "reading"
  /\ \E p \in GetHistory(index + 1) : RecallAt(p)
  /\ index' = index + 1
  /\ UNCHANGED <<history, result>>

\* Ctrl-N.
NextKey ==
  /\ result = "reading"
  /\ index > 1
  /\ \E p \in GetHistory(index - 1) : RecallAt(p)
  /\ index' = index - 1
  /\ UNCHANGED <<history, result>>

\* The line and its terminator pushed in front of the older entries.
Pushed ==
  [i \in Hist |-> IF i < len THEN cmdline[i]
                  ELSE IF i = len THEN NUL
                  ELSE history[i - len - 1]]

ZeroTail_Bug(h) == h

\* What the shift cut at the end of the array is zeroed, back to the last
\* terminator before it.
ZeroTail(h) ==
  [i \in Hist |-> IF \A j \in i .. HistoryLen : h[j] # NUL THEN NUL ELSE h[i]]

AddToHistory_Bug ==
  IF len = 0 \/ len > HistoryLen
    THEN UNCHANGED <<history, index>>
    ELSE /\ history' = ZeroTail(Pushed)
         /\ UNCHANGED index           \* the walk is not restarted

AddToHistory ==
  IF len = 0 \/ len > HistoryLen
    THEN UNCHANGED <<history, index>>
    ELSE /\ history' = ZeroTail(Pushed)
         /\ index' = 0

-----------------------------------------------------------------------------
(* Keys that end the line.                                                 *)

\* '\n': the line is terminated, remembered and returned.
Enter ==
  /\ result = "reading"
  /\ cmdline' = [cmdline EXCEPT ![len] = NUL]
  /\ AddToHistory
  /\ result' = "line"
  /\ UNCHANGED <<len, cursor>>

\* Ctrl-C.  The bytes of the line stay where they are.
Interrupt ==
  /\ result = "reading"
  /\ len' = 0
  /\ cursor' = 0
  /\ index' = 0
  /\ result' = "interrupt"
  /\ UNCHANGED <<cmdline, history>>

\* Ctrl-Z.  The line is cut at the cursor and its length left alone.
EndOfInput ==
  /\ result = "reading"
  /\ cmdline' = [cmdline EXCEPT ![cursor] = NUL]
  /\ result' = "eof"
  /\ UNCHANGED <<len, cursor, history, index>>

\* shell_split_cmdline_into_argvs cuts the line in place at its spaces.
Split == [i \in Line |->
            IF i < len /\ cmdline[i] = Space THEN NUL ELSE cmdline[i]]

\* What the buffer holds when shell_read_line is called again: the line as
\* it was (read_multi_lines reads on, or no command ran), the line split
\* (the command reads input of its own), or an emptied line (the command
\* is over).
Leftover ==
  {cmdline} \union
  (IF result = "line" /\ len > 0
     THEN {Split, [Split EXCEPT ![0] = NUL]} ELSE {})

ReadLine ==
  /\ result # "reading"
  /\ cmdline' \in Leftover
  /\ len' = 0
  /\ cursor' = 0
  /\ result' = "reading"
  /\ UNCHANGED <<history, index>>

Next ==
  \/ \E c \in Chars : Insert(c)
  \/ Backspace \/ Delete \/ Kill \/ Move
  \/ Previous \/ NextKey
  \/ Enter \/ Interrupt \/ EndOfInput
  \/ ReadLine

Spec == Init /\ [][Next]_vars

-----------------------------------------------------------------------------
TypeOK ==
  /\ cmdline \in [Line -> Symbols]
  /\ len \in Line
  /\ cursor \in 0 .. len
  /\ history \in [Hist -> Symbols]
  /\ index \in Nat
  /\ result \in {"reading", "line", "interrupt", "eof"}

\* While a line is edited and when it is handed to its reader, its length is
\* where its terminator is and no terminator hides inside it: strlen, strcpy
\* and the argument splitter, which see only bytes, agree with cmdline_len
\* (shell_core.c:745-750, 784, 603).
LineTerminated ==
  result = "line" \/ (result = "reading" /\ len > 0) =>
    /\ cmdline[len] = NUL
    /\ \A i \in 0 .. len - 1 : cmdline[i] # NUL

\* Every entry of the history ends inside the array, and within the size of
\* the command line it is copied into by strcpy (shell_core.c:509), however
\* the shift of shell_add_cmd_to_history cut the oldest one.
EntriesFit ==
  \A p \in Starts :
    \E n \in 1 .. CmdlineLen : p + n \in Hist /\ history[p + n] = NUL

\* The walk of shell_get_history stops at the first empty entry: none may
\* hide behind it.
HistoryPacked ==
  /\ history[0] = NUL => \A j \in Hist : history[j] = NUL
  /\ \A i \in 0 .. HistoryLen - 1 :
       history[i] = NUL /\ history[i + 1] = NUL =>
         \A j \in i .. HistoryLen : history[j] = NUL

HistoryWellFormed == EntriesFit /\ HistoryPacked

\* The walk of Ctrl-P / Ctrl-N never stands on an entry that the history no
\* longer holds, though lines are submitted and cut off between two keys.
IndexInHistory == index <= Cardinality(Starts)

-----------------------------------------------------------------------------
(* The abstract state the two arrays stand for.                            *)

AbsLine ==
  IF result = "eof" THEN <<>> ELSE [i \in 1 .. len |-> cmdline[i - 1]]

AbsCursor == IF result = "eof" THEN 0 ELSE cursor

\* The entry at p as a sequence.
EntryAt(p) ==
  LET n == Cardinality({i \in 0 .. HistoryLen - p : InEntry(p, i)})
  IN  [i \in 1 .. n |-> history[p + i - 1]]

AbsCommands ==
  [k \in 1 .. Cardinality(Starts) |-> EntryAt(CHOOSE p \in GetHistory(k) : TRUE)]

CL == INSTANCE CommandLine WITH
        MaxLen <- CmdlineLen, line <- AbsLine, cursor <- AbsCursor

CH == INSTANCE CommandHistory WITH
        Budget <- HistoryLen + 1, commands <- AbsCommands, line <- AbsLine

\* The byte-array editor is the line editor it promises to be.
ImplementsCommandLine == CL!Spec

\* The flat array always holds exactly the most recent whole lines that fit,
\* newest first, and Ctrl-P / Ctrl-N walk that list one line at a time.
ImplementsCommandHistory == CH!Spec
=============================================================================
