---------------------------- MODULE ShellScript ----------------------------
(***************************************************************************)
(* Where the shell's characters come from and what a line of them does:    *)
(* the script in memory or the terminal (shell_read_char), the loop that   *)
(* reads and runs lines (shell_run, shell_process_command), the commands   *)
(* that replace or abort the script (cmd_load, cmd_stop, the Ctrl-C of     *)
(* LOOP_CHECK and cmd_delay), and the commands that read lines of data of  *)
(* their own (shell_read_multi_lines).                                     *)
(*                                                                         *)
(* A text is a sequence of tokens: a word, "nl" for the newline, "int" for *)
(* Ctrl-C, "eof" for Ctrl-Z.  A word stands for the text of a whole        *)
(* command line; two words without a newline between them are no command.  *)
(* The line buffer itself is ShellEditor's.  One task runs all of this: a  *)
(* token is one step.                                                      *)
(***************************************************************************)
EXTENDS Naturals, Integers, Sequences

CONSTANTS
  Buffers,      (* heap blocks a script can be loaded into                 *)
  Static,       (* a script in ROM: /r/init, /c/init, a built-in one       *)
  None,
  Texts,        (* the scripts that can be loaded                          *)
  MaxWords      (* bound: words typed into one line                        *)

\* good, fail: commands that return 0 or not.  load, loade, boot: load a file,
\* load -e, load from ROM.  wait: delays, or loops doing what leaves the script
\* alone.  loop: loops loading a file.  Both read the terminal between turns.
\* multi: reads lines of data.  data: text that names no command.
Words == {"good", "fail", "data", "load", "loade", "boot", "stop", "wait", "loop",
          "multi"}
Tokens == Words \union {"nl", "int", "eof"}

\* A script: the buffer it lies in and the tokens not read yet.
Scripts == [buf : Buffers \union {Static}, rest : Seq(Tokens)]

ASSUME ScriptAssumption ==
  /\ Static \notin Buffers
  /\ None \notin Buffers \union {Static} \union Scripts
  /\ MaxWords \in Nat \ {0}
  /\ Texts \subseteq Seq(Tokens)

VARIABLES
  script,       (* scb.script: None, or the buffer and the tokens left     *)
  script_free,  (* scb.script_free                                         *)
  error_stop,   (* scb.script_error_stop                                   *)
  errnum,       (* scb.errnum                                              *)
  heap,         (* buffers allocated for scripts                           *)
  line,         (* words on the line since the last newline                *)
  mode,         (* who reads the next token: "shell" or "multi", the       *)
                (* script's; "wait" or "loop", the terminal's              *)
  collected,    (* shell_read_multi_lines holds at least one line          *)
  executed      (* the line of words run last, and whether from a script   *)

scriptVars == <<script, script_free, error_stop, heap>>
vars == <<script, script_free, error_stop, errnum, heap, line, mode,
          collected, executed>>

InScript == script # None                            \* shell_is_script_mode
Waiting == mode \in {"wait", "loop"}

\* The script once its next token is taken.
Left == IF InScript THEN [script EXCEPT !.rest = Tail(@)] ELSE None

Init ==
  /\ \/ script = None
     \/ \E t \in Texts : script = [buf |-> Static, rest |-> t]
  /\ script_free = None
  /\ error_stop = FALSE
  /\ errnum = 0
  /\ heap = {}
  /\ line = <<>>
  /\ mode = "shell"
  /\ collected = FALSE
  /\ executed = [words |-> <<>>, scripted |-> FALSE]

-----------------------------------------------------------------------------
(* The script.                                                             *)

SetScript_Bug(new, need_free, stop, held) ==
  /\ script' = new
  /\ heap' = held                        \* what was loaded before is forgotten
  /\ script_free' = IF need_free THEN new.buf ELSE None
  /\ error_stop' = stop

SetScript_Bug2(new, need_free, stop, held) ==
  /\ script' = new
  /\ heap' = held \ {script_free}
  /\ script_free' = IF new = None THEN None ELSE new.buf  \* need_free ignored
  /\ error_stop' = stop

\* What shell_set_script leaves: the buffer of the script before it is freed,
\* whether or not that script had come to its end.
SetScript(new, need_free, stop, held) ==
  /\ script' = new
  /\ heap' = held \ {script_free}
  /\ script_free' = IF need_free THEN new.buf ELSE None
  /\ error_stop' = stop

DropScript == SetScript(None, FALSE, FALSE, heap)

\* The prompt after a command that returned n, s being what is left of the
\* script: a failed command ends an error-stop script that has more to run.
Prompt_Bug(s, n) ==
  /\ errnum' = n
  /\ mode' = "shell"
  /\ IF error_stop /\ s # None /\ n < 0 /\ s.rest # <<>>   \* only bad commands
       THEN DropScript
       ELSE script' = s /\ UNCHANGED <<script_free, error_stop, heap>>

Prompt(s, n) ==
  /\ errnum' = n
  /\ mode' = "shell"
  /\ IF error_stop /\ s # None /\ n # 0 /\ s.rest # <<>>
       THEN DropScript
       ELSE script' = s /\ UNCHANGED <<script_free, error_stop, heap>>

\* The terminator of the script is met: it is over, its buffer is freed.
ScriptEnds ==
  /\ InScript
  /\ script.rest = <<>>
  /\ ~ Waiting
  /\ script' = None
  /\ heap' = heap \ {script_free}
  /\ script_free' = None
  /\ UNCHANGED <<error_stop, errnum, line, mode, collected, executed>>

-----------------------------------------------------------------------------
(* A line at the prompt.                                                   *)

\* A word of a line, whoever reads it.
Word(w) ==
  /\ ~ Waiting
  /\ Len(line) < MaxWords
  /\ line' = Append(line, w)
  /\ script' = Left
  /\ UNCHANGED <<script_free, error_stop, heap, errnum, mode, collected, executed>>

\* A command goes on, having done well so far (the newline cleared errnum).
Suspend(s, m) ==
  /\ mode' = m
  /\ errnum' = 0
  /\ script' = s
  /\ UNCHANGED <<script_free, error_stop, heap>>

\* cmd_load of a file, s being what is left of the script: read whole into a new
\* buffer, or failing on the way.
Loaded(stop) ==
  /\ errnum' = 0
  /\ \E b \in Buffers \ heap, t \in Texts \ {<<>>} :
       SetScript([buf |-> b, rest |-> t], TRUE, stop, heap \union {b})

\* (The size of a missing file is not set: 0 ends the command as a success.)
Load(s, stop) ==
  \/ Loaded(stop) /\ mode' = "shell"
  \/ \E n \in {0, 1} : Prompt(s, n)

\* The same in a loop, which goes on until a turn fails or was the last.
LoopLoad(s) ==
  \E stop \in BOOLEAN :
    \/ Load(s, stop)
    \/ Loaded(stop) /\ mode' = "loop"
    \/ Suspend(s, "loop")

\* cmd_load of a file in ROM, which is run where it lies.
Boot ==
  \E t \in Texts, stop \in BOOLEAN :
    /\ SetScript([buf |-> Static, rest |-> t], FALSE, stop, heap)
    /\ errnum' = 0
    /\ mode' = "shell"

Stop ==
  /\ DropScript
  /\ errnum' = 0
  /\ mode' = "shell"

\* shell_process_command: what the line does.
Quiet == {<<>>, <<"good">>}
Known == {<<w>> : w \in Words \ {"data"}} \union {<<>>}

Run ==
  \/ line \in Quiet      /\ Prompt(Left, 0)
  \/ line = <<"fail">>   /\ Prompt(Left, 1)
  \/ line = <<"load">>   /\ Load(Left, FALSE)
  \/ line = <<"loade">>  /\ Load(Left, TRUE)
  \/ line = <<"boot">>   /\ Boot
  \/ line = <<"stop">>   /\ Stop
  \/ line = <<"wait">>   /\ Suspend(Left, "wait")
  \/ line = <<"loop">>   /\ LoopLoad(Left)
  \/ line = <<"multi">>  /\ (Suspend(Left, "multi") \/ Prompt(Left, 1))
  \/ line \notin Known   /\ Prompt(Left, -1)    \* Invalid command

RunLine ==
  /\ mode = "shell"
  /\ Run
  /\ line' = <<>>
  /\ collected' = FALSE
  /\ executed' = [words |-> line, scripted |-> InScript]

\* Ctrl-C at the prompt: the line is dropped, the script is not.
Interrupt ==
  /\ mode = "shell"
  /\ Prompt(Left, 0)
  /\ line' = <<>>
  /\ UNCHANGED <<collected, executed>>

\* Ctrl-Z at the prompt: the same, but errnum stays what it was.
EndOfInput ==
  /\ mode = "shell"
  /\ Prompt(Left, errnum)
  /\ line' = <<>>
  /\ UNCHANGED <<collected, executed>>

-----------------------------------------------------------------------------
(* shell_read_multi_lines and the command that called it.                  *)

\* A line of data: kept, unless the buffer cannot grow.
DataLine_Bug ==
  /\ mode = "multi"
  /\ line # <<>>
  /\ \/ collected' = TRUE /\ Suspend(Left, "multi")
     \/ collected' = FALSE /\ Prompt(Left, 0)      \* the failure is not told
  /\ line' = <<>>
  /\ UNCHANGED executed

DataLine ==
  /\ mode = "multi"
  /\ line # <<>>
  /\ \/ collected' = TRUE /\ Suspend(Left, "multi")
     \/ collected' = FALSE /\ Prompt(Left, 1)
  /\ line' = <<>>
  /\ UNCHANGED executed

\* What the command makes of its data, for one cmd_cat that writes them to a
\* file: it may fail at them, and does so without any.
Outcomes == IF collected THEN {0, 1} ELSE {1}

\* An empty line or Ctrl-Z ends the data.
DataEnds ==
  /\ mode = "multi"
  /\ \E n \in Outcomes : Prompt(Left, n)
  /\ collected' = FALSE
  /\ line' = <<>>
  /\ UNCHANGED executed

DataAborted ==
  /\ mode = "multi"
  /\ Prompt(Left, 1)
  /\ collected' = FALSE
  /\ line' = <<>>
  /\ UNCHANGED executed

-----------------------------------------------------------------------------
(* LOOP_CHECK and cmd_delay read the terminal, not the script.             *)

WaitInterrupted ==
  /\ Waiting
  /\ errnum' = 0
  /\ mode' = "shell"
  /\ IF InScript THEN DropScript ELSE UNCHANGED scriptVars
  /\ UNCHANGED <<line, collected, executed>>

\* The time of cmd_delay is over, or the last turn of cmd_loop; or a later turn
\* of it failed, and cmd_loop with it.
WaitOver ==
  /\ mode = "wait"
  /\ \E n \in {0, 1} : Prompt(script, n)
  /\ UNCHANGED <<line, collected, executed>>

\* LOOP_CHECK has waited: cmd_loop loads once more.
LoopAgain ==
  /\ mode = "loop"
  /\ LoopLoad(script)
  /\ UNCHANGED <<line, collected, executed>>

-----------------------------------------------------------------------------
\* shell_read_char takes the script's tokens as long as there are any.
ReadChar(t) == IF InScript THEN script.rest # <<>> /\ t = Head(script.rest)
                           ELSE t \in Tokens

ShellReads ==
  \E t \in Tokens :
    /\ ReadChar(t)
    /\ \/ t \in Words /\ Word(t)
       \/ t = "nl" /\ (RunLine \/ DataLine \/ (line = <<>> /\ DataEnds))
       \/ t = "eof" /\ (EndOfInput \/ DataEnds)
       \/ t = "int" /\ (Interrupt \/ DataAborted)

Next == ShellReads \/ ScriptEnds \/ WaitInterrupted \/ WaitOver \/ LoopAgain

Spec == Init /\ [][Next]_vars

-----------------------------------------------------------------------------
(* Which lines of a text are data.                                         *)

Enders == Tokens \ Words
LineStart(t, i) == i = 1 \/ t[i - 1] \in Enders

\* What stands before i of the text t is a command that reads data, and lines
\* of data, none of them empty, up to i.
InBlock(t, i) ==
  \E j \in 1 .. i - 2 :
    /\ LineStart(t, j) /\ t[j] = "multi" /\ t[j + 1] = "nl"
    /\ \A k \in j + 2 .. i - 1 : t[k] = "data" \/ (t[k] = "nl" /\ t[k - 1] = "data")

\* No line of data stands anywhere else.
DataInBlocks ==
  \A t \in Texts : \A i \in 1 .. Len(t) - 1 :
    LineStart(t, i) /\ t[i] = "data" /\ t[i + 1] = "nl" => InBlock(t, i)

TypeOK ==
  /\ script \in Scripts \union {None}
  /\ script_free \in Buffers \union {None}
  /\ error_stop \in BOOLEAN
  /\ errnum \in -1 .. 1
  /\ heap \subseteq Buffers
  /\ line \in Seq(Words) /\ Len(line) <= MaxWords
  /\ mode \in {"shell", "wait", "loop", "multi"}
  /\ collected \in BOOLEAN
  /\ executed \in [words : Seq(Words), scripted : BOOLEAN]

\* A loaded script's buffer is allocated exactly as long as the script is
\* read: no character comes from a freed buffer, none is freed twice, and
\* none outlives its script, however scripts end, stop or replace each other
\* (shell_core.c:28-36, 709-717).
ScriptOwned ==
  /\ heap = {script_free} \ {None}
  /\ script_free # None => InScript /\ script.buf = script_free
  /\ InScript /\ script.buf # Static => script.buf = script_free

\* Once a command of an error-stop script failed, nothing of the script is
\* left to run (shell_core.c:954-959), also when the command read data before
\* it failed, or went through turns of a loop and waited between them, or when
\* the script is one that an earlier turn has loaded.
ErrorStops ==
  error_stop /\ InScript /\ mode = "shell" /\ script.rest # <<>> => errnum = 0

\* In an error-stop script the lines meant as data are never run as commands,
\* though the command that should read them may give up after any of them.
\* (Without error stop they are: the commands give up and the loop runs on.)
DataNeverRuns ==
  [][executed'.words = <<"data">> /\ executed'.scripted /\ executed' # executed
       => ~ error_stop]_vars
=============================================================================
