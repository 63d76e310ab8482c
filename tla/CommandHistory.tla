--------------------------- MODULE CommandHistory ---------------------------
(***************************************************************************)
(* What the command history of the shell promises: the most recent         *)
(* submitted lines, newest first, as many whole lines as fit in the        *)
(* history's budget of bytes (each costs its length and a terminator), and *)
(* a place in that list that the previous / next keys walk one step at a   *)
(* time.  ShellEditor keeps all of it in one flat array of characters.     *)
(***************************************************************************)
EXTENDS Naturals, Sequences, FiniteSetsExt

CONSTANT Budget       (* bytes of the history array                       *)

VARIABLES
  commands,           (* the remembered lines, newest first               *)
  index,              (* 0, or the position of the line recalled last     *)
  line,               (* the line being edited                            *)
  result              (* "reading", or how the read ended                 *)

vars == <<commands, index, line, result>>

Init ==
  /\ commands = <<>>
  /\ index = 0
  /\ line = <<>>
  /\ result = "reading"

\* The bytes that the first k lines of cs cost, each k.
Cost(cs) ==
  LET cost[k \in 0 .. Len(cs)] == IF k = 0 THEN 0 ELSE cost[k - 1] + Len(cs[k]) + 1
  IN  cost

\* The longest run of the newest lines that fits.
Remember(c) ==
  LET all == <<c>> \o commands
      n   == Max({k \in 0 .. Len(all) : Cost(all)[k] <= Budget})
  IN  SubSeq(all, 1, n)

\* A submitted line enters the history and ends the walk.  A line that is
\* empty, or too long to be kept at all, changes neither.
Submit ==
  /\ result = "reading"
  /\ result' = "line"
  /\ IF line # <<>> /\ Len(line) + 1 <= Budget
       THEN commands' = Remember(line) /\ index' = 0
       ELSE UNCHANGED <<commands, index>>
  /\ UNCHANGED line

Recall(k) ==
  /\ result = "reading"
  /\ k \in 1 .. Len(commands)
  /\ index' = k
  /\ line' = commands[k]
  /\ UNCHANGED <<commands, result>>

Older == Recall(index + 1)

Newer ==
  /\ index > 1
  /\ Recall(index - 1)

Interrupt ==
  /\ result = "reading"
  /\ result' = "interrupt"
  /\ index' = 0
  /\ UNCHANGED commands

\* Everything else may change the line, never the history or the place in it.
Other ==
  /\ result' \notin {"line", "interrupt"} \ {result}
  /\ UNCHANGED <<commands, index>>

Next == Submit \/ Older \/ Newer \/ Interrupt \/ Other

Spec == Init /\ [][Next]_vars
=============================================================================
