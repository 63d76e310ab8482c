---------------------------- MODULE ByteChannel ----------------------------
(***************************************************************************)
(* What a terminal driver promises the tasks that print and the task that  *)
(* reads: bytes come out in the order they went in, each at most once.     *)
(* While the line is still disturbed (resets by Ctrl-C, a host that comes  *)
(* and goes) a stretch of them may get lost; once it is settled, none is.  *)
(***************************************************************************)
EXTENDS Naturals, Sequences

CONSTANTS Bytes

VARIABLES
  pending,    (* bytes that went in and have not come out                 *)
  ins, outs,  (* flip whenever a byte goes in, whenever some come out     *)
  settled     (* nothing disturbs the line any more                       *)

vars == <<pending, ins, outs, settled>>

Init ==
  /\ pending = <<>>
  /\ ins = FALSE /\ outs = FALSE
  /\ settled = FALSE

Accept ==
  /\ \E b \in Bytes : pending' = Append(pending, b)
  /\ ins' = ~ ins
  /\ UNCHANGED <<outs, settled>>

Deliver ==
  /\ \E n \in 0 .. Len(pending) : pending' = SubSeq(pending, n + 1, Len(pending))
  /\ outs' = ~ outs
  /\ UNCHANGED <<ins, settled>>

\* What lies between the first i bytes and the last n of them is gone.
Lose ==
  /\ ~ settled
  /\ \E i, n \in 0 .. Len(pending) :
       /\ i + n <= Len(pending)
       /\ pending' = SubSeq(pending, 1, i)
                       \o SubSeq(pending, Len(pending) - n + 1, Len(pending))
  /\ UNCHANGED <<ins, outs, settled>>

Settle ==
  /\ settled' = TRUE
  /\ UNCHANGED <<pending, ins, outs>>

Next == Accept \/ Deliver \/ Lose \/ Settle

Spec == Init /\ [][Next]_vars
=============================================================================
