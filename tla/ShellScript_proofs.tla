------------------------ MODULE ShellScript_proofs -------------------------
(***************************************************************************)
(* Proofs about ShellScript, for every set of scripts and of buffers.      *)
(***************************************************************************)
EXTENDS ShellScript, TLAPS

USE ScriptAssumption

IInv == TypeOK /\ ScriptOwned /\ ErrorStops

\* The script after one token is a script, and shorter.
LEMMA LeftIsScript ==
  ASSUME TypeOK, NEW t \in Tokens, ReadChar(t)
  PROVE  /\ Left \in Scripts \union {None}
         /\ (Left = None <=> script = None)
         /\ script # None => Left.buf = script.buf /\ script.rest # <<>>
<1>1. CASE script = None
  BY <1>1 DEF Left, InScript
<1>2. CASE script # None
  <2>1. script \in Scripts /\ script.rest # <<>>
    BY <1>2 DEF TypeOK, ReadChar, InScript
  <2>2. Left = [buf |-> script.buf, rest |-> Tail(script.rest)]
    BY <1>2, <2>1 DEF Left, InScript, Scripts
  <2>3. Tail(script.rest) \in Seq(Tokens)
    BY <2>1 DEF Scripts
  <2>4. Left \in Scripts /\ Left.buf = script.buf
    BY <2>1, <2>2, <2>3 DEF Scripts
  <2>5. Left # None
    BY <2>4
  <2>. QED  BY <1>2, <2>1, <2>4, <2>5
<1>. QED  BY <1>1, <1>2

\* What the invariant says of the script and its memory alone.
Owned(s, f, h) ==
  /\ s \in Scripts \union {None}
  /\ f \in Buffers \union {None}
  /\ h = {f} \ {None}
  /\ f # None => s # None /\ s.buf = f
  /\ s # None /\ s.buf # Static => s.buf = f

LEMMA OwnedIs ==
  ASSUME TypeOK, ScriptOwned
  PROVE  Owned(script, script_free, heap)
BY DEF TypeOK, ScriptOwned, Owned, InScript

\* Unfolding and folding the invariant.
LEMMA Fold ==
  ASSUME Owned(script', script_free', heap'), error_stop' \in BOOLEAN,
         errnum' \in -1 .. 1, line' \in Seq(Words), Len(line') <= MaxWords,
         mode' \in {"shell", "wait", "loop", "multi"}, collected' \in BOOLEAN,
         executed' \in [words : Seq(Words), scripted : BOOLEAN],
         ErrorStops'
  PROVE  IInv'
<1>1. heap' \subseteq Buffers
  BY DEF Owned
<1>2. TypeOK'
  BY <1>1 DEF TypeOK, Owned
<1>3. ScriptOwned'
  BY DEF ScriptOwned, Owned, InScript
<1>. QED  BY <1>2, <1>3 DEF IInv

\* The prompt keeps the memory of the script, or gives it back, and after it
\* an error-stop script goes on only if the command succeeded.
LEMMA PromptKeeps ==
  ASSUME IInv, NEW n \in -1 .. 1, NEW s \in Scripts \union {None},
         (s = None <=> script = None),
         script # None => s.buf = script.buf,
         Prompt(s, n)
  PROVE  /\ Owned(script', script_free', heap')
         /\ error_stop' \in BOOLEAN
         /\ errnum' \in -1 .. 1
         /\ mode' = "shell"
         /\ ErrorStops'
<1>1. Owned(script, script_free, heap) /\ error_stop \in BOOLEAN
  BY OwnedIs DEF IInv, TypeOK
<1>2. errnum' = n /\ mode' = "shell"
  BY DEF Prompt
<1>3. CASE error_stop /\ s # None /\ n # 0 /\ s.rest # <<>>
  <2>1. /\ script' = None /\ heap' = heap \ {script_free}
        /\ script_free' = None /\ error_stop' = FALSE
    BY <1>3 DEF Prompt, DropScript, SetScript
  <2>2. Owned(script', script_free', heap')
    BY <1>1, <2>1 DEF Owned
  <2>. QED  BY <1>2, <2>1, <2>2 DEF ErrorStops
<1>4. CASE ~ (error_stop /\ s # None /\ n # 0 /\ s.rest # <<>>)
  <2>1. /\ script' = s /\ heap' = heap
        /\ script_free' = script_free /\ error_stop' = error_stop
    BY <1>4 DEF Prompt
  <2>2. Owned(script', script_free', heap')
    BY <1>1, <2>1 DEF Owned
  <2>3. ErrorStops'
    BY <1>2, <1>4, <2>1 DEF ErrorStops, InScript
  <2>. QED  BY <1>1, <1>2, <2>1, <2>2, <2>3
<1>. QED  BY <1>3, <1>4

\* A command that runs a new script, or none, has succeeded.
LEMMA NewScriptKeeps ==
  ASSUME IInv, NEW new \in Scripts \union {None}, NEW need_free \in BOOLEAN,
         NEW stop \in BOOLEAN, NEW held,
         SetScript(new, need_free, stop, held),
         \/ new = None /\ ~ need_free /\ held = heap
         \/ new \in Scripts /\ new.buf = Static /\ ~ need_free /\ held = heap
         \/ /\ new \in Scripts /\ new.buf \in Buffers \ heap /\ need_free
            /\ held = heap \union {new.buf},
         errnum' = 0
  PROVE  /\ Owned(script', script_free', heap')
         /\ error_stop' \in BOOLEAN
         /\ errnum' \in -1 .. 1
         /\ ErrorStops'
<1>1. Owned(script, script_free, heap)
  BY OwnedIs DEF IInv
<1>2. /\ script' = new /\ heap' = held \ {script_free}
      /\ script_free' = (IF need_free THEN new.buf ELSE None)
      /\ error_stop' = stop
  BY DEF SetScript
<1>3. Owned(script', script_free', heap')
  BY <1>1, <1>2 DEF Owned
<1>. QED  BY <1>2, <1>3 DEF ErrorStops

\* What a command may leave of the script, its memory and the result.
Kept ==
  /\ Owned(script', script_free', heap')
  /\ error_stop' \in BOOLEAN
  /\ errnum' \in -1 .. 1
  /\ mode' \in {"shell", "wait", "loop", "multi"}
  /\ ErrorStops'

\* The same script, with no more left of it than before.
Same(s) ==
  /\ s \in Scripts \union {None}
  /\ s = None <=> script = None
  /\ script # None => s.buf = script.buf

LEMMA SuspendKeeps ==
  ASSUME IInv, NEW s, Same(s), NEW m \in {"wait", "loop", "multi"}, Suspend(s, m)
  PROVE  Kept
<1>1. /\ mode' = m /\ errnum' = 0 /\ script' = s
      /\ script_free' = script_free /\ error_stop' = error_stop /\ heap' = heap
  BY DEF Suspend
<1>2. Owned(script, script_free, heap) /\ error_stop \in BOOLEAN
  BY OwnedIs DEF IInv, TypeOK
<1>3. Owned(script', script_free', heap')
  BY <1>1, <1>2 DEF Owned, Same
<1>. QED  BY <1>1, <1>2, <1>3 DEF ErrorStops, Kept

LEMMA LoadKeeps ==
  ASSUME IInv, NEW s, Same(s), NEW stop \in BOOLEAN
  PROVE  /\ Loaded(stop) /\ mode' \in {"shell", "loop"} => Kept
         /\ Load(s, stop) => Kept
<1>1. ASSUME Loaded(stop), mode' \in {"shell", "loop"} PROVE Kept
  <2>1. PICK b \in Buffers \ heap, x \in Texts \ {<<>>} :
          SetScript([buf |-> b, rest |-> x], TRUE, stop, heap \union {b})
    BY <1>1 DEF Loaded
  <2>. DEFINE new == [buf |-> b, rest |-> x]
  <2>2. new \in Scripts /\ new.buf = b /\ errnum' = 0
    BY <1>1 DEF Scripts, Loaded
  <2>. QED  BY <1>1, <2>1, <2>2, NewScriptKeeps DEF Kept
<1>2. ASSUME NEW n \in {0, 1}, Prompt(s, n) PROVE Kept
  BY <1>2, PromptKeeps DEF Kept, Same
<1>. QED  BY <1>1, <1>2 DEF Load

LEMMA LoopLoadKeeps ==
  ASSUME IInv, NEW s, Same(s), LoopLoad(s)
  PROVE  Kept
<1>1. PICK stop \in BOOLEAN : Load(s, stop) \/ (Loaded(stop) /\ mode' = "loop") \/ Suspend(s, "loop")
  BY DEF LoopLoad
<1>. QED  BY <1>1, LoadKeeps, SuspendKeeps

\* What a line does.
LEMMA RunKeeps ==
  ASSUME IInv, NEW t \in Tokens, ReadChar(t), Run
  PROVE  Kept
<1>1. Same(Left)
  BY LeftIsScript DEF IInv, Same
<1>2. ASSUME NEW n \in -1 .. 1, Prompt(Left, n) PROVE Kept
  BY <1>1, <1>2, PromptKeeps DEF Kept, Same
<1>5. ASSUME Boot PROVE Kept
  <2>1. PICK x \in Texts, stop \in BOOLEAN :
          /\ SetScript([buf |-> Static, rest |-> x], FALSE, stop, heap)
          /\ errnum' = 0 /\ mode' = "shell"
    BY <1>5 DEF Boot
  <2>. DEFINE new == [buf |-> Static, rest |-> x]
  <2>2. new \in Scripts /\ new.buf = Static
    BY DEF Scripts
  <2>. QED  BY <2>1, <2>2, NewScriptKeeps DEF Kept
<1>6. ASSUME Stop PROVE Kept
  BY <1>6, NewScriptKeeps DEF Stop, DropScript, Kept
<1>7. /\ -1 \in -1 .. 1 /\ 0 \in -1 .. 1 /\ 1 \in -1 .. 1
      /\ TRUE \in BOOLEAN /\ FALSE \in BOOLEAN
      /\ "wait" \in {"wait", "loop", "multi"} /\ "multi" \in {"wait", "loop", "multi"}
  OBVIOUS
<1>8. ASSUME Prompt(Left, -1) \/ Prompt(Left, 0) \/ Prompt(Left, 1) PROVE Kept
  BY <1>2, <1>7, <1>8, Zenon
<1>9. ASSUME Suspend(Left, "wait") \/ Suspend(Left, "multi") PROVE Kept
  BY <1>1, <1>7, <1>9, SuspendKeeps
<1>10. ASSUME Load(Left, FALSE) \/ Load(Left, TRUE) PROVE Kept
  BY <1>1, <1>7, <1>10, LoadKeeps
<1>11. ASSUME LoopLoad(Left) PROVE Kept
  BY <1>1, <1>11, LoopLoadKeeps
<1>. QED  BY <1>5, <1>6, <1>8, <1>9, <1>10, <1>11, Zenon DEF Run

LEMMA NextIInv == IInv /\ [Next]_vars => IInv'
<1>. SUFFICES ASSUME IInv, [Next]_vars PROVE IInv'
  OBVIOUS
<1>0. TypeOK /\ Owned(script, script_free, heap)
  BY OwnedIs DEF IInv
<1>1. ASSUME NEW t \in Tokens, ReadChar(t),
             \/ t \in Words /\ Word(t)
             \/ t = "nl" /\ (RunLine \/ DataLine \/ (line = <<>> /\ DataEnds))
             \/ t = "eof" /\ (EndOfInput \/ DataEnds)
             \/ t = "int" /\ (Interrupt \/ DataAborted)
      PROVE  IInv'
  <2>0. /\ Left \in Scripts \union {None} /\ (Left = None <=> script = None)
        /\ script # None => Left.buf = script.buf /\ script.rest # <<>>
    BY <1>0, <1>1, LeftIsScript
  <2>00. <<>> \in Seq(Words) /\ Len(<<>>) <= MaxWords
    OBVIOUS
  <2>01. 0 \in -1 .. 1 /\ 1 \in -1 .. 1 /\ TRUE \in BOOLEAN /\ FALSE \in BOOLEAN
    OBVIOUS
  <2>1. CASE t \in Words /\ Word(t)
    <3>1. /\ script' = Left /\ line' = Append(line, t) /\ Len(line) < MaxWords
          /\ UNCHANGED <<script_free, error_stop, heap, errnum, mode, collected, executed>>
      BY <2>1 DEF Word
    <3>2. line' \in Seq(Words) /\ Len(line') <= MaxWords
      BY <1>0, <2>1, <3>1 DEF TypeOK
    <3>3. Owned(script', script_free', heap')
      BY <1>0, <2>0, <3>1 DEF Owned
    <3>4. ErrorStops'
      BY <2>0, <3>1 DEF IInv, ErrorStops, InScript
    <3>. QED  BY <1>0, <3>1, <3>2, <3>3, <3>4, Fold DEF TypeOK
  <2>2. CASE RunLine
    <3>1. /\ Run /\ line' = <<>> /\ collected' = FALSE
          /\ executed' = [words |-> line, scripted |-> InScript]
      BY <2>2 DEF RunLine
    <3>2. executed' \in [words : Seq(Words), scripted : BOOLEAN]
      BY <1>0, <3>1 DEF TypeOK, InScript
    <3>. QED  BY <1>1, <2>00, <3>1, <3>2, RunKeeps, Fold DEF Kept
  <2>3. CASE DataLine /\ Suspend(Left, "multi")
    <3>1. /\ script' = Left /\ line' = <<>> /\ errnum' = 0 /\ mode' = "multi"
          /\ collected' \in BOOLEAN
          /\ UNCHANGED <<script_free, error_stop, heap, executed>>
      BY <2>3 DEF DataLine, Suspend
    <3>2. Owned(script', script_free', heap')
      BY <1>0, <2>0, <3>1 DEF Owned
    <3>3. ErrorStops'
      BY <3>1 DEF ErrorStops
    <3>. QED  BY <1>0, <2>00, <3>1, <3>2, <3>3, Fold DEF TypeOK
  <2>4. ASSUME NEW n \in -1 .. 1, Prompt(Left, n), line' = <<>>,
               collected' \in BOOLEAN, executed' = executed
        PROVE  IInv'
    BY <1>0, <2>0, <2>00, <2>4, PromptKeeps, Fold DEF TypeOK
  <2>5. CASE DataLine /\ ~ Suspend(Left, "multi")
    <3>1. Prompt(Left, 1) /\ line' = <<>> /\ collected' = FALSE /\ executed' = executed
      BY <2>5 DEF DataLine
    <3>. QED  BY <2>01, <2>4, <3>1
  <2>6. CASE DataEnds
    <3>1. PICK n \in {0, 1} : Prompt(Left, n)
      BY <2>6 DEF DataEnds, Outcomes
    <3>2. line' = <<>> /\ collected' = FALSE /\ executed' = executed
      BY <2>6 DEF DataEnds, Outcomes
    <3>3. n \in -1 .. 1
      OBVIOUS
    <3>. QED  BY <2>4, <3>1, <3>2, <3>3
  <2>7. CASE DataAborted
    <3>1. Prompt(Left, 1) /\ line' = <<>> /\ collected' = FALSE /\ executed' = executed
      BY <2>7 DEF DataAborted
    <3>. QED  BY <2>01, <2>4, <3>1
  <2>8. CASE Interrupt
    <3>1. Prompt(Left, 0) /\ line' = <<>> /\ collected' = collected /\ executed' = executed
      BY <2>8 DEF Interrupt
    <3>2. collected \in BOOLEAN
      BY <1>0 DEF TypeOK
    <3>. QED  BY <2>01, <2>4, <3>1, <3>2
  <2>9. CASE EndOfInput
    <3>1. /\ Prompt(Left, errnum) /\ line' = <<>>
          /\ collected' = collected /\ executed' = executed
      BY <2>9 DEF EndOfInput
    <3>2. collected \in BOOLEAN /\ errnum \in -1 .. 1
      BY <1>0 DEF TypeOK
    <3>. QED  BY <2>4, <3>1, <3>2
  <2>. QED  BY <1>1, <2>1, <2>2, <2>3, <2>5, <2>6, <2>7, <2>8, <2>9
<1>2. CASE ScriptEnds
  <2>1. /\ script' = None /\ heap' = heap \ {script_free} /\ script_free' = None
        /\ UNCHANGED <<error_stop, errnum, line, mode, collected, executed>>
    BY <1>2 DEF ScriptEnds
  <2>2. Owned(script', script_free', heap') /\ ErrorStops'
    BY <1>0, <2>1 DEF Owned, ErrorStops, InScript
  <2>. QED  BY <1>0, <2>1, <2>2, Fold DEF TypeOK
<1>3. CASE WaitInterrupted
  <2>1. errnum' = 0 /\ mode' = "shell" /\ UNCHANGED <<line, collected, executed>>
    BY <1>3 DEF WaitInterrupted
  <2>2. CASE InScript
    <3>1. SetScript(None, FALSE, FALSE, heap)
      BY <1>3, <2>2 DEF WaitInterrupted, DropScript
    <3>. QED  BY <1>0, <2>1, <3>1, NewScriptKeeps, Fold DEF TypeOK
  <2>3. CASE ~ InScript
    <3>1. UNCHANGED <<script, script_free, error_stop, heap>>
      BY <1>3, <2>3 DEF WaitInterrupted, scriptVars
    <3>2. ErrorStops'
      BY <2>1 DEF ErrorStops
    <3>3. Owned(script', script_free', heap')
      BY <1>0, <3>1
    <3>. QED  BY <1>0, <2>1, <3>1, <3>2, <3>3, Fold DEF TypeOK
  <2>. QED  BY <2>2, <2>3
<1>4. CASE WaitOver
  <2>1. PICK n \in {0, 1} : Prompt(script, n)
    BY <1>4 DEF WaitOver
  <2>2. UNCHANGED <<line, collected, executed>>
    BY <1>4 DEF WaitOver
  <2>. QED  BY <1>0, <2>1, <2>2, PromptKeeps, Fold DEF TypeOK
<1>6. CASE LoopAgain
  <2>1. LoopLoad(script) /\ UNCHANGED <<line, collected, executed>>
    BY <1>6 DEF LoopAgain
  <2>2. Same(script)
    BY <1>0 DEF Same, TypeOK
  <2>. QED  BY <1>0, <2>1, <2>2, LoopLoadKeeps, Fold DEF TypeOK, Kept
<1>5. CASE UNCHANGED vars
  BY <1>5 DEF vars, IInv, TypeOK, ScriptOwned, ErrorStops, InScript
<1>. QED  BY <1>1, <1>2, <1>3, <1>4, <1>5, <1>6 DEF Next, ShellReads

LEMMA InitIInv == Init => IInv
<1>. SUFFICES ASSUME Init PROVE IInv
  OBVIOUS
<1>1. script \in Scripts \union {None}
  BY DEF Init, Scripts
<1>2. TypeOK
  <2>1. line \in Seq(Words) /\ Len(line) <= MaxWords
    BY DEF Init
  <2>2. executed \in [words : Seq(Words), scripted : BOOLEAN]
    BY DEF Init
  <2>3. /\ script_free \in Buffers \union {None} /\ error_stop \in BOOLEAN
        /\ heap \subseteq Buffers
    BY DEF Init
  <2>5. errnum \in -1 .. 1
    BY DEF Init
  <2>4. mode \in {"shell", "wait", "loop", "multi"} /\ collected \in BOOLEAN
    BY DEF Init
  <2>. QED  BY <1>1, <2>1, <2>2, <2>3, <2>4, <2>5 DEF TypeOK
<1>3. script # None => script.buf = Static
  BY DEF Init
<1>. QED  BY <1>2, <1>3 DEF Init, IInv, ScriptOwned, ErrorStops, InScript

LEMMA Invariance == Spec => []IInv
BY InitIInv, NextIInv, PTL DEF Spec

\* The shell's script state has its types, for every set of scripts.
THEOREM TypeCorrect == Spec => []TypeOK
<1>1. IInv => TypeOK
  BY DEF IInv
<1>. QED  BY <1>1, Invariance, PTL

\* A script is read from memory that is its own for as long as it is read,
\* and that is freed once, whatever scripts replace it.
THEOREM ScriptAlwaysOwned == Spec => []ScriptOwned
<1>1. IInv => ScriptOwned
  BY DEF IInv
<1>. QED  BY <1>1, Invariance, PTL

\* Nothing of an error-stop script runs after a command of it failed, at once,
\* reading its data, or in a later turn of its loop.
THEOREM ErrorAlwaysStops == Spec => []ErrorStops
<1>1. IInv => ErrorStops
  BY DEF IInv
<1>. QED  BY <1>1, Invariance, PTL

-----------------------------------------------------------------------------
(* Where an error-stop script stands in its text.                          *)

Rest(t, i, r) ==
  /\ i \in 1 .. Len(t) + 1
  /\ Len(r) = Len(t) + 1 - i
  /\ \A k \in 1 .. Len(r) : r[k] = t[k + i - 1]

\* The line of words before place i of a text.
LineBefore(t, i, l) ==
  /\ l = <<>> <=> LineStart(t, i)
  /\ \A w \in Words : l = <<w>> <=> (i > 1 /\ LineStart(t, i - 1) /\ t[i - 1] = w)

\* What is left, the line, and who reads it, for a script of Texts: in a block of
\* data somebody reads data, unless nothing is left.
Placed(r, l, m) ==
  \E t \in Texts : \E i \in 1 .. Len(t) + 1 :
    /\ Rest(t, i, r) /\ LineBefore(t, i, l)
    /\ InBlock(t, i) /\ i <= Len(t) => m = "multi"

PlaceKnown == error_stop /\ InScript => Placed(script.rest, line, mode)

LEMMA StartPlaced ==
  ASSUME NEW t \in Texts, NEW m
  PROVE  Placed(t, <<>>, m)
<1>1. t \in Seq(Tokens)
  OBVIOUS
<1>2. Rest(t, 1, t)
  BY <1>1 DEF Rest
<1>3. LineBefore(t, 1, <<>>)
  BY DEF LineBefore, LineStart
<1>4. ~ InBlock(t, 1)
  BY DEF InBlock
<1>5. 1 \in 1 .. Len(t) + 1
  BY <1>1
<1>. QED  BY <1>2, <1>3, <1>4, <1>5 DEF Placed

LEMMA RestTail ==
  ASSUME NEW t \in Seq(Tokens), NEW r \in Seq(Tokens), r # <<>>, NEW i, Rest(t, i, r)
  PROVE  /\ i \in 1 .. Len(t) /\ t[i] = Head(r) /\ t[i] \in Tokens
         /\ Rest(t, i + 1, Tail(r))
         /\ i + 1 <= Len(t) <=> Tail(r) # <<>>
<1>1. i \in Nat /\ Len(t) \in Nat /\ Len(r) \in Nat /\ Len(r) # 0
  BY DEF Rest
<1>2. i \in 1 .. Len(t) /\ t[i] = Head(r) /\ t[i] \in Tokens
  BY <1>1 DEF Rest
<1>3. /\ Tail(r) \in Seq(Tokens) /\ Len(Tail(r)) = Len(r) - 1
      /\ \A k \in 1 .. Len(r) - 1 : Tail(r)[k] = r[k + 1]
  BY <1>1
<1>4. Rest(t, i + 1, Tail(r))
  <2>. DEFINE u == Tail(r)
              n == Len(r)
              N == Len(t)
  <2>1. /\ i \in Nat /\ n \in Nat /\ N \in Nat /\ n # 0 /\ i <= N
        /\ n = N + 1 - i /\ Len(u) = n - 1
    BY <1>1, <1>2, <1>3 DEF Rest
  <2>2. \A k \in 1 .. n : r[k] = t[k + i - 1]
    BY DEF Rest
  <2>3. \A k \in 1 .. n - 1 : u[k] = r[k + 1]
    BY <1>3
  <2>. HIDE DEF u, n, N
  <2>4. i + 1 \in 1 .. N + 1 /\ n - 1 = N + 1 - (i + 1)
    BY <2>1
  <2>5. ASSUME NEW k \in 1 .. n - 1 PROVE u[k] = t[k + (i + 1) - 1]
    <3>1. k + 1 \in 1 .. n /\ (k + 1) + i - 1 = k + (i + 1) - 1
      BY <2>1
    <3>. QED  BY <2>2, <2>3, <3>1
  <2>6. i + 1 \in 1 .. Len(t) + 1
    BY <2>4 DEF N
  <2>7. Len(u) = Len(t) + 1 - (i + 1)
    BY <2>1, <2>4 DEF N
  <2>8. \A k \in 1 .. Len(u) : u[k] = t[k + (i + 1) - 1]
    BY <2>1, <2>5
  <2>9. Rest(t, i + 1, u)
    BY <2>6, <2>7, <2>8, Zenon DEF Rest
  <2>. QED  BY <2>9 DEF u
<1>5. Tail(r) # <<>> <=> Len(Tail(r)) # 0
  <2>. DEFINE u == Tail(r)
  <2>1. u \in Seq(Tokens)
    BY <1>3
  <2>. HIDE DEF u
  <2>2. u # <<>> <=> Len(u) # 0
    BY <2>1
  <2>. QED  BY <2>2 DEF u
<1>6. Len(r) = Len(t) + 1 - i
  BY DEF Rest
<1>7. i + 1 <= Len(t) <=> Len(Tail(r)) # 0
  <2>1. Len(Tail(r)) = Len(t) - i
    BY <1>1, <1>3, <1>6
  <2>2. i \in Nat /\ Len(t) \in Nat /\ i <= Len(t)
    BY <1>1, <1>2
  <2>. DEFINE n == Len(t)
              m == Len(Tail(r))
  <2>3. m = n - i /\ i \in Nat /\ n \in Nat /\ i <= n
    BY <2>1, <2>2
  <2>. HIDE DEF n, m
  <2>4. i + 1 <= n <=> m # 0
    BY <2>3
  <2>. QED  BY <2>4 DEF n, m
<1>. QED  BY <1>2, <1>4, <1>5, <1>7

\* A line that a block of data needs, read up to its end.
LEMMA BlockGrows ==
  ASSUME NEW t \in Seq(Tokens), NEW i \in 1 .. Len(t), NEW l, LineBefore(t, i, l),
         InBlock(t, i + 1)
  PROVE  \/ t[i] = "nl" /\ l = <<"multi">>
         \/ InBlock(t, i) /\ t[i] = "data"
         \/ InBlock(t, i) /\ t[i] = "nl" /\ l # <<>>
<1>1. PICK j \in 1 .. i - 1 :
        /\ LineStart(t, j) /\ t[j] = "multi" /\ t[j + 1] = "nl"
        /\ \A k \in j + 2 .. i : t[k] = "data" \/ (t[k] = "nl" /\ t[k - 1] = "data")
  BY DEF InBlock
<1>2. CASE j = i - 1
  BY <1>1, <1>2 DEF LineBefore, Words
<1>3. CASE j # i - 1
  <2>1. j \in 1 .. i - 2 /\ i \in j + 2 .. i
    BY <1>3
  <2>2. InBlock(t, i)
    BY <1>1, <2>1 DEF InBlock
  <2>3. CASE t[i] = "data"
    BY <2>2, <2>3
  <2>4. CASE t[i] = "nl" /\ t[i - 1] = "data"
    <3>1. ~ LineStart(t, i)
      BY <2>1, <2>4 DEF LineStart, Enders, Words
    <3>. QED  BY <2>2, <2>4, <3>1 DEF LineBefore
  <2>. QED  BY <1>1, <2>1, <2>3, <2>4
<1>. QED  BY <1>2, <1>3

LEMMA LineGrows ==
  ASSUME NEW t \in Seq(Tokens), NEW i \in 1 .. Len(t), NEW l \in Seq(Words),
         LineBefore(t, i, l)
  PROVE  /\ t[i] \in Words => LineBefore(t, i + 1, Append(l, t[i]))
         /\ t[i] \in Enders => LineBefore(t, i + 1, <<>>)
<1>1. ASSUME t[i] \in Words PROVE LineBefore(t, i + 1, Append(l, t[i]))
  <2>1. Append(l, t[i]) # <<>> /\ ~ LineStart(t, i + 1)
    BY <1>1 DEF LineStart, Enders
  <2>2. \A w \in Words : Append(l, t[i]) = <<w>> <=> l = <<>> /\ t[i] = w
    <3>1. l = <<>> => Append(l, t[i]) = <<t[i]>>
      OBVIOUS
    <3>2. ASSUME NEW w \in Words, Append(l, t[i]) = <<w>> PROVE l = <<>> /\ t[i] = w
      <4>1. Len(Append(l, t[i])) = Len(l) + 1 /\ Append(l, t[i])[Len(l) + 1] = t[i]
        BY <1>1
      <4>2. Len(<<w>>) = 1 /\ <<w>>[1] = w
        OBVIOUS
      <4>3. Len(l) = 0 /\ t[i] = w
        BY <3>2, <4>1, <4>2
      <4>. QED  BY <4>3
    <3>. QED  BY <3>1, <3>2
  <2>. QED  BY <2>1, <2>2 DEF LineBefore
<1>2. ASSUME t[i] \in Enders PROVE LineBefore(t, i + 1, <<>>)
  BY <1>2 DEF LineBefore, LineStart, Enders
<1>. QED  BY <1>1, <1>2

\* One token on.
LEMMA PlacedNext ==
  ASSUME NEW r \in Seq(Tokens), r # <<>>, NEW l \in Seq(Words), NEW m, NEW l2, NEW m2,
         Placed(r, l, m),
         \/ Head(r) \in Words /\ l2 = Append(l, Head(r)) /\ m2 = m
         \/ /\ Head(r) \in Enders /\ l2 = <<>>
            /\ Head(r) = "nl" /\ (l = <<"multi">> \/ (m = "multi" /\ l # <<>>))
                 => m2 = "multi" \/ Tail(r) = <<>>
  PROVE  Placed(Tail(r), l2, m2)
<1>1. PICK t \in Texts : \E i \in 1 .. Len(t) + 1 :
        /\ Rest(t, i, r) /\ LineBefore(t, i, l)
        /\ InBlock(t, i) /\ i <= Len(t) => m = "multi"
  BY DEF Placed
<1>2. PICK i \in 1 .. Len(t) + 1 :
        /\ Rest(t, i, r) /\ LineBefore(t, i, l)
        /\ InBlock(t, i) /\ i <= Len(t) => m = "multi"
  BY <1>1
<1>3. t \in Seq(Tokens)
  OBVIOUS
<1>4. /\ i \in 1 .. Len(t) /\ t[i] = Head(r)
      /\ Rest(t, i + 1, Tail(r)) /\ (i + 1 <= Len(t) <=> Tail(r) # <<>>)
  BY <1>2, <1>3, RestTail
<1>5. LineBefore(t, i + 1, l2)
  BY <1>2, <1>3, <1>4, LineGrows DEF Enders
<1>6. InBlock(t, i + 1) /\ i + 1 <= Len(t) => m2 = "multi"
  <2>. SUFFICES ASSUME InBlock(t, i + 1), Tail(r) # <<>> PROVE m2 = "multi"
    BY <1>4
  <2>1. \/ t[i] = "nl" /\ l = <<"multi">>
        \/ InBlock(t, i) /\ t[i] = "data"
        \/ InBlock(t, i) /\ t[i] = "nl" /\ l # <<>>
    BY <1>2, <1>3, <1>4, BlockGrows
  <2>2. InBlock(t, i) => m = "multi"
    BY <1>2, <1>4
  <2>3. "nl" \notin Words /\ "data" \notin Enders
    BY DEF Words, Enders
  <2>. QED  BY <1>4, <2>1, <2>2, <2>3
<1>7. i + 1 \in 1 .. Len(t) + 1
  BY <1>3, <1>4
<1>. QED  BY <1>4, <1>5, <1>6, <1>7 DEF Placed

\* A line of data ends only where data are read.
LEMMA DataIsRead ==
  ASSUME DataInBlocks, NEW r \in Seq(Tokens), r # <<>>, Head(r) = "nl", NEW m,
         Placed(r, <<"data">>, m)
  PROVE  m = "multi"
<1>1. PICK t \in Texts : \E i \in 1 .. Len(t) + 1 :
        /\ Rest(t, i, r) /\ LineBefore(t, i, <<"data">>)
        /\ InBlock(t, i) /\ i <= Len(t) => m = "multi"
  BY DEF Placed
<1>2. PICK i \in 1 .. Len(t) + 1 :
        /\ Rest(t, i, r) /\ LineBefore(t, i, <<"data">>)
        /\ InBlock(t, i) /\ i <= Len(t) => m = "multi"
  BY <1>1
<1>3. t \in Seq(Tokens)
  OBVIOUS
<1>4. i \in 1 .. Len(t) /\ t[i] = "nl"
  BY <1>2, <1>3, RestTail
<1>5. i > 1 /\ LineStart(t, i - 1) /\ t[i - 1] = "data"
  BY <1>2 DEF LineBefore, Words
<1>6. InBlock(t, i - 1)
  <2>1. i - 1 \in 1 .. Len(t) - 1 /\ (i - 1) + 1 = i
    BY <1>3, <1>4, <1>5
  <2>. QED  BY <1>4, <1>5, <2>1 DEF DataInBlocks
<1>7. PICK j \in 1 .. i - 3 :
        /\ LineStart(t, j) /\ t[j] = "multi" /\ t[j + 1] = "nl"
        /\ \A k \in j + 2 .. i - 2 : t[k] = "data" \/ (t[k] = "nl" /\ t[k - 1] = "data")
  BY <1>4, <1>6 DEF InBlock
<1>8. InBlock(t, i)
  BY <1>4, <1>5, <1>7 DEF InBlock
<1>. QED  BY <1>2, <1>4, <1>8

\* What a prompt leaves of an error-stop script.
LEMMA PromptPlaces ==
  ASSUME NEW s, NEW n, Prompt(s, n), error_stop', InScript'
  PROVE  /\ script' = s /\ s # None /\ error_stop /\ mode' = "shell"
         /\ n = 0 \/ s.rest = <<>>
BY DEF Prompt, DropScript, SetScript, InScript

LEMMA LeftRest ==
  ASSUME TypeOK, InScript, script.rest # <<>>
  PROVE  Left.rest = Tail(script.rest) /\ script.rest \in Seq(Tokens) /\ Left # None
<1>1. script \in Scripts
  BY DEF TypeOK, InScript
<1>2. Left = [buf |-> script.buf, rest |-> Tail(script.rest)]
  BY <1>1 DEF Left, Scripts
<1>3. Left \in Scripts
  BY <1>1, <1>2 DEF Scripts
<1>. QED  BY <1>1, <1>2, <1>3 DEF Scripts

\* A line that was run: the script goes on, or another begins.
LEMMA RunPlaces ==
  ASSUME IInv, PlaceKnown, ReadChar("nl"), RunLine, error_stop', InScript'
  PROVE  Placed(script'.rest, line', mode')
<1>0. Run /\ line' = <<>> /\ mode = "shell" /\ TypeOK
  BY DEF RunLine, IInv
<1>1. ASSUME script' = Left, error_stop, mode' = "multi" \/ line # <<"multi">> \/ Left.rest = <<>>
      PROVE  Placed(script'.rest, line', mode')
  <2>1. InScript
    BY <1>1 DEF InScript, Left
  <2>2. script.rest # <<>> /\ Head(script.rest) = "nl"
    BY <2>1 DEF ReadChar
  <2>3. Left.rest = Tail(script.rest) /\ script.rest \in Seq(Tokens)
    BY <1>0, <2>1, <2>2, LeftRest
  <2>4. Placed(script.rest, line, mode) /\ line \in Seq(Words)
    BY <1>0, <1>1, <2>1 DEF PlaceKnown, TypeOK
  <2>5. "nl" \in Enders /\ mode # "multi"
    BY <1>0 DEF Enders, Tokens, Words
  <2>. QED  BY <1>0, <1>1, <2>2, <2>3, <2>4, <2>5, PlacedNext
<1>2. ASSUME NEW x \in Texts, NEW b, NEW need, NEW stop, NEW held,
             SetScript([buf |-> b, rest |-> x], need, stop, held)
      PROVE  Placed(script'.rest, line', mode')
  <2>1. script'.rest = x
    BY <1>2 DEF SetScript
  <2>. QED  BY <1>0, <2>1, StartPlaced
<1>3. ASSUME NEW n, Prompt(Left, n), n = 0 => line # <<"multi">>
      PROVE  Placed(script'.rest, line', mode')
  BY <1>1, <1>3, PromptPlaces
<1>4. ASSUME NEW m, Suspend(Left, m), m = "multi" \/ line # <<"multi">>
      PROVE  Placed(script'.rest, line', mode')
  BY <1>1, <1>4 DEF Suspend
<1>5. <<"multi">> \notin Quiet /\ \A w : w # "multi" => <<w>> # <<"multi">>
  BY DEF Quiet
<1>6. ASSUME NEW stop, Load(Left, stop) \/ Loaded(stop), line # <<"multi">>
      PROVE  Placed(script'.rest, line', mode')
  BY <1>2, <1>3, <1>6 DEF Load, Loaded
<1>7. CASE Boot
  BY <1>2, <1>7 DEF Boot
<1>8. ~ Stop
  BY DEF Stop, DropScript, SetScript
<1>9. CASE line \in Quiet /\ Prompt(Left, 0)
  BY <1>3, <1>5, <1>9
<1>10. CASE Prompt(Left, 1) \/ Prompt(Left, -1)
  BY <1>3, <1>10
<1>11. CASE (line = <<"load">> /\ Load(Left, FALSE)) \/ (line = <<"loade">> /\ Load(Left, TRUE))
  BY <1>5, <1>6, <1>11
<1>12. CASE (line = <<"wait">> /\ Suspend(Left, "wait")) \/ Suspend(Left, "multi")
  BY <1>4, <1>5, <1>12
<1>13. CASE line = <<"loop">> /\ LoopLoad(Left)
  BY <1>4, <1>5, <1>6, <1>13 DEF LoopLoad
<1>. QED  BY <1>0, <1>7, <1>8, <1>9, <1>10, <1>11, <1>12, <1>13 DEF Run

\* Who waits has taken its line.
LineTaken == Waiting => line = <<>>

LEMMA NextLineTaken == LineTaken /\ [Next]_vars => LineTaken'
<1>. SUFFICES ASSUME LineTaken, [Next]_vars PROVE LineTaken'
  OBVIOUS
<1>1. CASE ShellReads
  <2>1. (\E t \in Words : Word(t)) => UNCHANGED mode /\ ~ Waiting
    BY DEF Word
  <2>2. RunLine \/ DataLine \/ DataEnds \/ DataAborted \/ Interrupt \/ EndOfInput => line' = <<>>
    BY DEF RunLine, DataLine, DataEnds, DataAborted, Interrupt, EndOfInput
  <2>. QED  BY <1>1, <2>1, <2>2 DEF ShellReads, LineTaken, Waiting
<1>2. CASE ScriptEnds \/ UNCHANGED vars
  BY <1>2 DEF ScriptEnds, vars, LineTaken, Waiting
<1>3. CASE WaitInterrupted \/ WaitOver
  BY <1>3 DEF WaitInterrupted, WaitOver, Prompt, LineTaken, Waiting
<1>4. CASE LoopAgain
  BY <1>4 DEF LoopAgain, LineTaken, Waiting
<1>. QED  BY <1>1, <1>2, <1>3, <1>4 DEF Next

LEMMA NextPlaceKnown == IInv /\ LineTaken /\ PlaceKnown /\ [Next]_vars => PlaceKnown'
<1>. SUFFICES ASSUME IInv, LineTaken, PlaceKnown, [Next]_vars, error_stop', InScript'
              PROVE  Placed(script'.rest, line', mode')
  BY DEF PlaceKnown
<1>0. TypeOK
  BY DEF IInv
<1>1. ASSUME NEW t \in Tokens, ReadChar(t),
             \/ t \in Words /\ Word(t)
             \/ t = "nl" /\ (RunLine \/ DataLine \/ (line = <<>> /\ DataEnds))
             \/ t = "eof" /\ (EndOfInput \/ DataEnds)
             \/ t = "int" /\ (Interrupt \/ DataAborted)
      PROVE  Placed(script'.rest, line', mode')
  <2>1. CASE t = "nl" /\ RunLine
    BY <1>1, <2>1, RunPlaces
  <2>2. ASSUME script' = Left, error_stop,
               \/ t \in Words /\ line' = Append(line, t) /\ mode' = mode
               \/ t \in Enders /\ line' = <<>> /\ t # "nl"
               \/ t \in Enders /\ line' = <<>> /\ line = <<>>
               \/ t \in Enders /\ line' = <<>> /\ (mode' = "multi" \/ Left.rest = <<>>)
        PROVE  Placed(script'.rest, line', mode')
    <3>1. InScript
      BY <2>2 DEF InScript, Left
    <3>2. script.rest # <<>> /\ Head(script.rest) = t
      BY <1>1, <3>1 DEF ReadChar
    <3>3. Left.rest = Tail(script.rest) /\ script.rest \in Seq(Tokens)
      BY <1>0, <3>1, <3>2, LeftRest
    <3>4. Placed(script.rest, line, mode) /\ line \in Seq(Words)
      BY <1>0, <2>2, <3>1 DEF PlaceKnown, TypeOK
    <3>5. line = <<>> => line # <<"multi">>
      OBVIOUS
    <3>. QED  BY <2>2, <3>2, <3>3, <3>4, <3>5, PlacedNext
  <2>3. "nl" \in Enders /\ "eof" \in Enders /\ "int" \in Enders
    BY DEF Enders, Tokens, Words
  <2>4. CASE t \in Words /\ Word(t)
    BY <2>2, <2>4 DEF Word
  <2>5. CASE t = "nl" /\ DataLine
    <3>1. line' = <<>>
      BY <2>5 DEF DataLine
    <3>2. CASE Suspend(Left, "multi")
      BY <2>2, <2>3, <2>5, <3>1, <3>2 DEF Suspend
    <3>3. CASE Prompt(Left, 1)
      BY <2>2, <2>3, <2>5, <3>1, <3>3, PromptPlaces
    <3>. QED  BY <2>5, <3>2, <3>3 DEF DataLine
  <2>6. ASSUME NEW n, Prompt(Left, n), line' = <<>>, t \in Enders, t # "nl" \/ line = <<>>
        PROVE  Placed(script'.rest, line', mode')
    BY <2>2, <2>6, PromptPlaces
  <2>7. CASE DataEnds /\ (t = "eof" \/ (t = "nl" /\ line = <<>>))
    BY <2>3, <2>6, <2>7 DEF DataEnds
  <2>8. CASE t = "eof" /\ EndOfInput
    BY <2>3, <2>6, <2>8 DEF EndOfInput
  <2>9. CASE t = "int" /\ Interrupt
    BY <2>3, <2>6, <2>9 DEF Interrupt
  <2>10. CASE t = "int" /\ DataAborted
    BY <2>3, <2>6, <2>10 DEF DataAborted
  <2>. QED  BY <1>1, <2>1, <2>4, <2>5, <2>7, <2>8, <2>9, <2>10, Zenon
<1>2. ~ ScriptEnds
  BY DEF ScriptEnds, InScript
<1>3. ASSUME script' = script, error_stop, line' = line,
             mode' = mode \/ Waiting
      PROVE  Placed(script'.rest, line', mode')
  <2>1. Placed(script.rest, line, mode)
    BY <1>3 DEF PlaceKnown, InScript
  <2>2. Waiting => mode # "multi"
    BY DEF Waiting
  <2>. QED  BY <1>3, <2>1, <2>2 DEF Placed
<1>4. CASE WaitInterrupted
  <2>1. ~ InScript /\ UNCHANGED scriptVars
    BY <1>4 DEF WaitInterrupted, DropScript, SetScript
  <2>. QED  BY <2>1 DEF scriptVars, InScript
<1>5. CASE WaitOver
  BY <1>3, <1>5, PromptPlaces DEF WaitOver, Waiting
<1>7. CASE LoopAgain
  <2>1. LoopLoad(script) /\ line' = line /\ Waiting
    BY <1>7 DEF LoopAgain, Waiting
  <2>2. ASSUME NEW n, Prompt(script, n) PROVE Placed(script'.rest, line', mode')
    BY <1>3, <2>1, <2>2, PromptPlaces
  <2>3. ASSUME Suspend(script, "loop") PROVE Placed(script'.rest, line', mode')
    BY <1>3, <2>1, <2>3 DEF Suspend
  <2>4. ASSUME NEW stop, Loaded(stop) PROVE Placed(script'.rest, line', mode')
    <3>1. PICK x \in Texts : script'.rest = x
      BY <2>4 DEF Loaded, SetScript
    <3>2. line = <<>>
      BY <2>1 DEF LineTaken
    <3>. QED  BY <2>1, <3>1, <3>2, StartPlaced
  <2>. QED  BY <2>1, <2>2, <2>3, <2>4 DEF LoopLoad, Load
<1>6. CASE UNCHANGED vars
  BY <1>3, <1>6 DEF vars
<1>. QED  BY <1>1, <1>2, <1>4, <1>5, <1>6, <1>7 DEF Next, ShellReads

\* Only a line at the prompt is run as a command.
LEMMA OnlyRunLineRuns ==
  ASSUME [Next]_vars, executed' # executed
  PROVE  RunLine /\ ReadChar("nl")
<1>1. CASE ShellReads
  BY <1>1 DEF ShellReads, Word, DataLine, DataEnds, DataAborted, Interrupt, EndOfInput
<1>2. ~ (ScriptEnds \/ WaitInterrupted \/ WaitOver \/ LoopAgain \/ UNCHANGED vars)
  BY DEF ScriptEnds, WaitInterrupted, WaitOver, LoopAgain, vars
<1>. QED  BY <1>1, <1>2 DEF Next

\* In every set of scripts whose lines of data follow a command that reads them, and
\* whatever fails: an error-stop script never runs its data as commands.
THEOREM DataNeverRun == DataInBlocks => (Spec => DataNeverRuns)
<1>. SUFFICES ASSUME DataInBlocks PROVE Spec => DataNeverRuns
  OBVIOUS
<1>1. Init => PlaceKnown /\ LineTaken
  BY DEF Init, PlaceKnown, LineTaken, Waiting
<1>2. ASSUME IInv, PlaceKnown, [Next]_vars,
             executed'.words = <<"data">>, executed'.scripted, executed' # executed
      PROVE  ~ error_stop
  <2>. SUFFICES ASSUME error_stop PROVE FALSE
    OBVIOUS
  <2>1. RunLine /\ ReadChar("nl")
    BY <1>2, OnlyRunLineRuns
  <2>2. line = <<"data">> /\ InScript /\ mode = "shell"
    BY <1>2, <2>1 DEF RunLine
  <2>3. script.rest # <<>> /\ Head(script.rest) = "nl" /\ script.rest \in Seq(Tokens)
    BY <1>2, <2>1, <2>2, LeftRest DEF ReadChar, IInv
  <2>4. Placed(script.rest, <<"data">>, mode)
    BY <1>2, <2>2 DEF PlaceKnown
  <2>. QED  BY <2>2, <2>3, <2>4, DataIsRead
<1>3. IInv /\ PlaceKnown /\ [Next]_vars =>
        [executed'.words = <<"data">> /\ executed'.scripted /\ executed' # executed
           => ~ error_stop]_vars
  BY <1>2
<1>. QED  BY <1>1, <1>3, NextLineTaken, NextPlaceKnown, Invariance, PTL DEF Spec, DataNeverRuns

=============================================================================
