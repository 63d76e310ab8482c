------------------------ MODULE Applications_proofs ------------------------
(* Proofs of the safety of the two applications: the bootloader, for any   *)
(* programs, sizes of the areas and sectors; and the Modbus/TCP server,    *)
(* for any numbers of connections, records, slots, retries and errors, and *)
(* any sizes of the queues, the monitor's no longer than its driver        *)
(* allows.                                                                 *)
EXTENDS Bootloader, ModbusTcp, WellFoundedInduction, TLAPS

-----------------------------------------------------------------------------
(* The bootloader: the inductive invariant.                                *)

Requested == Asked /\ Matches

\* While the bootloader erases and programs, flag and source stay as they
\* were checked, what it has programmed is right, and the rest is erased.
Erasing ==
  /\ Requested
  /\ addr \in AppArea
  /\ \A a \in AppArea : a < addr => app[a] = Erased

Copying ==
  /\ Requested
  /\ addr <= limit /\ limit <= flag["size"]
  /\ flag["op"] = "iflash" => limit = flag["size"]
  /\ \A a \in AppArea : app[a] = IF a < addr THEN flag["md5"] ELSE Erased

Work ==
  /\ pc = "check" => Asked
  /\ pc = "erase" => Erasing
  /\ pc = "copy" => Copying
  /\ pc = "clear" => Whole \/ misread = "copy"
  /\ pc \in {"start", "app"} => Whole \/ misread # "no"

IInv == TypeOK /\ Work /\ Recoverable

-----------------------------------------------------------------------------
(* Lemmas.                                                                 *)

\* What an operation that fails leaves.
LEMMA DamagedWords ==
  ASSUME NEW area, NEW S, NEW area2 \in Damaged(area, S)
  PROVE  /\ DOMAIN area2 = DOMAIN area
         /\ area2 = [a \in DOMAIN area |-> area2[a]]
         /\ \A a \in DOMAIN area : area2[a] \in {area[a], Erased, Garbage}
BY DEF Damaged

LEMMA DamagedType ==
  ASSUME NEW D, NEW area \in [D -> Words], NEW S, NEW area2 \in Damaged(area, S)
  PROVE  area2 \in [D -> Words]
<1>1. DOMAIN area = D OBVIOUS
<1>2. area2 = [a \in D |-> area2[a]] BY <1>1, DamagedWords
<1>3. \A a \in D : area2[a] \in {area[a], Erased, Garbage} BY <1>1, DamagedWords
<1> QED BY <1>2, <1>3 DEF Words

LEMMA ProgrammedType ==
  ASSUME NEW D, NEW area \in [D -> Words], NEW a \in D, NEW w \in Words
  PROVE  Programmed(area, a, w) \in [D -> Words]
BY DEF Programmed, Words

\* What was asked for does not depend on the application.
LEMMA RequestKept ==
  ASSUME UNCHANGED <<upg, flag, file>>
  PROVE  Asked' = Asked /\ Matches' = Matches
BY DEF Asked, SizeOK, Matches, Holds

LEMMA WholeKept ==
  ASSUME UNCHANGED app
  PROVE  Whole' = Whole
BY DEF Whole, Holds

LEMMA SizeInApp ==
  ASSUME NEW img \in Images
  PROVE  Size[img] \in 1 .. AppWords /\ Size[img] \in Nat /\ Size[img] <= UpWords
BY BootloaderAssumption

-----------------------------------------------------------------------------
(* Types, in the parts that change together.                               *)

FlashTyped ==
  /\ app \in [AppArea -> Words]
  /\ upg \in [UpArea -> Words]
  /\ file \in Images \union {None}

FlagTyped ==
  /\ DOMAIN flag = Fields
  /\ \A f \in Fields : flag[f] \in FieldValues(f) \union {Erased}

BootTyped ==
  /\ pc \in {"app", "boot", "check", "erase", "copy", "clear", "start", "halt"}
  /\ addr \in 0 .. AppWords
  /\ limit \in 0 .. AppWords
  /\ misread \in {"no", "check", "copy"}
  /\ settled \in BOOLEAN

LEMMA Typed == TypeOK <=> FlashTyped /\ FlagTyped /\ BootTyped
BY Zenon DEF TypeOK, FlashTyped, FlagTyped, BootTyped

LEMMA TypedNext == TypeOK' <=> FlashTyped' /\ FlagTyped' /\ BootTyped'
BY Zenon DEF TypeOK, FlashTyped, FlagTyped, BootTyped

LEMMA FlagDamaged ==
  ASSUME FlagTyped, NEW S, flag' \in Damaged(flag, S)
  PROVE  FlagTyped'
<1>1. /\ DOMAIN flag' = Fields
      /\ \A f \in Fields : flag'[f] \in {flag[f], Erased, Garbage}
  BY DamagedWords DEF FlagTyped
<1>2. \A f \in Fields : Garbage \in FieldValues(f)
  BY DEF Fields, FieldValues
<1> QED BY <1>1, <1>2 DEF FlagTyped

LEMMA FlagProgrammed ==
  ASSUME FlagTyped, NEW f \in Fields, NEW w \in FieldValues(f),
         flag' = Programmed(flag, f, w)
  PROVE  FlagTyped'
<1>1. \A g \in Fields : Garbage \in FieldValues(g)
  BY DEF Fields, FieldValues
<1> QED BY <1>1 DEF FlagTyped, Programmed

LEMMA FlagErased ==
  ASSUME flag' = [f \in Fields |-> Erased]
  PROVE  FlagTyped'
BY DEF FlagTyped

-----------------------------------------------------------------------------
(* The steps.                                                              *)

LEMMA InitInv == Init => IInv
<1> SUFFICES ASSUME Init PROVE IInv OBVIOUS
<1>1. PICK img \in Images :
        app = [a \in AppArea |-> IF a < Size[img] THEN img ELSE Erased]
  BY DEF Init
<1>2. FlashTyped BY <1>1 DEF Init, Words, FlashTyped
<1>3. Holds(app, img)
  BY <1>1, SizeInApp, BootloaderAssumption DEF Holds, AppArea
<1>4. Whole BY <1>3 DEF Whole
<1>5. FlagTyped BY DEF Init, FlagTyped
<1>6. 0 \in 0 .. AppWords BY BootloaderAssumption
<1>7. BootTyped BY <1>6 DEF Init, BootTyped
<1> QED BY <1>2, <1>4, <1>5, <1>7, Typed DEF Init, IInv, Work, Recoverable

\* The host's commands run in a whole program, and leave it.
LEMMA HostInv == IInv /\ Host => IInv'
<1> SUFFICES ASSUME IInv, Host PROVE IInv' OBVIOUS
<1>1. Whole /\ pc = "app" /\ UNCHANGED <<app, bootVars, settled>>
  BY DEF Host, Running, UpgradeErase, UpgradeProgram, FlagErase, FlagProgram,
         WriteFile
<1>2. Whole' BY <1>1, WholeKept
<1>3. FlashTyped /\ FlagTyped /\ BootTyped BY Typed DEF IInv
<1>4. BootTyped' BY <1>1, <1>3 DEF BootTyped, bootVars
<1>5. FlashTyped' /\ FlagTyped'
  <2>1. CASE UpgradeErase
    <3>1. upg' \in [UpArea -> Words]
      BY <1>3, <2>1, DamagedType DEF UpgradeErase, Words, FlashTyped
    <3> QED BY <3>1, <1>1, <1>3, <2>1 DEF UpgradeErase, FlashTyped, FlagTyped
  <2>2. CASE UpgradeProgram
    <3>1. PICK a \in UpArea, w \in Offered \union {Garbage} :
            Programs(upg, upg', a, w)
      BY <2>2 DEF UpgradeProgram
    <3>2. upg \in [UpArea -> Words] /\ w \in Words
      BY <1>3, BootloaderAssumption DEF FlashTyped, Words
    <3>3. upg' \in [UpArea -> Words]
      BY <3>1, <3>2, DamagedType, ProgrammedType DEF Programs
    <3> QED BY <3>3, <1>1, <1>3, <2>2 DEF UpgradeProgram, FlashTyped, FlagTyped
  <2>3. CASE FlagErase
    <3>1. FlagTyped'
      BY <1>3, <2>3, FlagDamaged, FlagErased DEF FlagErase
    <3> QED BY <3>1, <1>1, <1>3, <2>3 DEF FlagErase, FlashTyped
  <2>4. CASE FlagProgram
    <3>1. PICK f \in Fields : \E w \in FieldValues(f) : Programs(flag, flag', f, w)
      BY <2>4 DEF FlagProgram
    <3>2. FlagTyped'
      BY <3>1, <1>3, FlagDamaged, FlagProgrammed DEF Programs
    <3> QED BY <3>2, <1>1, <1>3, <2>4 DEF FlagProgram, FlashTyped
  <2>5. CASE WriteFile
    BY <1>1, <1>3, <2>5, BootloaderAssumption DEF WriteFile, FlashTyped, FlagTyped
  <2> QED BY <2>1, <2>2, <2>3, <2>4, <2>5 DEF Host
<1> QED
  BY <1>1, <1>2, <1>4, <1>5, TypedNext DEF IInv, Work, Recoverable, bootVars

\* Steps that leave the flash alone.
LEMMA QuietInv ==
  IInv /\ (Boot \/ Check \/ CheckFails \/ CheckMisreads \/ Start \/ Reset \/ PowerFails)
    => IInv'
<1> SUFFICES ASSUME IInv,
                    \/ Boot \/ Check \/ CheckFails \/ CheckMisreads
                    \/ Start \/ Reset \/ PowerFails
             PROVE  IInv'
  OBVIOUS
<1>1. UNCHANGED <<app, upg, flag, file>>
  BY DEF Boot, Check, CheckFails, CheckMisreads, Start, Reset, PowerFails, Restarts
<1>2. Whole' = Whole /\ Asked' = Asked /\ Matches' = Matches
  BY <1>1, WholeKept, RequestKept
<1>3. FlashTyped /\ FlagTyped /\ BootTyped BY Typed DEF IInv
<1>4. FlashTyped' /\ FlagTyped' BY <1>1, <1>3 DEF FlashTyped, FlagTyped
<1>5. 0 \in 0 .. AppWords BY BootloaderAssumption
<1>6. BootTyped' /\ Work' /\ Recoverable'
  <2>1. Work /\ Recoverable BY DEF IInv
  <2>2. CASE Boot
    BY <1>2, <1>3, <2>1, <2>2 DEF Boot, BootTyped, Work, Recoverable
  <2>3. CASE Check
    <3>1. addr' = 0 /\ Requested' /\ 0 \in AppArea
      BY <1>2, <2>1, <2>3, BootloaderAssumption DEF Check, Work, Requested, AppArea
    <3>2. Erasing' BY <3>1 DEF Erasing, AppArea
    <3> QED BY <1>2, <1>3, <1>5, <2>1, <2>3, <3>2 DEF Check, BootTyped, Work, Recoverable
  <2>4. CASE CheckFails
    BY <1>2, <1>3, <2>1, <2>4 DEF CheckFails, BootTyped, Work, Recoverable
  <2>5. CASE CheckMisreads
    BY <1>2, <1>3, <2>1, <2>5 DEF CheckMisreads, BootTyped, Work, Recoverable
  <2>6. CASE Start
    BY <1>2, <1>3, <2>1, <2>6 DEF Start, BootTyped, Work, Recoverable
  <2>7. CASE Reset
    BY <1>2, <1>3, <1>5, <2>1, <2>7 DEF Reset, Restarts, BootTyped, Work, Recoverable
  <2>8. CASE PowerFails
    BY <1>2, <1>3, <1>5, <2>1, <2>8 DEF PowerFails, Restarts, BootTyped, Work, Recoverable
  <2> QED BY <2>2, <2>3, <2>4, <2>5, <2>6, <2>7, <2>8
<1> QED BY <1>4, <1>6, TypedNext DEF IInv

LEMMA FlagUse ==
  ASSUME FlagTyped, Requested
  PROVE  /\ flag["md5"] \in Images
         /\ flag["size"] = Size[flag["md5"]]
         /\ flag["size"] \in 1 .. AppWords
         /\ flag["op"] = "iflash" => \A a \in 0 .. flag["size"] - 1 : upg[a] = flag["md5"]
         /\ flag["op"] # "iflash" => file = flag["md5"] /\ flag["op"] = "spiffs"
<1>1. flag["md5"] \in Images /\ flag["size"] = Size[flag["md5"]]
  BY DEF Requested, Matches
<1> QED BY <1>1, SizeInApp DEF Requested, Matches, Asked, Holds

\* Steps on the application, one by one.
LEMMA EraseInv == IInv /\ Erase => IInv'
<1> SUFFICES ASSUME IInv, Erase PROVE IInv' OBVIOUS
<1> DEFINE next == addr + SectorWords[addr]
<1>0. /\ pc = "erase" /\ UNCHANGED <<upg, flag, file, misread, settled>>
      /\ app' = [a \in AppArea |-> IF a \in Sector(addr) THEN Erased ELSE app[a]]
  BY DEF Erase
<1>1. FlashTyped /\ FlagTyped /\ BootTyped /\ Erasing BY <1>0, Typed DEF IInv, Work
<1>2. Requested' /\ Requested BY <1>0, <1>1, RequestKept DEF Requested, Erasing
<1>3. FlashTyped' /\ FlagTyped' BY <1>0, <1>1 DEF FlashTyped, FlagTyped, Words
<1>4. addr \in Nat /\ addr < AppWords /\ SectorWords[addr] \in Nat \ {0} /\ AppWords \in Nat
  BY <1>1, BootloaderAssumption DEF Erasing, AppArea
<1>5. \A a \in AppArea : a < next => app'[a] = Erased
  BY <1>0, <1>1, <1>4 DEF Erasing, Sector, AppArea
<1>6. CASE next < AppWords
  <2>1. pc' = pc /\ addr' = next /\ limit' = limit BY <1>6 DEF Erase
  <2>2. BootTyped' BY <1>0, <1>1, <1>4, <1>6, <2>1 DEF BootTyped
  <2>3. Erasing' BY <1>2, <1>4, <1>5, <1>6, <2>1 DEF Erasing, AppArea
  <2> QED BY <1>0, <1>2, <1>3, <2>1, <2>2, <2>3, TypedNext
          DEF IInv, Work, Recoverable, Requested
<1>7. CASE ~ next < AppWords
  <2>1. /\ pc' = "copy" /\ addr' = 0
        /\ limit' = IF flag["op"] = "iflash" THEN flag["size"] ELSE 0
    BY <1>7 DEF Erase
  <2>2. flag["size"] \in 1 .. AppWords BY <1>1, <1>2, FlagUse
  <2>3. BootTyped' BY <1>0, <1>1, <1>4, <2>1, <2>2 DEF BootTyped
  <2>4. \A a \in AppArea : app'[a] = Erased BY <1>4, <1>5, <1>7 DEF AppArea
  <2>5. Copying' BY <1>0, <1>2, <2>1, <2>2, <2>4 DEF Copying, AppArea
  <2> QED BY <1>0, <1>2, <1>3, <2>1, <2>3, <2>5, TypedNext
          DEF IInv, Work, Recoverable, Requested
<1> QED BY <1>6, <1>7

LEMMA CopyInv == IInv /\ Copy => IInv'
<1> SUFFICES ASSUME IInv, Copy PROVE IInv' OBVIOUS
<1>0. /\ pc = "copy" /\ addr < limit /\ addr' = addr + 1
      /\ app' = Programmed(app, addr, SourceWord)
      /\ UNCHANGED <<upg, flag, file, pc, limit, misread, settled>>
  BY DEF Copy
<1>1. FlashTyped /\ FlagTyped /\ BootTyped /\ Copying BY <1>0, Typed DEF IInv, Work
<1>2. Requested' /\ Requested BY <1>0, <1>1, RequestKept DEF Requested, Copying
<1>3. flag["md5"] \in Images /\ flag["size"] \in 1 .. AppWords BY <1>1, <1>2, FlagUse
<1>4. addr \in Nat /\ limit \in Nat /\ limit <= flag["size"] /\ AppWords \in Nat
  BY <1>1, BootloaderAssumption DEF BootTyped, Copying
<1>5. addr \in AppArea /\ addr \in 0 .. flag["size"] - 1
  BY <1>0, <1>3, <1>4 DEF AppArea
<1>6. SourceWord = flag["md5"]
  BY <1>1, <1>2, <1>5, FlagUse DEF SourceWord
<1>7. app[addr] = Erased BY <1>1, <1>4, <1>5 DEF Copying
<1>8. app' = [app EXCEPT ![addr] = flag["md5"]]
  BY <1>0, <1>6, <1>7 DEF Programmed
<1>9. FlashTyped' /\ FlagTyped'
  BY <1>0, <1>1, <1>3, <1>8 DEF FlashTyped, FlagTyped, Words
<1>10. BootTyped' BY <1>0, <1>1, <1>3, <1>4 DEF BootTyped
<1>11. \A a \in AppArea : app'[a] = IF a < addr + 1 THEN flag["md5"] ELSE Erased
  BY <1>1, <1>4, <1>5, <1>8 DEF Copying, FlashTyped, AppArea
<1>12. Copying' BY <1>0, <1>1, <1>2, <1>4, <1>11 DEF Copying
<1> QED BY <1>0, <1>2, <1>9, <1>10, <1>12, TypedNext
        DEF IInv, Work, Recoverable, Requested

LEMMA ReadSegmentInv == IInv /\ ReadSegment => IInv'
<1> SUFFICES ASSUME IInv, ReadSegment PROVE IInv' OBVIOUS
<1>0. /\ pc = "copy" /\ addr = limit /\ flag["op"] = "spiffs" /\ addr < Size[file]
      /\ limit' = IF addr + Segment < Size[file] THEN addr + Segment ELSE Size[file]
      /\ UNCHANGED <<app, upg, flag, file, pc, addr, misread, settled>>
  BY DEF ReadSegment
<1>1. FlashTyped /\ FlagTyped /\ BootTyped /\ Copying BY <1>0, Typed DEF IInv, Work
<1>2. Requested' /\ Requested BY <1>0, <1>1, RequestKept DEF Requested, Copying
<1>3. flag["op"] # "iflash" /\ Size[file] = flag["size"] /\ flag["size"] \in 1 .. AppWords
  BY <1>0, <1>1, <1>2, FlagUse
<1>4. addr \in Nat /\ AppWords \in Nat /\ Segment \in Nat \ {0}
  BY <1>1, BootloaderAssumption DEF BootTyped
<1>5. addr <= limit' /\ limit' <= flag["size"] /\ limit' \in 0 .. AppWords
  BY <1>0, <1>3, <1>4
<1>6. FlashTyped' /\ FlagTyped' BY <1>0, <1>1 DEF FlashTyped, FlagTyped
<1>7. BootTyped' BY <1>0, <1>1, <1>5 DEF BootTyped
<1>8. Copying' BY <1>0, <1>1, <1>2, <1>3, <1>5 DEF Copying
<1> QED BY <1>0, <1>2, <1>6, <1>7, <1>8, TypedNext
        DEF IInv, Work, Recoverable, Requested

LEMMA CopiedInv == IInv /\ Copied => IInv'
<1> SUFFICES ASSUME IInv, Copied PROVE IInv' OBVIOUS
<1>0. /\ pc = "copy" /\ addr = SourceSize /\ pc' = "clear" /\ misread' = "no"
      /\ UNCHANGED <<app, upg, flag, file, addr, limit, settled>>
  BY DEF Copied
<1>1. FlashTyped /\ FlagTyped /\ BootTyped /\ Copying BY <1>0, Typed DEF IInv, Work
<1>2. Requested BY <1>1 DEF Copying
<1>3. /\ flag["md5"] \in Images /\ addr = Size[flag["md5"]]
      /\ addr \in 1 .. AppWords
  BY <1>0, <1>1, <1>2, FlagUse DEF SourceSize
<1>4. Holds(app, flag["md5"])
  BY <1>1, <1>3, BootloaderAssumption DEF Copying, Holds, AppArea
<1>5. Whole BY <1>3, <1>4 DEF Whole
<1>6. Whole' BY <1>0, <1>5, WholeKept
<1>7. FlashTyped' /\ FlagTyped' BY <1>0, <1>1 DEF FlashTyped, FlagTyped
<1>8. BootTyped' BY <1>0, <1>1 DEF BootTyped
<1> QED BY <1>0, <1>6, <1>7, <1>8, TypedNext DEF IInv, Work, Recoverable

LEMMA CopyMisreadsInv == IInv /\ CopyMisreads => IInv'
<1> SUFFICES ASSUME IInv, CopyMisreads PROVE IInv' OBVIOUS
<1>0. /\ pc' = "clear" /\ misread' = "copy"
      /\ UNCHANGED <<app, upg, flag, file, addr, limit, settled>>
  BY DEF CopyMisreads
<1>1. FlashTyped /\ FlagTyped /\ BootTyped BY Typed DEF IInv
<1>2. FlashTyped' /\ FlagTyped' BY <1>0, <1>1 DEF FlashTyped, FlagTyped
<1>3. BootTyped' BY <1>0, <1>1 DEF BootTyped
<1> QED BY <1>0, <1>2, <1>3, TypedNext DEF IInv, Work, Recoverable

\* A flash operation that fails leaves flag and source alone.
LEMMA FailInv == IInv /\ (EraseFails \/ CopyFails) => IInv'
<1> SUFFICES ASSUME IInv, EraseFails \/ CopyFails PROVE IInv' OBVIOUS
<1>0. /\ pc \in {"erase", "copy"} /\ pc' = "halt"
      /\ \E S : app' \in Damaged(app, S)
      /\ UNCHANGED <<upg, flag, file, addr, limit, misread, settled>>
  BY DEF EraseFails, CopyFails
<1>1. FlashTyped /\ FlagTyped /\ BootTyped BY Typed DEF IInv
<1>2. Requested BY <1>0 DEF IInv, Work, Erasing, Copying
<1>3. Requested' BY <1>0, <1>2, RequestKept DEF Requested
<1>4. app' \in [AppArea -> Words] BY <1>0, <1>1, DamagedType DEF FlashTyped
<1>5. FlashTyped' /\ FlagTyped' BY <1>0, <1>1, <1>4 DEF FlashTyped, FlagTyped
<1>6. BootTyped' BY <1>0, <1>1 DEF BootTyped
<1> QED BY <1>0, <1>3, <1>5, <1>6, TypedNext DEF IInv, Work, Recoverable, Requested

LEMMA ClearFlagInv == IInv /\ ClearFlag => IInv'
<1> SUFFICES ASSUME IInv, ClearFlag PROVE IInv' OBVIOUS
<1>0. /\ pc = "clear" /\ pc' = "start"
      /\ UNCHANGED <<app, upg, file, addr, limit, misread, settled>>
  BY DEF ClearFlag
<1>1. FlashTyped /\ FlagTyped /\ BootTyped BY Typed DEF IInv
<1>2. Whole \/ misread = "copy" BY <1>0 DEF IInv, Work
<1>3. Whole' = Whole BY <1>0, WholeKept
<1>4. FlagTyped' BY <1>1, FlagDamaged, FlagErased DEF ClearFlag
<1>5. FlashTyped' BY <1>0, <1>1 DEF FlashTyped
<1>6. BootTyped' BY <1>0, <1>1 DEF BootTyped
<1> QED BY <1>0, <1>2, <1>3, <1>4, <1>5, <1>6, TypedNext DEF IInv, Work, Recoverable

LEMMA StepInv == IInv /\ [Next]_vars => IInv'
<1> SUFFICES ASSUME IInv, [Next]_vars PROVE IInv' OBVIOUS
<1>1. CASE Next
  BY <1>1, HostInv, QuietInv, EraseInv, CopyInv, ReadSegmentInv, CopiedInv,
     CopyMisreadsInv, FailInv, ClearFlagInv
  DEF Next, Loader, Upgrade
<1>2. CASE UNCHANGED vars
  <2>1. UNCHANGED <<app, upg, flag, file, pc, addr, limit, misread, settled>>
    BY <1>2 DEF vars, bootVars
  <2>2. Whole' = Whole /\ Asked' = Asked /\ Matches' = Matches
    BY <2>1, WholeKept, RequestKept
  <2>3. TypeOK' BY <2>1 DEF IInv, TypeOK
  <2>4. Erasing' = Erasing BY <2>1, <2>2 DEF Erasing, Requested
  <2>5. Copying' = Copying BY <2>1, <2>2 DEF Copying, Requested
  <2> QED BY <2>1, <2>2, <2>3, <2>4, <2>5 DEF IInv, Work, Recoverable
<1> QED BY <1>1, <1>2

-----------------------------------------------------------------------------
(* The theorems.                                                           *)

LEMMA Invariant == Spec => []IInv
BY InitInv, StepInv, PTL DEF Spec

\* Every reachable state has the types of TypeOK.
THEOREM TypeCorrect == Spec => []TypeOK
<1>1. IInv => TypeOK BY DEF IInv
<1> QED BY <1>1, Invariant, PTL

\* What the bootloader jumps to is a whole program, wherever power or flash
\* failed, unless the upgrade file could not be read to its end.
THEOREM AlwaysRunsWhole == Spec => []RunsWhole
<1>1. IInv => RunsWhole BY DEF IInv, Work, RunsWhole
<1> QED BY <1>1, Invariant, PTL

\* At every moment application, or flag and source, are intact.
THEOREM AlwaysRecoverable == Spec => []Recoverable
<1>1. IInv => Recoverable BY DEF IInv
<1> QED BY <1>1, Invariant, PTL

-----------------------------------------------------------------------------
(* The Modbus/TCP server.                                                  *)

ConnStates == {"new", "established", "remote closed", "closing", "gone"}
Live == {"established", "remote closed"}

Client == [tpcb : Conns \union {Null}, reply : Conns \union {Null},
           retries : Nat, errors : Nat]

ServerTypeOK ==
  /\ server \in {"none", "new", "listen"}
  /\ conn \in [Conns -> ConnStates]
  /\ arg \in [Conns -> Records \union {Null, Closed}]
  /\ clients \in [Slots -> Records \union {Null}]
  /\ record \in [Records -> Client]

\* A registered record serves a connection, and lwIP passes nothing for one
\* that was not accepted yet.
Served ==
  /\ \A s \in Slots : clients[s] # Null => record[clients[s]].tpcb \in Conns
  /\ \A c \in Conns : conn[c] = "new" => arg[c] = Null

ModbusInv == ServerTypeOK /\ Served /\ ClientsConsistent

\* What is used of the assumptions: a mark is no record.
LEMMA Marks ==
  /\ Null \notin Records /\ Closed \notin Records /\ Null # Closed /\ Null \notin Conns
  /\ Slots \subseteq Nat
  /\ ErrCount \in Nat /\ Retry \in Nat
BY ModbusTcpAssumption DEF Slots

LEMMA Least ==
  ASSUME NEW S \in SUBSET Nat, S # {}
  PROVE  First(S) \in S
<1>. DEFINE R == OpToRel(<, Nat)
<1>1. IsWellFoundedOn(R, Nat)
  BY NatLessThanWellFounded
<1>2. R = {ss \in Nat \X Nat : ss[1] < ss[2]}
  BY Zenon DEF OpToRel
<1>. HIDE DEF R
<1>3. PICK m \in S : \A n \in S : ~ (<<n, m>> \in R)
  BY <1>1, WFMin
<1>4. ASSUME NEW n \in S PROVE m <= n
  <2>1. m \in Nat /\ n \in Nat /\ ~ (<<n, m>> \in R)
    BY <1>3
  <2>2. n < m => <<n, m>> \in R
    BY <1>2, <2>1
  <2>. QED  BY <2>1, <2>2
<1>. QED  BY <1>4 DEF First

LEMMA ModbusInitInv == ModbusInit => ModbusInv
<1>. SUFFICES ASSUME ModbusInit PROVE ModbusInv
  OBVIOUS
<1>. USE Marks DEF ModbusInit
<1>1. ServerTypeOK
  BY DEF ServerTypeOK, ConnStates, Client
<1>2. Served
  BY DEF Served
<1>3. ClientsConsistent
  BY DEF ClientsConsistent, SlotsAgree, AllKnown, RepliesToAsker, Registered
<1>. QED  BY <1>1, <1>2, <1>3 DEF ModbusInv

\* A connection whose callback finds a record is the one that record serves.
LEMMA CallbackClient ==
  ASSUME ModbusInv, NEW c \in Conns, arg[c] \in Records
  PROVE  /\ Registered(arg[c]) /\ record[arg[c]].tpcb = c
         /\ conn[c] \in Live
         /\ \A d \in Conns : arg[d] = arg[c] => d = c
<1>1. Registered(arg[c]) /\ record[arg[c]].tpcb = c
  BY DEF ModbusInv, ClientsConsistent, SlotsAgree
<1>2. PICK s \in Slots : clients[s] = arg[c]
  BY <1>1 DEF Registered
<1>3. clients[s] # Null
  BY <1>2, Marks
<1>4. conn[c] \in Live
  BY <1>1, <1>2, <1>3 DEF ModbusInv, ClientsConsistent, SlotsAgree, Live
<1>5. ASSUME NEW d \in Conns, arg[d] = arg[c] PROVE d = c
  BY <1>1, <1>5 DEF ModbusInv, ClientsConsistent, SlotsAgree
<1>. QED  BY <1>1, <1>4, <1>5

\* Registered clients, whichever of them are closed, and for whichever reason.
LEMMA CloseKeeps ==
  ASSUME ModbusInv, NEW R \in SUBSET Records, NEW Dead \in SUBSET Conns,
         \A r \in R : Registered(r),
         \A c \in Dead : arg[c] \in R,
         Close(R, Dead), UNCHANGED record,
         \/ server' = server
         \/ server' \in {"none", "new", "listen"} /\ \A r \in Records : Registered(r) => r \in R
  PROVE  ModbusInv'
<1>. DEFINE closed == {c \in Conns : \E r \in R : record[r].tpcb = c}
<1>0. /\ conn \in [Conns -> ConnStates] /\ arg \in [Conns -> Records \union {Null, Closed}]
      /\ clients \in [Slots -> Records \union {Null}] /\ record \in [Records -> Client]
      /\ server \in {"none", "new", "listen"}
  BY DEF ModbusInv, ServerTypeOK
<1>1. /\ conn' = [c \in Conns |-> IF c \in Dead THEN "gone"
                                  ELSE IF c \in closed THEN "closing" ELSE conn[c]]
      /\ arg' = [c \in Conns |-> IF c \in closed THEN Closed ELSE arg[c]]
      /\ clients' = [s \in Slots |-> IF clients[s] \in R THEN Null ELSE clients[s]]
      /\ record' = record
  BY DEF Close
<1>. HIDE DEF closed
<1>2. ASSUME NEW c \in Conns
      PROVE  c \in closed <=> arg[c] \in R
  <2>1. ASSUME NEW r \in R, record[r].tpcb = c PROVE arg[c] = r
    <3>1. PICK s \in Slots : clients[s] = r
      BY DEF Registered
    <3>2. clients[s] # Null
      BY <3>1, Marks
    <3>. QED  BY <2>1, <3>1, <3>2 DEF ModbusInv, ClientsConsistent, SlotsAgree
  <2>2. ASSUME arg[c] \in R PROVE record[arg[c]].tpcb = c
    BY <2>2, CallbackClient
  <2>. QED  BY <2>1, <2>2 DEF closed
<1>3. ServerTypeOK'
  BY <1>0, <1>1 DEF ServerTypeOK, ConnStates
<1>4. ASSUME NEW c \in Conns
      PROVE  /\ arg[c] \in R => arg'[c] = Closed /\ conn'[c] \in {"gone", "closing"}
             /\ arg[c] \notin R => arg'[c] = arg[c] /\ conn'[c] = conn[c]
  BY <1>1, <1>2
<1>5. ASSUME NEW s \in Slots
      PROVE  /\ clients[s] \in R => clients'[s] = Null
             /\ clients[s] \notin R => clients'[s] = clients[s]
  BY <1>1
<1>6. Served'
  <2>1. ASSUME NEW s \in Slots, clients'[s] # Null
        PROVE  record'[clients'[s]].tpcb \in Conns
    BY <1>1, <1>5, <2>1 DEF ModbusInv, Served
  <2>2. ASSUME NEW c \in Conns, conn'[c] = "new" PROVE arg'[c] = Null
    BY <1>4, <2>2 DEF ModbusInv, Served
  <2>. QED  BY <2>1, <2>2 DEF Served
<1>7. SlotsAgree'
  <2>0. SlotsAgree
    BY DEF ModbusInv, ClientsConsistent
  <2>1. ASSUME NEW s \in Slots, clients'[s] # Null
        PROVE  LET c == record'[clients'[s]].tpcb
               IN arg'[c] = clients'[s] /\ conn'[c] \in {"established", "remote closed"}
    <3>. DEFINE c == record[clients[s]].tpcb
    <3>1. clients'[s] = clients[s] /\ clients[s] \notin R /\ clients[s] # Null
      BY <1>5, <2>1
    <3>2. c \in Conns /\ arg[c] = clients[s] /\ conn[c] \in {"established", "remote closed"}
      BY <2>0, <3>1 DEF ModbusInv, Served, SlotsAgree
    <3>3. arg'[c] = arg[c] /\ conn'[c] = conn[c]
      BY <1>4, <3>1, <3>2
    <3>. QED  BY <1>1, <3>1, <3>2, <3>3
  <2>2. ASSUME NEW s \in Slots, NEW t \in Slots, clients'[s] = clients'[t], clients'[s] # Null
        PROVE  s = t
    <3>1. clients'[s] = clients[s] /\ clients'[t] = clients[t]
      BY <1>5, <2>2
    <3>. QED  BY <2>0, <2>2, <3>1 DEF SlotsAgree
  <2>3. ASSUME NEW c \in Conns, arg'[c] \in Records
        PROVE  Registered(arg[c])' /\ record'[arg'[c]].tpcb = c
    <3>1. arg'[c] = arg[c] /\ arg[c] \notin R
      BY <1>4, <2>3, Marks
    <3>2. Registered(arg[c]) /\ record[arg[c]].tpcb = c
      BY <2>3, <3>1, CallbackClient
    <3>. QED  BY <1>1, <1>5, <3>1, <3>2 DEF Registered
  <2>. QED  BY <2>1, <2>2, <2>3 DEF SlotsAgree, Registered
<1>8. AllKnown'
  <2>. SUFFICES ASSUME NEW c \in Conns, conn'[c] \in {"established", "remote closed"}
                PROVE  arg'[c] \in Records /\ server' = "listen"
    BY DEF AllKnown
  <2>1. arg[c] \notin R /\ arg'[c] = arg[c] /\ conn'[c] = conn[c]
    BY <1>4
  <2>2. arg[c] \in Records /\ server = "listen"
    BY <2>1 DEF ModbusInv, ClientsConsistent, AllKnown
  <2>3. Registered(arg[c])
    BY <2>2, CallbackClient
  <2>. QED  BY <2>1, <2>2, <2>3
<1>9. RepliesToAsker'
  <2>1. ASSUME NEW r \in Records, Registered(r)' PROVE Registered(r)
    <3>1. PICK s \in Slots : clients'[s] = r
      BY <2>1 DEF Registered
    <3>2. clients[s] = r
      BY <1>5, <3>1, Marks
    <3>. QED  BY <3>2 DEF Registered
  <2>. QED  BY <1>1, <2>1 DEF ModbusInv, ClientsConsistent, RepliesToAsker
<1>. QED  BY <1>3, <1>6, <1>7, <1>8, <1>9 DEF ModbusInv, ClientsConsistent

\* A record of a client that changes without serving another connection.
LEMMA SetRecordKeeps ==
  ASSUME ModbusInv, NEW r \in Records, NEW fields \in Client, SetRecord(r, fields),
         fields.tpcb = record[r].tpcb,
         fields.reply \in {Null, record[r].reply, record[r].tpcb},
         server' = server
  PROVE  ModbusInv'
<1>0. record \in [Records -> Client]
  BY DEF ModbusInv, ServerTypeOK
<1>1. record' = [record EXCEPT ![r] = fields] /\ UNCHANGED <<conn, arg, clients>>
  BY DEF SetRecord
<1>2. \A q \in Records : record'[q].tpcb = record[q].tpcb
  BY <1>0, <1>1
<1>3. \A q \in Records :
        record'[q].reply \in {Null, record[q].reply, record[q].tpcb}
  BY <1>0, <1>1
<1>4. ServerTypeOK'
  <2>1. record' \in [Records -> Client]
    BY <1>0, <1>1
  <2>. QED  BY <1>1, <2>1 DEF ModbusInv, ServerTypeOK
<1>5. \A s \in Slots : clients[s] # Null => clients[s] \in Records
  BY DEF ModbusInv, ServerTypeOK
<1>6. Served' /\ SlotsAgree' /\ AllKnown'
  <2>1. \A s \in Slots : clients[s] # Null =>
          record'[clients[s]].tpcb = record[clients[s]].tpcb
    BY <1>2, <1>5
  <2>2. Served'
    BY <1>1, <2>1 DEF ModbusInv, Served
  <2>3. SlotsAgree
    BY DEF ModbusInv, ClientsConsistent
  <2>4. \A s \in Slots : clients[s] # Null =>
          LET c == record'[clients[s]].tpcb
          IN arg[c] = clients[s] /\ conn[c] \in {"established", "remote closed"}
    BY <2>1, <2>3 DEF SlotsAgree
  <2>5. \A c \in Conns : arg[c] \in Records => Registered(arg[c]) /\ record'[arg[c]].tpcb = c
    BY <1>2, <2>3 DEF SlotsAgree
  <2>6. SlotsAgree'
    BY <1>1, <2>3, <2>4, <2>5 DEF SlotsAgree, Registered
  <2>7. AllKnown'
    BY <1>1 DEF ModbusInv, ClientsConsistent, AllKnown
  <2>. QED  BY <2>2, <2>6, <2>7
<1>7. RepliesToAsker'
  <2>. SUFFICES ASSUME NEW q \in Records, Registered(q)', record'[q].reply # Null
                PROVE  record'[q].reply = record'[q].tpcb
    BY DEF RepliesToAsker
  <2>1. Registered(q)
    BY <1>1 DEF Registered
  <2>2. record[q].reply # Null => record[q].reply = record[q].tpcb
    BY <2>1 DEF ModbusInv, ClientsConsistent, RepliesToAsker
  <2>. QED  BY <1>2, <1>3, <2>2
<1>. QED  BY <1>4, <1>6, <1>7 DEF ModbusInv, ClientsConsistent

\* A new connection gets a record of its own: one that no slot holds, or that of
\* a client that is closed for it.
LEMMA ServeKeeps ==
  ASSUME ModbusInv, NEW c \in Conns, conn[c] = "new", server = "listen", server' = server,
         NEW s \in Slots, NEW r \in Records, Serve(c, s, r),
         NEW old \in Conns \union {Null},
         \/ clients[s] = Null /\ ~ Registered(r) /\ old = Null
         \/ clients[s] = r /\ old = record[r].tpcb,
         \A d \in Conns : conn'[d] = IF d = c THEN "established"
                                     ELSE IF d = old THEN "closing" ELSE conn[d],
         \A d \in Conns : arg'[d] = IF d = c THEN r
                                    ELSE IF d = old THEN Closed ELSE arg[d],
         conn' \in [Conns -> ConnStates],
         arg' \in [Conns -> Records \union {Null, Closed}]
  PROVE  ModbusInv'
<1>0. /\ clients \in [Slots -> Records \union {Null}] /\ record \in [Records -> Client]
      /\ SlotsAgree /\ AllKnown /\ RepliesToAsker /\ Served
  BY DEF ModbusInv, ServerTypeOK, ClientsConsistent
<1>1. /\ clients' = [clients EXCEPT ![s] = r]
      /\ record' = [record EXCEPT ![r] =
                     [tpcb |-> c, reply |-> Null, retries |-> 0, errors |-> 0]]
  BY DEF Serve
<1>2. /\ \A t \in Slots : clients'[t] = IF t = s THEN r ELSE clients[t]
      /\ record'[r].tpcb = c /\ record'[r].reply = Null
      /\ \A q \in Records : q # r => record'[q] = record[q]
  BY <1>0, <1>1
<1>3. arg[c] = Null
  BY DEF ModbusInv, Served
<1>4. \A d \in Conns : arg[d] = r => d = old
  BY <1>0, CallbackClient DEF SlotsAgree
<1>4a. \A t, u \in Slots : clients[t] = clients[u] /\ clients[t] # Null => t = u
  BY <1>0 DEF SlotsAgree
<1>5. ASSUME NEW t \in Slots, t # s PROVE clients[t] # r
  <2>1. clients[s] = r => clients[t] # r
    BY <1>4a, <1>5, Marks
  <2>2. clients[t] = r => Registered(r)
    BY DEF Registered
  <2>. QED  BY <2>1, <2>2
<1>6. ServerTypeOK'
  <2>1. clients' \in [Slots -> Records \union {Null}]
    BY <1>0, <1>1
  <2>2. record' \in [Records -> Client]
    BY <1>0, <1>1 DEF Client
  <2>. QED  BY <2>1, <2>2 DEF ModbusInv, ServerTypeOK
<1>7. ASSUME NEW t \in Slots, t # s, clients[t] # Null
      PROVE  LET d == record[clients[t]].tpcb
             IN  /\ d \in Conns /\ d # c /\ d # old
                 /\ clients'[t] = clients[t] /\ record'[clients[t]] = record[clients[t]]
                 /\ arg'[d] = clients[t] /\ conn'[d] \in Live
  <2>. DEFINE d == record[clients[t]].tpcb
  <2>1. d \in Conns /\ arg[d] = clients[t] /\ conn[d] \in Live /\ clients[t] \in Records
    <3>1. clients[t] \in Records
      BY <1>0, <1>7
    <3>2. d \in Conns
      BY <1>0, <1>7 DEF Served
    <3>3. arg[d] = clients[t] /\ conn[d] \in Live
      BY <1>0, <1>7, Zenon DEF SlotsAgree, Live
    <3>. QED  BY <3>1, <3>2, <3>3
  <2>2. clients[t] # r
    BY <1>5, <1>7
  <2>3. d # c
    BY <1>3, <1>7, <2>1
  <2>4. d # old
    <3>. SUFFICES ASSUME clients[s] = r, old = record[r].tpcb PROVE d # old
      BY <2>1, Marks
    <3>1. arg[old] = r
      BY <1>0, Marks DEF SlotsAgree
    <3>. QED  BY <2>1, <2>2, <3>1
  <2>. QED  BY <1>2, <1>7, <2>1, <2>2, <2>3, <2>4
<1>8. Served'
  <2>1. \A t \in Slots : clients'[t] # Null => record'[clients'[t]].tpcb \in Conns
    BY <1>2, <1>7
  <2>2. \A d \in Conns : conn'[d] = "new" => arg'[d] = Null
    BY <1>0 DEF Served
  <2>. QED  BY <2>1, <2>2 DEF Served
<1>9. SlotsAgree'
  <2>1. \A t \in Slots : clients'[t] # Null =>
          LET d == record'[clients'[t]].tpcb
          IN arg'[d] = clients'[t] /\ conn'[d] \in {"established", "remote closed"}
    <3>1. arg'[c] = r /\ conn'[c] = "established" /\ clients'[s] = r /\ record'[r].tpcb = c
      BY <1>2
    <3>2. ASSUME NEW t \in Slots, t # s, clients'[t] # Null
          PROVE  LET d == record'[clients'[t]].tpcb
                 IN arg'[d] = clients'[t] /\ conn'[d] \in {"established", "remote closed"}
      <4>1. clients'[t] = clients[t] /\ clients[t] # Null
        BY <1>2, <3>2
      <4>2. record'[clients[t]] = record[clients[t]] /\ arg'[record[clients[t]].tpcb] = clients[t]
            /\ conn'[record[clients[t]].tpcb] \in Live
        BY <1>7, <3>2, <4>1
      <4>. QED  BY <4>1, <4>2 DEF Live
    <3>. QED  BY <3>1, <3>2
  <2>2. ASSUME NEW t \in Slots, NEW u \in Slots, clients'[t] = clients'[u], clients'[t] # Null
        PROVE  t = u
    <3>1. CASE t # s /\ u # s
      <4>1. clients'[t] = clients[t] /\ clients'[u] = clients[u]
        BY <1>2, <3>1
      <4>2. clients[t] = clients[u] /\ clients[t] # Null
        BY <2>2, <4>1, Zenon
      <4>. QED  BY <1>4a, <4>2
    <3>2. CASE t = s \/ u = s
      BY <1>2, <1>5, <2>2, <3>2
    <3>. QED  BY <3>1, <3>2
  <2>3. ASSUME NEW d \in Conns, arg'[d] \in Records
        PROVE  (\E t \in Slots : clients'[t] = arg'[d]) /\ record'[arg'[d]].tpcb = d
    <3>1. CASE d = c
      BY <1>2, <3>1
    <3>2. CASE d # c
      <4>1. d # old /\ arg'[d] = arg[d]
        BY <2>3, <3>2, Marks
      <4>2. arg[d] # r /\ Registered(arg[d]) /\ record[arg[d]].tpcb = d
        BY <1>4, <2>3, <4>1, CallbackClient
      <4>3. PICK t \in Slots : clients[t] = arg[d]
        BY <4>2 DEF Registered
      <4>4. t # s
        BY <2>3, <4>1, <4>2, <4>3, Marks
      <4>. QED  BY <1>2, <2>3, <4>1, <4>2, <4>3, <4>4
    <3>. QED  BY <3>1, <3>2
  <2>. QED  BY <2>1, <2>2, <2>3 DEF SlotsAgree, Registered
<1>10. AllKnown'
  BY <1>0 DEF AllKnown
<1>11. RepliesToAsker'
  <2>. SUFFICES ASSUME NEW q \in Records, Registered(q)', record'[q].reply # Null
                PROVE  record'[q].reply = record'[q].tpcb
    BY DEF RepliesToAsker
  <2>1. q # r /\ record'[q] = record[q]
    BY <1>2
  <2>2. Registered(q)
    BY <1>2, <2>1 DEF Registered
  <2>. QED  BY <1>0, <2>1, <2>2 DEF RepliesToAsker
<1>. QED  BY <1>6, <1>8, <1>9, <1>10, <1>11 DEF ModbusInv, ClientsConsistent

LEMMA CloseOneKeeps ==
  ASSUME ModbusInv, NEW r \in Records, Registered(r), Close({r}, {}),
         UNCHANGED record, server' = server
  PROVE  ModbusInv'
<1>. DEFINE R == {r}
<1>1. R \in SUBSET Records /\ \A q \in R : Registered(q)
  OBVIOUS
<1>. QED  BY <1>1, CloseKeeps

\* The state of a connection changes, and the server could not tell.
LEMMA SameLiveKeeps ==
  ASSUME ModbusInv, ServerTypeOK', UNCHANGED <<arg, clients, record, server>>,
         \A d \in Conns : /\ conn'[d] = "new" => conn[d] = "new"
                          /\ conn'[d] \in Live <=> conn[d] \in Live
  PROVE  ModbusInv'
<1>1. \A s \in Slots : clients[s] # Null => clients[s] \in Records /\ record[clients[s]].tpcb \in Conns
  BY DEF ModbusInv, ServerTypeOK, Served
<1>2. Served'
  BY DEF ModbusInv, Served
<1>3. SlotsAgree'
  BY <1>1 DEF ModbusInv, ClientsConsistent, SlotsAgree, Registered, Live
<1>4. AllKnown'
  BY DEF ModbusInv, ClientsConsistent, AllKnown, Live
<1>5. RepliesToAsker'
  BY DEF ModbusInv, ClientsConsistent, RepliesToAsker, Registered
<1>. QED  BY <1>2, <1>3, <1>4, <1>5 DEF ModbusInv, ClientsConsistent

LEMMA GoneKeeps ==
  ASSUME ModbusInv, NEW c \in Conns, conn[c] \notin Live, NEW to \in {"closing", "gone"},
         conn' = [conn EXCEPT ![c] = to], UNCHANGED <<arg, clients, record, server>>
  PROVE  ModbusInv'
<1>1. conn \in [Conns -> ConnStates]
  BY DEF ModbusInv, ServerTypeOK
<1>2. ServerTypeOK'
  BY <1>1 DEF ModbusInv, ServerTypeOK, ConnStates
<1>3. \A d \in Conns : /\ conn'[d] = "new" => conn[d] = "new"
                       /\ conn'[d] \in Live <=> conn[d] \in Live
  BY <1>1 DEF Live
<1>. QED  BY <1>2, <1>3, SameLiveKeeps

\* The listening socket changes: it may close only if no client is connected.
LEMMA ServerKeeps ==
  ASSUME ModbusInv, UNCHANGED clientVars, server' \in {"none", "new", "listen"},
         (server = "listen" => server' = "listen") \/ \A c \in Conns : conn[c] \notin Live
  PROVE  ModbusInv'
<1>1. UNCHANGED <<conn, arg, clients, record>>
  BY DEF clientVars
<1>2. ServerTypeOK' /\ Served'
  BY <1>1 DEF ModbusInv, ServerTypeOK, Served
<1>3. SlotsAgree' /\ RepliesToAsker'
  BY <1>1 DEF ModbusInv, ClientsConsistent, SlotsAgree, RepliesToAsker, Registered
<1>4. AllKnown'
  BY <1>1 DEF ModbusInv, ClientsConsistent, AllKnown, Live
<1>. QED  BY <1>2, <1>3, <1>4 DEF ModbusInv, ClientsConsistent

LEMMA QuietKeeps ==
  ASSUME ModbusInv, UNCHANGED <<clientVars, server>>
  PROVE  ModbusInv'
BY ServerKeeps DEF ModbusInv, ServerTypeOK

LEMMA FreeSlotIsNone ==
  ASSUME FreeSlots # {}
  PROVE  First(FreeSlots) \in Slots /\ clients[First(FreeSlots)] = Null
<1>1. FreeSlots \in SUBSET Nat
  BY Marks DEF FreeSlots
<1>2. First(FreeSlots) \in FreeSlots
  BY <1>1, Least
<1>. QED  BY <1>2 DEF FreeSlots

LEMMA ReclaimableSlot ==
  ASSUME Reclaimable # {}
  PROVE  First(Reclaimable) \in Slots /\ clients[First(Reclaimable)] # Null
<1>1. Reclaimable \in SUBSET Nat
  BY Marks DEF Reclaimable
<1>2. First(Reclaimable) \in Reclaimable
  BY <1>1, Least
<1>. QED  BY <1>2 DEF Reclaimable, FreeSlots

LEMMA AcceptInv == ASSUME ModbusInv, NEW c \in Conns, Accept(c) PROVE ModbusInv'
<1>0. /\ conn \in [Conns -> ConnStates] /\ arg \in [Conns -> Records \union {Null, Closed}]
      /\ record \in [Records -> Client] /\ clients \in [Slots -> Records \union {Null}]
  BY DEF ModbusInv, ServerTypeOK
<1>1. server' = server /\ server = "listen" /\ conn[c] = "new"
  BY DEF Accept, AcceptNew, AcceptReclaim, AcceptRefuse, HalfOpen, Accepts
<1>2. CASE AcceptNew(c)
  <2>1. PICK r \in Records :
          /\ ~ Registered(r)
          /\ Serve(c, First(FreeSlots), r)
          /\ conn' = [conn EXCEPT ![c] = "established"]
          /\ arg' = [arg EXCEPT ![c] = r]
    BY <1>2 DEF AcceptNew
  <2>. DEFINE s == First(FreeSlots)
  <2>2. s \in Slots /\ clients[s] = Null
    BY <1>2, FreeSlotIsNone DEF AcceptNew
  <2>. HIDE DEF s
  <2>3. /\ conn' \in [Conns -> ConnStates]
        /\ \A d \in Conns : conn'[d] = IF d = c THEN "established"
                                       ELSE IF d = Null THEN "closing" ELSE conn[d]
    BY <1>0, <2>1, Marks DEF ConnStates
  <2>4. /\ arg' \in [Conns -> Records \union {Null, Closed}]
        /\ \A d \in Conns : arg'[d] = IF d = c THEN r
                                      ELSE IF d = Null THEN Closed ELSE arg[d]
    BY <1>0, <2>1, Marks
  <2>5. Serve(c, s, r) /\ ~ Registered(r)
    BY <2>1 DEF s
  <2>. QED  BY <1>1, <2>2, <2>3, <2>4, <2>5, ServeKeeps
<1>3. CASE AcceptReclaim(c)
  <2>. DEFINE s == First(Reclaimable)
              r == clients[s]
              old == record[r].tpcb
  <2>1. s \in Slots /\ clients[s] # Null
    BY <1>3, ReclaimableSlot DEF AcceptReclaim
  <2>2. /\ Serve(c, s, r)
        /\ conn' = [conn EXCEPT ![c] = "established", ![old] = "closing"]
        /\ arg' = [arg EXCEPT ![c] = r, ![old] = Closed]
    BY <1>3 DEF AcceptReclaim
  <2>. HIDE DEF s
  <2>3. r \in Records /\ old \in Conns /\ arg[old] = r
    BY <1>0, <2>1 DEF ModbusInv, Served, ClientsConsistent, SlotsAgree
  <2>. HIDE DEF r
  <2>4. arg[c] = Null
    BY <1>1 DEF ModbusInv, Served
  <2>5. old # c
    BY <2>3, <2>4, Marks
  <2>6. old = record[r].tpcb /\ clients[s] = r
    BY DEF r
  <2>. HIDE DEF old
  <2>7. /\ conn' \in [Conns -> ConnStates]
        /\ \A d \in Conns : conn'[d] = IF d = c THEN "established"
                                       ELSE IF d = old THEN "closing" ELSE conn[d]
    BY <1>0, <2>2, <2>3, <2>5 DEF ConnStates
  <2>8. /\ arg' \in [Conns -> Records \union {Null, Closed}]
        /\ \A d \in Conns : arg'[d] = IF d = c THEN r
                                      ELSE IF d = old THEN Closed ELSE arg[d]
    BY <1>0, <2>2, <2>3, <2>5
  <2>. QED  BY <1>1, <2>1, <2>2, <2>3, <2>6, <2>7, <2>8, ServeKeeps
<1>4. CASE AcceptRefuse(c)
  <2>1. /\ conn' = [conn EXCEPT ![c] = "gone"]
        /\ UNCHANGED <<arg, clients, record>>
    BY <1>4 DEF AcceptRefuse
  <2>2. conn[c] \notin Live
    BY <1>1 DEF Live
  <2>. QED  BY <1>1, <2>1, <2>2, GoneKeeps
<1>5. CASE HalfOpen(c)
  <2>1. /\ conn' = [conn EXCEPT ![c] = "closing"]
        /\ UNCHANGED <<arg, clients, record>>
    BY <1>5 DEF HalfOpen
  <2>2. conn[c] \notin Live
    BY <1>1 DEF Live
  <2>. QED  BY <1>1, <2>1, <2>2, GoneKeeps
<1>. QED  BY <1>2, <1>3, <1>4, <1>5 DEF Accept

\* What a callback does with the client it is called for.
LEMMA ReceiveInv == ASSUME ModbusInv, NEW c \in Conns, Receive(c) PROVE ModbusInv'
<1>1. arg[c] \in Records /\ server' = server
  BY DEF Receive, Answer, AnswerFails, BadRequest, Received, Callback
<1>. DEFINE r == arg[c]
<1>2. /\ record[r] \in Client /\ record[r].tpcb = c /\ Registered(r)
  BY <1>1, CallbackClient DEF ModbusInv, ServerTypeOK
<1>. HIDE DEF r
<1>3. CASE Answer(c)
  <2>1. SetRecord(r, [record[r] EXCEPT !.retries = 0])
    BY <1>3 DEF Answer, r
  <2>. DEFINE fields == [record[r] EXCEPT !.retries = 0]
  <2>2. fields \in Client /\ fields.tpcb = record[r].tpcb /\ fields.reply = record[r].reply
    BY <1>2 DEF Client
  <2>. HIDE DEF fields
  <2>. QED  BY <1>1, <2>1, <2>2, SetRecordKeeps DEF r, fields
<1>4. CASE AnswerFails(c)
  <2>1. SetRecord(r, [record[r] EXCEPT !.reply = c, !.retries = 1])
    BY <1>4 DEF AnswerFails, r
  <2>. DEFINE fields == [record[r] EXCEPT !.reply = c, !.retries = 1]
  <2>2. fields \in Client /\ fields.tpcb = record[r].tpcb /\ fields.reply = record[r].tpcb
    BY <1>2 DEF Client
  <2>. HIDE DEF fields
  <2>. QED  BY <1>1, <2>1, <2>2, SetRecordKeeps DEF r, fields
<1>5. CASE BadRequest(c)
  <2>. DEFINE errors == record[r].errors + 1
              fields == [record[r] EXCEPT !.errors = errors]
  <2>1. IF errors > ErrCount THEN Close({r}, {}) /\ UNCHANGED record ELSE SetRecord(r, fields)
    BY <1>5 DEF BadRequest, r
  <2>2. fields \in Client /\ fields.tpcb = record[r].tpcb /\ fields.reply = record[r].reply
    BY <1>2 DEF Client
  <2>. HIDE DEF fields, errors
  <2>3. CASE SetRecord(r, fields)
    BY <1>1, <2>2, <2>3, SetRecordKeeps DEF r
  <2>4. CASE Close({r}, {}) /\ UNCHANGED record
    BY <1>1, <1>2, <2>4, CloseOneKeeps DEF r
  <2>. QED  BY <2>1, <2>3, <2>4
<1>. QED  BY <1>3, <1>4, <1>5 DEF Receive

LEMMA PollInv == ASSUME ModbusInv, NEW c \in Conns, Poll(c) PROVE ModbusInv'
<1>1. arg[c] \in Records /\ server' = server
  BY DEF Poll, PollAnswers, PollFails, Polled, Callback
<1>. DEFINE r == arg[c]
<1>2. /\ record[r] \in Client /\ record[r].tpcb = c /\ Registered(r)
  BY <1>1, CallbackClient DEF ModbusInv, ServerTypeOK
<1>. HIDE DEF r
<1>3. CASE PollAnswers(c)
  <2>1. SetRecord(r, [record[r] EXCEPT !.reply = Null])
    BY <1>3 DEF PollAnswers, r
  <2>. DEFINE fields == [record[r] EXCEPT !.reply = Null]
  <2>2. fields \in Client /\ fields.tpcb = record[r].tpcb /\ fields.reply = Null
    BY <1>2 DEF Client
  <2>. HIDE DEF fields
  <2>. QED  BY <1>1, <2>1, <2>2, SetRecordKeeps DEF r, fields
<1>4. CASE PollFails(c)
  <2>. DEFINE retries == record[r].retries + 1
              fields == [record[r] EXCEPT !.retries = retries]
  <2>1. IF retries > Retry THEN Close({r}, {}) /\ UNCHANGED record ELSE SetRecord(r, fields)
    BY <1>4 DEF PollFails, r
  <2>2. fields \in Client /\ fields.tpcb = record[r].tpcb /\ fields.reply = record[r].reply
    BY <1>2 DEF Client
  <2>. HIDE DEF fields, retries
  <2>3. CASE SetRecord(r, fields)
    BY <1>1, <2>2, <2>3, SetRecordKeeps DEF r
  <2>4. CASE Close({r}, {}) /\ UNCHANGED record
    BY <1>1, <1>2, <2>4, CloseOneKeeps DEF r
  <2>. QED  BY <2>1, <2>3, <2>4
<1>. QED  BY <1>3, <1>4 DEF Poll

LEMMA LwipInv ==
  ASSUME ModbusInv, NEW c \in Conns, RemoteCloses(c) \/ Error(c) \/ Finishes(c)
  PROVE  ModbusInv'
<1>1. CASE RemoteCloses(c)
  <2>1. /\ conn[c] = "established" /\ conn' = [conn EXCEPT ![c] = "remote closed"]
        /\ UNCHANGED <<arg, clients, record, server>>
    BY <1>1 DEF RemoteCloses, Callback
  <2>2. conn \in [Conns -> ConnStates]
    BY DEF ModbusInv, ServerTypeOK
  <2>3. ServerTypeOK'
    BY <2>1, <2>2 DEF ModbusInv, ServerTypeOK, ConnStates
  <2>4. \A d \in Conns : /\ conn'[d] = "new" <=> conn[d] = "new"
                         /\ conn'[d] \in Live <=> conn[d] \in Live
    BY <2>1, <2>2 DEF Live
  <2>. QED  BY <2>1, <2>3, <2>4, SameLiveKeeps
<1>2. CASE RecvClosed(c)
  BY <1>2, CallbackClient, CloseOneKeeps DEF RecvClosed, Callback
<1>3. CASE Error(c)
  <2>1. arg[c] \in Records /\ Close({arg[c]}, {c}) /\ UNCHANGED <<record, server>>
    BY <1>3 DEF Error, Callback
  <2>. DEFINE R == {arg[c]}
  <2>2. Registered(arg[c])
    BY <2>1, CallbackClient
  <2>3. R \in SUBSET Records /\ \A r \in R : Registered(r)
    BY <2>1, <2>2
  <2>. QED  BY <2>1, <2>3, CloseKeeps
<1>4. CASE Ends(c)
  <2>1. /\ conn[c] = "closing" /\ conn' = [conn EXCEPT ![c] = "gone"]
        /\ UNCHANGED <<arg, clients, record, server>>
    BY <1>4 DEF Ends
  <2>2. conn[c] \notin Live
    BY <2>1 DEF Live
  <2>. QED  BY <2>1, <2>2, GoneKeeps
<1>. QED  BY <1>1, <1>2, <1>3, <1>4 DEF Finishes

LEMMA TaskInv == ModbusInv /\ Task => ModbusInv'
<1>. SUFFICES ASSUME ModbusInv, Task PROVE ModbusInv'
  OBVIOUS
<1>1. CASE Take \/ PutClose \/ PutStart
  BY <1>1, QuietKeeps DEF Take, PutClose, PutStart
<1>2. CASE StartServer
  <2>1. /\ server' = "listen" /\ UNCHANGED clientVars
        /\ \A c \in Conns : conn[c] \in {"new", "gone"}
    BY <1>2 DEF StartServer, Starts, CanBind
  <2>. QED  BY <2>1, ServerKeeps DEF Live
<1>3. CASE StartFails
  <2>1. /\ server' \in {"none", "new", "listen"} /\ UNCHANGED clientVars
        /\ server = "listen" => server' = "listen"
    BY <1>3 DEF StartFails, Starts, ModbusInv, ServerTypeOK
  <2>. QED  BY <2>1, ServerKeeps
<1>4. CASE StartNoMemory
  BY <1>4, QuietKeeps DEF StartNoMemory, Starts
<1>5. CASE CloseAll
  <2>. DEFINE R == {r \in Records : Registered(r)}
  <2>1. Close(R, {}) /\ UNCHANGED record /\ server' = "none"
    BY <1>5 DEF CloseAll
  <2>2. R \in SUBSET Records /\ \A r \in R : Registered(r)
    OBVIOUS
  <2>3. \A r \in Records : Registered(r) => r \in R
    OBVIOUS
  <2>. HIDE DEF R
  <2>. QED  BY <2>1, <2>2, <2>3, CloseKeeps
<1>. QED  BY <1>1, <1>2, <1>3, <1>4, <1>5 DEF Task

LEMMA ModbusNextInv == ModbusInv /\ [ModbusNext]_modbusVars => ModbusInv'
<1>. SUFFICES ASSUME ModbusInv, [ModbusNext]_modbusVars PROVE ModbusInv'
  OBVIOUS
<1>1. CASE Cable \/ ResetCommand \/ NetmonTimer
  BY <1>1, QuietKeeps DEF Cable, ResetCommand, NetmonTimer
<1>2. CASE Netmon
  BY <1>2, QuietKeeps DEF Netmon, NetmonUp, NetmonDown, NetmonTakesCheck, NetmonCheck
<1>3. CASE Task
  BY <1>3, TaskInv
<1>4. CASE RestartTimer
  BY <1>4, QuietKeeps DEF RestartTimer
<1>5. ASSUME NEW c \in Conns,
             Accept(c) \/ Receive(c) \/ Poll(c) \/ RemoteCloses(c) \/ Error(c) \/ Finishes(c)
      PROVE  ModbusInv'
  BY <1>5, AcceptInv, ReceiveInv, PollInv, LwipInv
<1>6. CASE UNCHANGED modbusVars
  BY <1>6, QuietKeeps DEF modbusVars
<1>. QED  BY <1>1, <1>2, <1>3, <1>4, <1>5, <1>6 DEF ModbusNext

\* Whatever connects, fails, closes or is reset, and whenever: the server's slots,
\* its records and what lwIP passes to its callbacks agree, it knows every open
\* connection, and a reply that waits goes to the client that asked.
THEOREM ClientsAlwaysConsistent == ModbusSpec => []ClientsConsistent
<1>1. ModbusInv => ClientsConsistent
  BY DEF ModbusInv
<1>. QED  BY <1>1, ModbusInitInv, ModbusNextInv, PTL DEF ModbusSpec

-----------------------------------------------------------------------------
(* Somebody always owes the server a start: the inductive invariant.       *)

Has(q, e) == \E i \in 1 .. Len(q) : q[i] = e

\* Behind the report that the cable is in there are only checks, ...
UpLast(q) ==
  \A i \in 1 .. Len(q) : q[i] = "up" => \A j \in i + 1 .. Len(q) : q[j] = "check"

\* ... and less than n events before it.
UpWithin(q, n) == \A i \in 1 .. Len(q) : q[i] = "up" => i <= n

StartIn(q) ==
  \E i \in 1 .. Len(q) :
    /\ q[i] \in {"UP", "START"}
    /\ \A j \in i + 1 .. Len(q) : q[j] # "CLOSE"

NetTypeOK ==
  /\ netQ \in Seq(NetEvents) /\ Len(netQ) <= NetQueue
  /\ netmon \in {"idle", "check"}
  /\ retry \in 0 .. LinkRetry
  /\ link \in BOOLEAN /\ ethLink \in BOOLEAN /\ linkUp \in BOOLEAN

\* The driver does not find the cable out before the monitor has taken the
\* report that it is in: every check counts `retry' down, and no more of them
\* than that wait before it.
UpComes ==
  /\ UpLast(netQ)
  /\ UpWithin(netQ, IF netmon = "check" THEN retry ELSE retry + 1)

\* Only the first event may say of a cable that is out that it is in.
UpTrue == Has(netQ, "up") => ethLink \/ (linkUp /\ ~ Has(netQ, "down"))

\* What the monitor makes of its queue is what the driver has found.
NetAgrees ==
  ethLink /\ "net" \notin lost => Has(netQ, "up") \/ (linkUp /\ ~ Has(netQ, "down"))

\* An old report that the cable is out has one after it that it is in, unless
\* it is the first event.
DownOld ==
  linkUp /\ Has(netQ, "down") =>
    \/ Has(netQ, "up") \/ "net" \in lost
    \/ ~ ethLink /\ netmon = "idle" /\ Head(netQ) = "down" /\ ~ Has(Tail(netQ), "down")

NetInv == NetTypeOK /\ UpComes /\ UpTrue /\ NetAgrees /\ DownOld

QueueTypeOK == modbusQ \in Seq(ModbusEvents) /\ timers \in Nat

StartComes ==
  \/ StartIn(modbusQ) \/ task \in {"UP", "UP2"}
  \/ ~ CloseAhead /\ (task = "START" \/ timers > 0 \/ server = "listen")

StartDue ==
  lost = {} /\ linkUp /\ ~ Has(netQ, "up") /\ ~ Has(netQ, "down") => StartComes

OwedInv == NetInv /\ QueueTypeOK /\ StartDue

-----------------------------------------------------------------------------
(* Queues: what an append and a take do to them.                           *)

LEMMA HasAppend ==
  ASSUME NEW S, NEW q \in Seq(S), NEW x \in S, NEW e
  PROVE  Has(Append(q, x), e) <=> Has(q, e) \/ x = e
<1>1. /\ Len(Append(q, x)) = Len(q) + 1 /\ Len(q) \in Nat
      /\ Append(q, x)[Len(q) + 1] = x
      /\ \A i \in 1 .. Len(q) : Append(q, x)[i] = q[i]
  OBVIOUS
<1>2. Has(q, e) => Has(Append(q, x), e)
  BY <1>1 DEF Has
<1>3. x = e => Has(Append(q, x), e)
  BY <1>1 DEF Has
<1>4. Has(Append(q, x), e) => Has(q, e) \/ x = e
  BY <1>1 DEF Has
<1>. QED  BY <1>2, <1>3, <1>4

LEMMA TailIs ==
  ASSUME NEW S, NEW q \in Seq(S), q # << >>
  PROVE  /\ Tail(q) \in Seq(S) /\ Head(q) = q[1] /\ Head(q) \in S
         /\ Len(q) \in Nat \ {0} /\ Len(Tail(q)) = Len(q) - 1
         /\ \A i \in 1 .. Len(Tail(q)) : Tail(q)[i] = q[i + 1]
OBVIOUS

LEMMA HasTail ==
  ASSUME NEW S, NEW q \in Seq(S), q # << >>, NEW e
  PROVE  Has(q, e) <=> Head(q) = e \/ Has(Tail(q), e)
<1>1. ASSUME Has(Tail(q), e) PROVE Has(q, e)
  <2>1. PICK i \in 1 .. Len(Tail(q)) : Tail(q)[i] = e
    BY <1>1 DEF Has
  <2>2. i + 1 \in 1 .. Len(q) /\ q[i + 1] = e
    BY <2>1, TailIs
  <2>. QED  BY <2>2 DEF Has
<1>2. Head(q) = e => Has(q, e)
  BY TailIs DEF Has
<1>3. ASSUME Has(q, e), Head(q) # e PROVE Has(Tail(q), e)
  <2>1. PICK i \in 1 .. Len(q) : q[i] = e
    BY <1>3 DEF Has
  <2>2. i # 1
    BY <1>3, <2>1, TailIs
  <2>3. i - 1 \in 1 .. Len(Tail(q)) /\ i = (i - 1) + 1
    BY <2>2, TailIs
  <2>4. Tail(q)[i - 1] = e
    BY <2>1, <2>3, TailIs
  <2>. QED  BY <2>3, <2>4 DEF Has
<1>. QED  BY <1>1, <1>2, <1>3

LEMMA UpAppend ==
  ASSUME NEW S, NEW q \in Seq(S), NEW x \in S
  PROVE  /\ UpLast(q) /\ x = "check" => UpLast(Append(q, x))
         /\ ~ Has(q, "up") => UpLast(Append(q, x))
         /\ \A n : UpWithin(q, n) /\ x # "up" => UpWithin(Append(q, x), n)
<1>1. /\ Len(Append(q, x)) = Len(q) + 1 /\ Len(q) \in Nat
      /\ Append(q, x)[Len(q) + 1] = x
      /\ \A i \in 1 .. Len(q) : Append(q, x)[i] = q[i]
  OBVIOUS
<1>2. ASSUME UpLast(q), x = "check" PROVE UpLast(Append(q, x))
  BY <1>1, <1>2 DEF UpLast
<1>3. ASSUME ~ Has(q, "up") PROVE UpLast(Append(q, x))
  BY <1>1, <1>3 DEF UpLast, Has
<1>4. ASSUME NEW n, UpWithin(q, n), x # "up" PROVE UpWithin(Append(q, x), n)
  BY <1>1, <1>4 DEF UpWithin
<1>. QED  BY <1>2, <1>3, <1>4

LEMMA UpTail ==
  ASSUME NEW S, NEW q \in Seq(S), q # << >>, UpLast(q)
  PROVE  /\ UpLast(Tail(q))
         /\ \A n \in Nat : UpWithin(q, n + 1) => UpWithin(Tail(q), n)
         /\ Head(q) = "up" => ~ Has(Tail(q), "up") /\ ~ Has(Tail(q), "down")
<1>. DEFINE t == Tail(q)
<1>1. \A i \in 1 .. Len(t) : t[i] = q[i + 1] /\ i + 1 \in 1 .. Len(q)
  BY TailIs
<1>2. Len(t) \in Nat /\ Len(q) \in Nat \ {0} /\ Len(t) = Len(q) - 1
  BY TailIs
<1>3. Head(q) = q[1] /\ 1 \in 1 .. Len(q)
  BY TailIs
<1>. HIDE DEF t
<1>4. UpLast(t)
  <2>. SUFFICES ASSUME NEW i \in 1 .. Len(t), t[i] = "up", NEW j \in i + 1 .. Len(t)
                PROVE  t[j] = "check"
    BY DEF UpLast
  <2>1. q[i + 1] = "up" /\ i + 1 \in 1 .. Len(q) /\ j \in 1 .. Len(t)
    BY <1>1, <1>2
  <2>2. t[j] = q[j + 1] /\ j + 1 \in (i + 1) + 1 .. Len(q)
    BY <1>1, <1>2, <2>1
  <2>. QED  BY <2>1, <2>2 DEF UpLast
<1>5. ASSUME NEW n \in Nat, UpWithin(q, n + 1) PROVE UpWithin(t, n)
  BY <1>1, <1>2, <1>5 DEF UpWithin
<1>6. ASSUME Head(q) = "up", NEW e \in {"up", "down"} PROVE ~ Has(t, e)
  <2>. SUFFICES ASSUME NEW i \in 1 .. Len(t), t[i] = e PROVE FALSE
    BY DEF Has
  <2>1. q[i + 1] = e /\ i + 1 \in 1 + 1 .. Len(q)
    BY <1>1, <1>2
  <2>2. q[i + 1] = "check"
    BY <1>3, <1>6, <2>1 DEF UpLast
  <2>. QED  BY <2>1, <2>2
<1>. QED  BY <1>4, <1>5, <1>6 DEF t

LEMMA UpWithins ==
  ASSUME NEW S, NEW q \in Seq(S)
  PROVE  /\ UpWithin(q, 0) => ~ Has(q, "up")
         /\ \A n \in Nat : Len(q) <= n => UpWithin(q, n)
BY DEF UpWithin, Has

LEMMA StartAppend ==
  ASSUME NEW S, NEW q \in Seq(S), NEW x \in S, x \in {"UP", "START"}
  PROVE  StartIn(Append(q, x))
<1>1. /\ Len(Append(q, x)) = Len(q) + 1 /\ Len(q) \in Nat
      /\ Append(q, x)[Len(q) + 1] = x
  OBVIOUS
<1>2. Len(q) + 1 \in 1 .. Len(Append(q, x))
  BY <1>1
<1>3. \A j \in (Len(q) + 1) + 1 .. Len(Append(q, x)) : Append(q, x)[j] # "CLOSE"
  BY <1>1
<1>. QED  BY <1>1, <1>2, <1>3 DEF StartIn

LEMMA StartTail ==
  ASSUME NEW S, NEW q \in Seq(S), q # << >>, StartIn(q)
  PROVE  \/ StartIn(Tail(q))
         \/ Head(q) \in {"UP", "START"} /\ ~ Has(Tail(q), "CLOSE")
<1>. DEFINE t == Tail(q)
<1>1. \A i \in 1 .. Len(t) : t[i] = q[i + 1]
  BY TailIs
<1>2. Len(t) \in Nat /\ Len(q) \in Nat \ {0} /\ Len(t) = Len(q) - 1 /\ Head(q) = q[1]
  BY TailIs
<1>. HIDE DEF t
<1>3. PICK i \in 1 .. Len(q) :
        q[i] \in {"UP", "START"} /\ \A j \in i + 1 .. Len(q) : q[j] # "CLOSE"
  BY DEF StartIn
<1>4. CASE i = 1
  <2>1. \A k \in 1 .. Len(t) : k + 1 \in i + 1 .. Len(q)
    BY <1>2, <1>4
  <2>2. ~ Has(t, "CLOSE")
    BY <1>1, <1>3, <2>1 DEF Has
  <2>. QED  BY <1>2, <1>3, <1>4, <2>2 DEF t
<1>5. CASE i # 1
  <2>1. i - 1 \in 1 .. Len(t) /\ i = (i - 1) + 1
    BY <1>2, <1>5
  <2>2. t[i - 1] \in {"UP", "START"}
    BY <1>1, <1>3, <2>1
  <2>3. ASSUME NEW j \in (i - 1) + 1 .. Len(t) PROVE t[j] # "CLOSE"
    <3>1. j \in 1 .. Len(t) /\ j + 1 \in i + 1 .. Len(q)
      BY <1>2
    <3>. QED  BY <1>1, <1>3, <3>1
  <2>4. StartIn(t)
    BY <2>1, <2>2, <2>3 DEF StartIn
  <2>. QED  BY <2>4 DEF t
<1>. QED  BY <1>4, <1>5

LEMMA PutIs ==
  ASSUME NEW S, NEW q \in Seq(S), NEW x \in S, NEW n
  PROVE  Put(q, x, n) \in Seq(S) /\ (Put(q, x, n) = Append(q, x) \/ Put(q, x, n) = q)
BY DEF Put

-----------------------------------------------------------------------------
(* The network monitor.                                                    *)

LEMMA NetInit == ModbusInit => NetInv
<1>. SUFFICES ASSUME ModbusInit PROVE NetInv
  OBVIOUS
<1>1. /\ netQ = <<"up">> \/ (netQ = <<"down">> /\ ~ ethLink)
      /\ linkUp = TRUE /\ netmon = "idle" /\ retry = 0 /\ lost = {}
      /\ link \in BOOLEAN /\ ethLink \in BOOLEAN
  BY DEF ModbusInit
<1>2. NetTypeOK
  <2>1. netQ \in Seq(NetEvents) /\ Len(netQ) = 1
    <3>1. \A e \in NetEvents : <<e>> \in Seq(NetEvents) /\ Len(<<e>>) = 1
      OBVIOUS
    <3>2. "up" \in NetEvents /\ "down" \in NetEvents
      BY DEF NetEvents
    <3>. QED  BY <1>1, <3>1, <3>2, Zenon
  <2>2. 1 <= NetQueue /\ 0 \in 0 .. LinkRetry
    BY ModbusTcpAssumption
  <2>. QED  BY <1>1, <2>1, <2>2 DEF NetTypeOK
<1>3. UpComes
  BY <1>1 DEF UpComes, UpLast, UpWithin
<1>4. CASE netQ = <<"up">>
  <2>1. Has(netQ, "up") /\ ~ Has(netQ, "down")
    BY <1>4 DEF Has
  <2>. QED  BY <1>1, <1>2, <1>3, <2>1 DEF NetInv, UpTrue, NetAgrees, DownOld
<1>5. CASE netQ = <<"down">> /\ ~ ethLink
  <2>1. ~ Has(netQ, "up") /\ Head(netQ) = "down" /\ ~ Has(Tail(netQ), "down")
    BY <1>5 DEF Has
  <2>. QED  BY <1>1, <1>2, <1>3, <1>5, <2>1 DEF NetInv, UpTrue, NetAgrees, DownOld
<1>. QED  BY <1>1, <1>4, <1>5

\* What does not concern the monitor.
LEMMA NetKept ==
  ASSUME NetInv, UNCHANGED netVars, link' \in BOOLEAN,
         "net" \in lost' <=> "net" \in lost
  PROVE  NetInv'
<1>1. UNCHANGED <<ethLink, retry, linkUp, netQ, netmon>>
  BY DEF netVars
<1>2. NetTypeOK' /\ UpComes' /\ UpTrue'
  BY <1>1 DEF NetInv, NetTypeOK, UpComes, UpTrue
<1>3. NetAgrees' /\ DownOld'
  BY <1>1 DEF NetInv, NetAgrees, DownOld
<1>. QED  BY <1>2, <1>3 DEF NetInv

LEMMA TimerNet == NetInv /\ NetmonTimer => NetInv'
<1>. SUFFICES ASSUME NetInv, NetmonTimer PROVE NetInv'
  OBVIOUS
<1>1. /\ Len(netQ) < NetQueue /\ netQ' = Append(netQ, "check")
      /\ UNCHANGED <<link, ethLink, retry, linkUp, netmon, lost>>
  BY DEF NetmonTimer
<1>2. netQ \in Seq(NetEvents) /\ "check" \in NetEvents
  BY DEF NetInv, NetTypeOK, NetEvents
<1>3. NetTypeOK'
  BY <1>1, <1>2, ModbusTcpAssumption DEF NetInv, NetTypeOK
<1>4. /\ Has(netQ', "up") <=> Has(netQ, "up")
      /\ Has(netQ', "down") <=> Has(netQ, "down")
  BY <1>1, <1>2, HasAppend
<1>5. UpComes'
  <2>1. UpLast(netQ')
    BY <1>1, <1>2, UpAppend DEF NetInv, UpComes
  <2>. DEFINE n == IF netmon = "check" THEN retry ELSE retry + 1
  <2>2. UpWithin(netQ, n)
    BY DEF NetInv, UpComes
  <2>. HIDE DEF n
  <2>3. UpWithin(netQ', n)
    BY <1>1, <1>2, <2>2, UpAppend
  <2>. QED  BY <1>1, <2>1, <2>3 DEF UpComes, n
<1>6. UpTrue' /\ NetAgrees'
  BY <1>1, <1>4 DEF NetInv, UpTrue, NetAgrees
<1>7. DownOld'
  <2>. SUFFICES ASSUME linkUp', Has(netQ', "down"), ~ Has(netQ', "up"), "net" \notin lost'
                PROVE  ~ ethLink' /\ netmon' = "idle" /\ Head(netQ') = "down"
                       /\ ~ Has(Tail(netQ'), "down")
    BY DEF DownOld
  <2>1. /\ ~ ethLink /\ netmon = "idle" /\ Head(netQ) = "down"
        /\ ~ Has(Tail(netQ), "down")
    BY <1>1, <1>4 DEF NetInv, DownOld
  <2>2. netQ # << >>
    BY <1>1, <1>4 DEF Has
  <2>3. Head(netQ') = Head(netQ) /\ Tail(netQ') = Append(Tail(netQ), "check")
        /\ Tail(netQ) \in Seq(NetEvents)
    BY <1>1, <1>2, <2>2
  <2>4. ~ Has(Tail(netQ'), "down")
    <3>. DEFINE t == Tail(netQ)
    <3>1. ~ Has(t, "down") /\ t \in Seq(NetEvents)
      BY <2>1, <2>3
    <3>. HIDE DEF t
    <3>2. ~ Has(Append(t, "check"), "down")
      BY <1>2, <3>1, HasAppend
    <3>. QED  BY <2>3, <3>2 DEF t
  <2>. QED  BY <1>1, <2>1, <2>3, <2>4
<1>. QED  BY <1>3, <1>5, <1>6, <1>7 DEF NetInv

\* The monitor takes an event.
LEMMA TakeNet ==
  ASSUME NetInv, NEW e \in NetEvents, NetmonTakes(e)
  PROVE  /\ netQ \in Seq(NetEvents) /\ netQ # << >> /\ Head(netQ) = e
         /\ netQ' = Tail(netQ) /\ netQ' \in Seq(NetEvents) /\ Len(netQ') <= NetQueue
         /\ UpLast(netQ') /\ UpWithin(netQ', retry)
         /\ netmon = "idle" /\ retry \in 0 .. LinkRetry
         /\ \A x : x # e => (Has(netQ', x) <=> Has(netQ, x))
<1>1. /\ netmon = "idle" /\ netQ # << >> /\ Head(netQ) = e /\ netQ' = Tail(netQ)
  BY DEF NetmonTakes
<1>2. netQ \in Seq(NetEvents) /\ Len(netQ) <= NetQueue /\ retry \in 0 .. LinkRetry
  BY DEF NetInv, NetTypeOK
<1>3. netQ' \in Seq(NetEvents) /\ Len(netQ') <= NetQueue
  BY <1>1, <1>2, TailIs, ModbusTcpAssumption
<1>4. UpLast(netQ) /\ UpWithin(netQ, retry + 1)
  BY <1>1 DEF NetInv, UpComes
<1>5. retry \in Nat
  BY <1>2, ModbusTcpAssumption
<1>6. UpLast(netQ') /\ UpWithin(netQ', retry)
  BY <1>1, <1>2, <1>4, <1>5, UpTail
<1>7. \A x : x # e => (Has(netQ', x) <=> Has(netQ, x))
  BY <1>1, <1>2, HasTail
<1>. QED  BY <1>1, <1>2, <1>3, <1>6, <1>7

LEMMA OneMoreWithin ==
  ASSUME NEW q, NEW n \in Nat, UpWithin(q, n)
  PROVE  UpWithin(q, n + 1)
BY DEF UpWithin

LEMMA UpNet == NetInv /\ NetmonUp => NetInv'
<1>. SUFFICES ASSUME NetInv, NetmonUp PROVE NetInv'
  OBVIOUS
<1>1. NetmonTakes("up") /\ linkUp' = TRUE /\ UNCHANGED <<link, ethLink, retry, netmon>>
  BY DEF NetmonUp
<1>2. "up" \in NetEvents
  BY DEF NetEvents
<1>3. /\ netQ \in Seq(NetEvents) /\ netQ # << >> /\ Head(netQ) = "up"
      /\ netQ' = Tail(netQ) /\ netQ' \in Seq(NetEvents) /\ Len(netQ') <= NetQueue
      /\ UpLast(netQ') /\ UpWithin(netQ', retry)
      /\ netmon = "idle" /\ retry \in 0 .. LinkRetry
  BY <1>1, <1>2, TakeNet
<1>4. ~ Has(netQ', "up") /\ ~ Has(netQ', "down")
  BY <1>3, UpTail DEF NetInv, UpComes
<1>5. NetTypeOK'
  BY <1>1, <1>3 DEF NetInv, NetTypeOK
<1>6. UpComes'
  BY <1>1, <1>3, <1>4 DEF UpComes, UpWithin, Has
<1>7. UpTrue' /\ NetAgrees' /\ DownOld'
  BY <1>1, <1>4 DEF UpTrue, NetAgrees, DownOld
<1>. QED  BY <1>5, <1>6, <1>7 DEF NetInv

LEMMA DownNet == NetInv /\ NetmonDown => NetInv'
<1>. SUFFICES ASSUME NetInv, NetmonDown PROVE NetInv'
  OBVIOUS
<1>1. /\ NetmonTakes("down") /\ linkUp' = FALSE
      /\ UNCHANGED <<link, ethLink, retry, netmon, lost>>
  BY DEF NetmonDown
<1>2. "down" \in NetEvents
  BY DEF NetEvents
<1>3. /\ netQ \in Seq(NetEvents) /\ netQ # << >> /\ Head(netQ) = "down"
      /\ netQ' \in Seq(NetEvents) /\ Len(netQ') <= NetQueue
      /\ UpLast(netQ') /\ UpWithin(netQ', retry)
      /\ netmon = "idle" /\ retry \in 0 .. LinkRetry
      /\ Has(netQ', "up") <=> Has(netQ, "up")
  BY <1>1, <1>2, TakeNet
<1>4. Has(netQ, "down")
  BY <1>3, HasTail
<1>5. NetTypeOK'
  BY <1>1, <1>3 DEF NetInv, NetTypeOK
<1>6. UpComes'
  <2>1. retry \in Nat
    BY <1>3, ModbusTcpAssumption
  <2>2. UpWithin(netQ', retry + 1)
    BY <1>3, <2>1, OneMoreWithin
  <2>. QED  BY <1>1, <1>3, <2>2 DEF UpComes
<1>7. UpTrue' /\ NetAgrees' /\ DownOld'
  BY <1>1, <1>3, <1>4 DEF NetInv, UpTrue, NetAgrees, DownOld
<1>. QED  BY <1>5, <1>6, <1>7 DEF NetInv

LEMMA TakesCheckNet == NetInv /\ NetmonTakesCheck => NetInv'
<1>. SUFFICES ASSUME NetInv, NetmonTakesCheck PROVE NetInv'
  OBVIOUS
<1>1. /\ NetmonTakes("check") /\ netmon' = "check"
      /\ UNCHANGED <<link, ethLink, retry, linkUp, lost>>
  BY DEF NetmonTakesCheck
<1>2. "check" \in NetEvents
  BY DEF NetEvents
<1>3. /\ Head(netQ) = "check"
      /\ netQ' \in Seq(NetEvents) /\ Len(netQ') <= NetQueue
      /\ UpLast(netQ') /\ UpWithin(netQ', retry) /\ retry \in 0 .. LinkRetry
      /\ Has(netQ', "up") <=> Has(netQ, "up")
      /\ Has(netQ', "down") <=> Has(netQ, "down")
  BY <1>1, <1>2, TakeNet
<1>4. NetTypeOK'
  BY <1>1, <1>3 DEF NetInv, NetTypeOK
<1>5. UpComes'
  BY <1>1, <1>3 DEF UpComes
<1>6. UpTrue' /\ NetAgrees' /\ DownOld'
  BY <1>1, <1>3 DEF NetInv, UpTrue, NetAgrees, DownOld
<1>. QED  BY <1>4, <1>5, <1>6 DEF NetInv

LEMMA CheckNet == NetInv /\ NetmonCheck => NetInv'
<1>. SUFFICES ASSUME NetInv, NetmonCheck PROVE NetInv'
  OBVIOUS
<1>1. /\ netmon = "check" /\ netmon' = "idle"
      /\ retry' = IF link \/ retry = 0 THEN LinkRetry ELSE retry - 1
      /\ IF link # ethLink /\ (link \/ retry = 0)
         THEN NetmonReports(link)
         ELSE UNCHANGED <<ethLink, linkUp, netQ, lost>>
      /\ link' = link /\ link \in BOOLEAN
  BY DEF NetmonCheck, NetInv, NetTypeOK
<1>2. /\ netQ \in Seq(NetEvents) /\ Len(netQ) <= NetQueue
      /\ retry \in 0 .. LinkRetry /\ LinkRetry \in Nat /\ NetQueue \in Nat
      /\ NetQueue <= LinkRetry + 1
  BY ModbusTcpAssumption, QueueAssumption DEF NetInv, NetTypeOK
<1>3. retry' \in 0 .. LinkRetry
  BY <1>1, <1>2
<1>4. UpLast(netQ) /\ UpWithin(netQ, retry)
  BY <1>1 DEF NetInv, UpComes
<1>5. linkUp /\ Has(netQ, "down") => Has(netQ, "up") \/ "net" \in lost
  BY <1>1 DEF NetInv, DownOld
<1>6. CASE UNCHANGED <<ethLink, linkUp, netQ, lost>>
  <2>1. UpWithin(netQ, retry' + 1)
    <3>1. CASE link \/ retry = 0
      <4>1. Len(netQ) \in Nat /\ Len(netQ) <= LinkRetry + 1 /\ LinkRetry + 1 \in Nat
        BY <1>2
      <4>2. UpWithin(netQ, LinkRetry + 1)
        BY <1>2, <4>1, UpWithins
      <4>. QED  BY <1>1, <3>1, <4>2
    <3>2. CASE ~ (link \/ retry = 0)
      <4>1. retry' + 1 = retry
        BY <1>1, <1>2, <3>2
      <4>. QED  BY <1>4, <4>1
    <3>. QED  BY <3>1, <3>2
  <2>2. NetTypeOK' /\ UpComes'
    BY <1>1, <1>3, <1>4, <1>6, <2>1 DEF NetInv, NetTypeOK, UpComes
  <2>3. UpTrue' /\ NetAgrees' /\ DownOld'
    BY <1>5, <1>6 DEF NetInv, UpTrue, NetAgrees, DownOld
  <2>. QED  BY <2>2, <2>3 DEF NetInv
<1>7. CASE ~ ethLink /\ link /\ NetmonReports(TRUE)
  <2>1. /\ ethLink' = TRUE /\ linkUp' = TRUE
        /\ IF linkUp = TRUE
           THEN UNCHANGED <<netQ, lost>>
           ELSE netQ' = Put(netQ, "up", NetQueue) /\ lost' = Lose("net", netQ, NetQueue)
    BY <1>7 DEF NetmonReports
  <2>2. linkUp \in BOOLEAN
    BY DEF NetInv, NetTypeOK
  <2>3. CASE linkUp
    <3>1. UNCHANGED <<netQ, lost>>
      BY <2>1, <2>3
    <3>2. Len(netQ) \in Nat /\ Len(netQ) <= LinkRetry + 1 /\ LinkRetry + 1 \in Nat
      BY <1>2
    <3>3. UpWithin(netQ, LinkRetry + 1)
      BY <1>2, <3>2, UpWithins
    <3>4. retry' = LinkRetry
      BY <1>1, <1>7
    <3>5. NetTypeOK' /\ UpComes'
      BY <1>1, <1>2, <1>3, <1>4, <2>1, <3>1, <3>3, <3>4 DEF NetTypeOK, UpComes
    <3>6. UpTrue' /\ NetAgrees' /\ DownOld'
      BY <1>5, <2>1, <2>3, <3>1 DEF UpTrue, NetAgrees, DownOld
    <3>. QED  BY <3>5, <3>6 DEF NetInv
  <2>4. CASE ~ linkUp
    <3>1. netQ' = Put(netQ, "up", NetQueue) /\ lost' = Lose("net", netQ, NetQueue)
      BY <2>1, <2>2, <2>4
    <3>2. ~ Has(netQ, "up")
      BY <1>7, <2>4 DEF NetInv, UpTrue
    <3>3. "up" \in NetEvents
      BY DEF NetEvents
    <3>4. CASE Len(netQ) < NetQueue
      <4>1. netQ' = Append(netQ, "up")
        BY <3>1, <3>4 DEF Put
      <4>2. netQ' \in Seq(NetEvents) /\ Len(netQ') <= NetQueue
        BY <1>2, <3>3, <3>4, <4>1
      <4>3. Has(netQ', "up") /\ UpLast(netQ')
        BY <1>2, <3>2, <3>3, <4>1, HasAppend, UpAppend
      <4>4. Len(netQ') \in Nat /\ Len(netQ') <= LinkRetry + 1 /\ LinkRetry + 1 \in Nat
        BY <1>2, <4>2
      <4>5. UpWithin(netQ', LinkRetry + 1)
        BY <4>2, <4>4, UpWithins
      <4>6. retry' = LinkRetry
        BY <1>1, <1>7
      <4>7. NetTypeOK' /\ UpComes'
        BY <1>1, <1>3, <2>1, <4>2, <4>3, <4>5, <4>6 DEF NetTypeOK, UpComes
      <4>8. UpTrue' /\ NetAgrees' /\ DownOld'
        BY <2>1, <4>3 DEF UpTrue, NetAgrees, DownOld
      <4>. QED  BY <4>7, <4>8 DEF NetInv
    <3>5. CASE ~ Len(netQ) < NetQueue
      <4>1. netQ' = netQ /\ "net" \in lost'
        BY <3>1, <3>5 DEF Put, Lose
      <4>2. UpWithin(netQ, retry' + 1)
        BY <3>2 DEF UpWithin, Has
      <4>3. NetTypeOK' /\ UpComes'
        BY <1>1, <1>2, <1>3, <1>4, <2>1, <4>1, <4>2 DEF NetTypeOK, UpComes
      <4>4. UpTrue' /\ NetAgrees' /\ DownOld'
        BY <2>1, <4>1 DEF UpTrue, NetAgrees, DownOld
      <4>. QED  BY <4>3, <4>4 DEF NetInv
    <3>. QED  BY <3>4, <3>5
  <2>. QED  BY <2>3, <2>4
<1>8. CASE retry = 0 /\ NetmonReports(FALSE)
  <2>1. /\ ethLink' = FALSE /\ linkUp' = FALSE
        /\ netQ' = netQ \/ netQ' = Put(netQ, "down", NetQueue)
    BY <1>8 DEF NetmonReports
  <2>2. ~ Has(netQ, "up")
    BY <1>2, <1>4, <1>8, UpWithins
  <2>3. "down" \in NetEvents
    BY DEF NetEvents
  <2>4. CASE netQ' = netQ
    <3>1. UpWithin(netQ, retry' + 1)
      BY <2>2 DEF UpWithin, Has
    <3>2. NetTypeOK' /\ UpComes'
      BY <1>1, <1>2, <1>3, <1>4, <2>1, <2>4, <3>1 DEF NetTypeOK, UpComes
    <3>3. UpTrue' /\ NetAgrees' /\ DownOld'
      BY <2>1, <2>2, <2>4 DEF UpTrue, NetAgrees, DownOld
    <3>. QED  BY <3>2, <3>3 DEF NetInv
  <2>5. CASE netQ' # netQ
    <3>1. Len(netQ) < NetQueue /\ netQ' = Append(netQ, "down")
      BY <2>1, <2>5 DEF Put
    <3>2. netQ' \in Seq(NetEvents) /\ Len(netQ') <= NetQueue
      BY <1>2, <2>3, <3>1
    <3>3. ~ Has(netQ', "up")
      BY <1>2, <2>2, <2>3, <3>1, HasAppend
    <3>4. UpLast(netQ') /\ UpWithin(netQ', retry' + 1)
      BY <3>3 DEF UpLast, UpWithin, Has
    <3>5. NetTypeOK' /\ UpComes'
      BY <1>1, <1>3, <2>1, <3>2, <3>4 DEF NetTypeOK, UpComes
    <3>6. UpTrue' /\ NetAgrees' /\ DownOld'
      BY <2>1, <3>3 DEF UpTrue, NetAgrees, DownOld
    <3>. QED  BY <3>5, <3>6 DEF NetInv
  <2>. QED  BY <2>4, <2>5
<1>9. CASE link # ethLink /\ (link \/ retry = 0) /\ NetmonReports(link)
  <2>1. CASE link = TRUE
    BY <1>7, <1>9, <2>1 DEF NetInv, NetTypeOK
  <2>2. CASE link = FALSE
    <3>1. retry = 0 /\ NetmonReports(FALSE)
      BY <1>9, <2>2, Zenon
    <3>. QED  BY <1>8, <3>1
  <2>. QED  BY <1>1, <2>1, <2>2
<1>. QED  BY <1>1, <1>6, <1>9

-----------------------------------------------------------------------------
(* The server: its start is due.                                           *)

LEMMA DueKept ==
  ASSUME StartDue, UNCHANGED <<linkUp, netQ>>,
         lost' = {} => StartComes' \/ (lost = {} /\ (StartComes => StartComes'))
  PROVE  StartDue'
BY DEF StartDue

\* An event that leads to a start is put to the queue, or finds it full.
LEMMA StartPut ==
  ASSUME QueueTypeOK, NEW x \in {"UP", "START"},
         modbusQ' = Put(modbusQ, x, ModbusQueue), timers' \in Nat
  PROVE  /\ QueueTypeOK'
         /\ Len(modbusQ) < ModbusQueue => StartComes'
         /\ ~ Len(modbusQ) < ModbusQueue => modbusQ' = modbusQ
<1>1. modbusQ \in Seq(ModbusEvents) /\ x \in ModbusEvents
  BY DEF QueueTypeOK, ModbusEvents
<1>2. QueueTypeOK'
  BY <1>1, PutIs DEF QueueTypeOK
<1>3. ASSUME Len(modbusQ) < ModbusQueue PROVE StartComes'
  <2>1. modbusQ' = Append(modbusQ, x)
    BY <1>3 DEF Put
  <2>2. StartIn(modbusQ')
    BY <1>1, <2>1, StartAppend
  <2>. QED  BY <2>2 DEF StartComes
<1>4. ASSUME ~ Len(modbusQ) < ModbusQueue PROVE modbusQ' = modbusQ
  BY <1>4 DEF Put
<1>. QED  BY <1>2, <1>3, <1>4

LEMMA OwedInit == ModbusInit => OwedInv
<1>. SUFFICES ASSUME ModbusInit PROVE OwedInv
  OBVIOUS
<1>1. NetInv
  BY NetInit
<1>2. QueueTypeOK
  BY DEF ModbusInit, QueueTypeOK
<1>3. Has(netQ, "up") \/ Has(netQ, "down")
  BY DEF ModbusInit, Has
<1>. QED  BY <1>1, <1>2, <1>3 DEF OwedInv, StartDue

\* Nothing of it changes.
LEMMA OwedKept ==
  ASSUME OwedInv, UNCHANGED <<netVars, modbusQ, task, server, timers, lost>>,
         link' \in BOOLEAN
  PROVE  OwedInv'
<1>1. NetInv'
  BY NetKept DEF OwedInv
<1>2. QueueTypeOK'
  BY DEF OwedInv, QueueTypeOK
<1>3. UNCHANGED <<linkUp, netQ>>
  BY DEF netVars
<1>4. StartComes' = StartComes
  BY DEF StartComes, CloseAhead
<1>5. StartDue'
  BY <1>3, <1>4, DueKept DEF OwedInv
<1>. QED  BY <1>1, <1>2, <1>5 DEF OwedInv

\* The server's task, or its timer.
LEMMA OwedServer ==
  ASSUME OwedInv, UNCHANGED <<link, netVars>>, "net" \in lost' <=> "net" \in lost,
         QueueTypeOK',
         lost' = {} => StartComes' \/ (lost = {} /\ (StartComes => StartComes'))
  PROVE  OwedInv'
<1>1. NetInv'
  BY NetKept DEF OwedInv, NetInv, NetTypeOK
<1>2. UNCHANGED <<linkUp, netQ>>
  BY DEF netVars
<1>3. StartDue'
  BY <1>2, DueKept DEF OwedInv
<1>. QED  BY <1>1, <1>3 DEF OwedInv

LEMMA ResetOwed == OwedInv /\ ResetCommand => OwedInv'
<1>. SUFFICES ASSUME OwedInv, ResetCommand PROVE OwedInv'
  OBVIOUS
<1>1. /\ modbusQ' = Put(modbusQ, "UP", ModbusQueue)
      /\ UNCHANGED <<link, netVars, task, server, timers, lost>>
  BY DEF ResetCommand
<1>2. QueueTypeOK /\ timers' \in Nat
  BY <1>1 DEF OwedInv, QueueTypeOK
<1>3. /\ QueueTypeOK'
      /\ Len(modbusQ) < ModbusQueue => StartComes'
      /\ ~ Len(modbusQ) < ModbusQueue => modbusQ' = modbusQ
  BY <1>1, <1>2, StartPut
<1>4. modbusQ' = modbusQ => StartComes' = StartComes
  BY <1>1 DEF StartComes, CloseAhead
<1>. QED  BY <1>1, <1>3, <1>4, OwedServer

LEMMA TimerOwed == OwedInv /\ RestartTimer => OwedInv'
<1>. SUFFICES ASSUME OwedInv, RestartTimer PROVE OwedInv'
  OBVIOUS
<1>1. timers \in Nat /\ timers > 0 /\ QueueTypeOK /\ UNCHANGED <<link, netVars>>
  BY DEF OwedInv, QueueTypeOK, RestartTimer
<1>2. CASE Len(modbusQ) < ModbusQueue
  <2>1. modbusQ' = Put(modbusQ, "START", ModbusQueue) /\ timers' = Less(timers, 2) /\ lost' = lost
    BY <1>2 DEF RestartTimer, Put
  <2>2. timers' \in Nat
    BY <1>1, <2>1 DEF Less
  <2>3. QueueTypeOK' /\ StartComes'
    BY <1>1, <1>2, <2>1, <2>2, StartPut
  <2>. QED  BY <1>1, <2>1, <2>3, OwedServer
<1>3. CASE ~ Len(modbusQ) < ModbusQueue
  <2>1. modbusQ' = modbusQ /\ timers' = timers - 1 /\ lost' = lost \union {"modbus"}
    BY <1>3 DEF RestartTimer
  <2>2. QueueTypeOK'
    BY <1>1, <2>1 DEF QueueTypeOK
  <2>3. lost' # {} /\ ("net" \in lost' <=> "net" \in lost)
    BY <2>1
  <2>. QED  BY <1>1, <2>2, <2>3, OwedServer
<1>. QED  BY <1>2, <1>3

LEMMA TaskOwed == OwedInv /\ Task => OwedInv'
<1>. SUFFICES ASSUME OwedInv, Task PROVE OwedInv'
  OBVIOUS
<1>1. QueueTypeOK /\ modbusQ \in Seq(ModbusEvents) /\ timers \in Nat
  BY DEF OwedInv, QueueTypeOK
<1>2. CASE Take
  <2>1. /\ task = "idle" /\ modbusQ # << >>
        /\ task' = Head(modbusQ) /\ modbusQ' = Tail(modbusQ)
        /\ UNCHANGED <<link, netVars, server, timers, lost>>
    BY <1>2 DEF Take
  <2>2. QueueTypeOK'
    BY <1>1, <2>1, TailIs DEF QueueTypeOK
  <2>3. ASSUME StartIn(modbusQ) PROVE StartComes'
    <3>1. CASE StartIn(modbusQ')
      BY <3>1 DEF StartComes
    <3>2. CASE Head(modbusQ) \in {"UP", "START"} /\ ~ Has(modbusQ', "CLOSE")
      <4>1. task' = "UP" \/ (task' = "START" /\ ~ CloseAhead')
        BY <2>1, <3>2 DEF CloseAhead, Has
      <4>. QED  BY <4>1 DEF StartComes
    <3>. QED  BY <1>1, <2>1, <2>3, <3>1, <3>2, StartTail
  <2>4. ASSUME ~ CloseAhead, timers > 0 \/ server = "listen" PROVE StartComes'
    <3>1. ~ Has(modbusQ, "CLOSE")
      BY <2>4 DEF CloseAhead, Has
    <3>2. Head(modbusQ) # "CLOSE" /\ ~ Has(Tail(modbusQ), "CLOSE")
      BY <1>1, <2>1, <3>1, HasTail
    <3>3. ~ CloseAhead'
      BY <2>1, <3>2 DEF CloseAhead, Has
    <3>. QED  BY <2>1, <2>4, <3>3 DEF StartComes
  <2>5. StartComes => StartComes'
    BY <2>1, <2>3, <2>4 DEF StartComes
  <2>. QED  BY <2>1, <2>2, <2>5, OwedServer
<1>3. CASE PutClose
  <2>1. /\ task' = "UP2" /\ modbusQ' = Put(modbusQ, "CLOSE", ModbusQueue)
        /\ UNCHANGED <<link, netVars, timers, lost>>
    BY <1>3 DEF PutClose
  <2>2. "CLOSE" \in ModbusEvents
    BY DEF ModbusEvents
  <2>3. QueueTypeOK'
    BY <1>1, <2>1, <2>2, PutIs DEF QueueTypeOK
  <2>4. StartComes'
    BY <2>1 DEF StartComes
  <2>. QED  BY <2>1, <2>3, <2>4, OwedServer
<1>4. CASE PutStart
  <2>1. /\ modbusQ' = Put(modbusQ, "START", ModbusQueue)
        /\ lost' = Lose("modbus", modbusQ, ModbusQueue)
        /\ UNCHANGED <<link, netVars, timers>>
    BY <1>4 DEF PutStart
  <2>2. QueueTypeOK' /\ (Len(modbusQ) < ModbusQueue => StartComes')
    BY <1>1, <2>1, StartPut
  <2>3. /\ "net" \in lost' <=> "net" \in lost
        /\ ~ Len(modbusQ) < ModbusQueue => lost' # {}
    BY <2>1 DEF Lose
  <2>. QED  BY <2>1, <2>2, <2>3, OwedServer
<1>5. CASE StartServer \/ StartFails \/ StartNoMemory
  <2>1. /\ task = "START" /\ task' = "idle"
        /\ UNCHANGED <<link, netVars, modbusQ, lost>>
    BY <1>5 DEF StartServer, StartFails, StartNoMemory, Starts
  <2>2. timers' \in Nat /\ (timers' > 0 \/ server' = "listen")
    BY <1>1, <1>5 DEF StartServer, StartFails, StartNoMemory
  <2>3. QueueTypeOK'
    BY <1>1, <2>1, <2>2 DEF QueueTypeOK
  <2>4. CloseAhead' = CloseAhead
    BY <2>1 DEF CloseAhead
  <2>5. StartComes => StartComes'
    BY <2>1, <2>2, <2>4 DEF StartComes
  <2>. QED  BY <2>1, <2>3, <2>5, OwedServer
<1>6. CASE CloseAll
  <2>1. /\ task = "CLOSE" /\ timers' = Less(timers, 1)
        /\ UNCHANGED <<link, netVars, modbusQ, lost>>
    BY <1>6 DEF CloseAll
  <2>2. QueueTypeOK'
    BY <1>1, <2>1 DEF QueueTypeOK, Less
  <2>3. StartComes => StartComes'
    BY <2>1 DEF StartComes, CloseAhead
  <2>. QED  BY <2>1, <2>2, <2>3, OwedServer
<1>. QED  BY <1>2, <1>3, <1>4, <1>5, <1>6 DEF Task

LEMMA NetmonOwed == OwedInv /\ (NetmonTimer \/ Netmon) => OwedInv'
<1>. SUFFICES ASSUME OwedInv, NetmonTimer \/ Netmon PROVE OwedInv'
  OBVIOUS
<1>0. NetInv /\ QueueTypeOK /\ StartDue
  BY DEF OwedInv
<1>1. netQ \in Seq(NetEvents) /\ "check" \in NetEvents /\ linkUp \in BOOLEAN
  BY <1>0 DEF NetInv, NetTypeOK, NetEvents
<1>2. CASE NetmonTimer
  <2>1. netQ' = Append(netQ, "check") /\ UNCHANGED <<linkUp, modbusQ, task, server, timers, lost>>
    BY <1>2 DEF NetmonTimer
  <2>2. /\ Has(netQ', "up") <=> Has(netQ, "up")
        /\ Has(netQ', "down") <=> Has(netQ, "down")
    BY <1>1, <2>1, HasAppend
  <2>3. StartComes' = StartComes /\ QueueTypeOK'
    BY <1>0, <2>1 DEF StartComes, CloseAhead, QueueTypeOK
  <2>4. StartDue'
    BY <1>0, <2>1, <2>2, <2>3 DEF StartDue
  <2>. QED  BY <1>0, <1>2, <2>3, <2>4, TimerNet DEF OwedInv
<1>3. CASE NetmonUp
  <2>1. /\ modbusQ' = Put(modbusQ, "UP", ModbusQueue) /\ timers' = timers
        /\ lost' = IF Len(modbusQ) < ModbusQueue THEN lost ELSE lost \union {"modbus"}
    BY <1>3 DEF NetmonUp
  <2>2. timers' \in Nat
    BY <1>0, <2>1 DEF QueueTypeOK
  <2>3. QueueTypeOK' /\ (Len(modbusQ) < ModbusQueue => StartComes')
    BY <1>0, <2>1, <2>2, StartPut
  <2>4. StartDue'
    BY <2>1, <2>3 DEF StartDue
  <2>. QED  BY <1>0, <1>3, <2>3, <2>4, UpNet DEF OwedInv
<1>4. CASE NetmonDown
  <2>1. modbusQ' = Put(modbusQ, "CLOSE", ModbusQueue) /\ timers' = timers /\ linkUp' = FALSE
    BY <1>4 DEF NetmonDown
  <2>2. modbusQ \in Seq(ModbusEvents) /\ "CLOSE" \in ModbusEvents /\ timers \in Nat
    BY <1>0 DEF QueueTypeOK, ModbusEvents
  <2>3. QueueTypeOK'
    BY <2>1, <2>2, PutIs DEF QueueTypeOK
  <2>4. StartDue'
    BY <2>1 DEF StartDue
  <2>. QED  BY <1>0, <1>4, <2>3, <2>4, DownNet DEF OwedInv
<1>5. CASE NetmonTakesCheck
  <2>1. NetmonTakes("check") /\ UNCHANGED <<linkUp, modbusQ, task, server, timers, lost>>
    BY <1>5 DEF NetmonTakesCheck
  <2>2. /\ Has(netQ', "up") <=> Has(netQ, "up")
        /\ Has(netQ', "down") <=> Has(netQ, "down")
    BY <1>0, <1>1, <2>1, TakeNet
  <2>3. StartComes' = StartComes /\ QueueTypeOK'
    BY <1>0, <2>1 DEF StartComes, CloseAhead, QueueTypeOK
  <2>4. StartDue'
    BY <1>0, <2>1, <2>2, <2>3 DEF StartDue
  <2>. QED  BY <1>0, <1>5, <2>3, <2>4, TakesCheckNet DEF OwedInv
<1>6. CASE NetmonCheck
  <2>1. /\ UNCHANGED <<modbusQ, task, server, timers>>
        /\ NetmonReports(link) \/ UNCHANGED <<linkUp, netQ, lost>>
    BY <1>6 DEF NetmonCheck
  <2>2. StartComes' = StartComes /\ QueueTypeOK'
    BY <1>0, <2>1 DEF StartComes, CloseAhead, QueueTypeOK
  <2>3. StartDue'
    <3>1. CASE UNCHANGED <<linkUp, netQ, lost>>
      BY <1>0, <2>2, <3>1 DEF StartDue
    <3>2. CASE linkUp' /\ NetmonReports(link)
      <4>1. CASE UNCHANGED <<linkUp, netQ, lost>>
        BY <1>0, <2>2, <4>1 DEF StartDue
      <4>2. CASE /\ netQ' = Put(netQ, "up", NetQueue)
                 /\ lost' = Lose("net", netQ, NetQueue)
        <5>1. "up" \in NetEvents
          BY DEF NetEvents
        <5>2. ASSUME lost' = {} PROVE Has(netQ', "up")
          <6>1. netQ' = Append(netQ, "up")
            BY <4>2, <5>2 DEF Lose, Put
          <6>. QED  BY <1>1, <5>1, <6>1, HasAppend
        <5>. QED  BY <5>2 DEF StartDue
      <4>3. link' = link /\ link \in BOOLEAN /\ linkUp' = link
        BY <1>0, <1>6, <3>2 DEF NetmonCheck, NetmonReports, NetInv, NetTypeOK
      <4>. QED  BY <1>1, <3>2, <4>1, <4>2, <4>3 DEF NetmonReports
    <3>3. CASE ~ linkUp'
      BY <3>3 DEF StartDue
    <3>. QED  BY <2>1, <3>1, <3>2, <3>3
  <2>. QED  BY <1>0, <1>6, <2>2, <2>3, CheckNet DEF OwedInv
<1>. QED  BY <1>2, <1>3, <1>4, <1>5, <1>6 DEF Netmon

LEMMA OwedNext == OwedInv /\ [ModbusNext]_modbusVars => OwedInv'
<1>. SUFFICES ASSUME OwedInv, [ModbusNext]_modbusVars PROVE OwedInv'
  OBVIOUS
<1>0. link \in BOOLEAN
  BY DEF OwedInv, NetInv, NetTypeOK
<1>1. CASE Cable
  <2>1. link' \in BOOLEAN /\ UNCHANGED <<netVars, modbusQ, task, server, timers, lost>>
    BY <1>0, <1>1 DEF Cable
  <2>. QED  BY <2>1, OwedKept
<1>2. CASE ResetCommand \/ RestartTimer
  BY <1>2, ResetOwed, TimerOwed
<1>3. CASE NetmonTimer \/ Netmon
  BY <1>3, NetmonOwed
<1>4. CASE Task
  BY <1>4, TaskOwed
<1>5. ASSUME NEW c \in Conns,
             Accept(c) \/ Receive(c) \/ Poll(c) \/ RemoteCloses(c) \/ Error(c) \/ Finishes(c)
      PROVE  OwedInv'
  <2>1. UNCHANGED <<link, netVars, modbusQ, task, server, timers, lost>>
    <3>1. CASE Accept(c)
      BY <3>1 DEF Accept, AcceptNew, AcceptReclaim, AcceptRefuse, HalfOpen, Accepts
    <3>2. CASE Receive(c)
      BY <3>2 DEF Receive, Answer, AnswerFails, BadRequest, Received, Callback
    <3>3. CASE Poll(c)
      BY <3>3 DEF Poll, PollAnswers, PollFails, Polled, Callback
    <3>4. CASE RemoteCloses(c) \/ Error(c) \/ Finishes(c)
      BY <3>4 DEF RemoteCloses, Error, Finishes, RecvClosed, Ends, Callback
    <3>. QED  BY <1>5, <3>1, <3>2, <3>3, <3>4
  <2>. QED  BY <1>0, <2>1, OwedKept
<1>6. CASE UNCHANGED modbusVars
  BY <1>0, <1>6, OwedKept DEF modbusVars
<1>. QED  BY <1>1, <1>2, <1>3, <1>4, <1>5, <1>6 DEF ModbusNext

\* Whatever the cable, the shell, the clients and the allocations do: while the
\* driver takes the cable for in and no queue has lost an event, the monitor, the
\* server's task, its queue or its restart timer owes the server a start, unless it
\* listens and no close is under way.
THEOREM StartAlwaysOwed == ModbusSpec => []StartOwed
<1>1. OwedInv => StartOwed
  <2>. SUFFICES ASSUME OwedInv, ethLink, lost = {}, ~ Has(netQ, "up") PROVE StartComes
    BY DEF StartOwed, StartComes, StartQueued, StartIn, Has
  <2>1. linkUp /\ ~ Has(netQ, "down")
    BY DEF OwedInv, NetInv, NetAgrees
  <2>. QED  BY <2>1 DEF OwedInv, StartDue
<1>. QED  BY <1>1, OwedInit, OwedNext, PTL DEF ModbusSpec

=============================================================================
