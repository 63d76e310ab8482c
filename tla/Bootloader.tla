----------------------------- MODULE Bootloader -----------------------------
(***************************************************************************)
(* The bootloader (appBootloader) and what the running program leaves for  *)
(* it: a new program in the upgrade area of the flash or in a file of      *)
(* SPIFFS, and a flag that asks for it with its size and MD5 sum.  The     *)
(* bootloader checks the sum, erases the application sector by sector,     *)
(* programs it word by word, clears the flag and starts what is there.     *)
(* Power may fail, and a flash operation or a read may fail, at any step,  *)
(* until settled.                                                          *)
(*                                                                         *)
(* A word of an area is the program it belongs to, at its place in it; all *)
(* that is neither such a word nor erased is Garbage.  Sizes are in words. *)
(***************************************************************************)
EXTENDS Naturals

CONSTANTS
  Images,       (* programs                                               *)
  Offered,      (* those the host sends                                   *)
  Size,         (* their sizes                                            *)
  AppWords,     (* FLASH_APP_SIZE, less the upgrade area if they overlap  *)
  UpWords,      (* FLASH_UPGRADE_SIZE                                     *)
  SectorWords,  (* words of the sector that begins at that word           *)
  Segment,      (* SEGMENT_SIZE                                           *)
  Erased, Garbage, None

ASSUME BootloaderAssumption ==
  /\ AppWords \in Nat \ {0}
  /\ UpWords \in 1 .. AppWords
  /\ Offered \subseteq Images
  /\ Size \in [Images -> 1 .. UpWords]
  /\ SectorWords \in [0 .. AppWords - 1 -> Nat \ {0}]
  /\ Segment \in Nat \ {0}
  /\ Erased # Garbage
  /\ Images \intersect {Erased, Garbage, None} = {}

Words == Images \union {Erased, Garbage}
AppArea == 0 .. AppWords - 1
UpArea == 0 .. UpWords - 1

Magic == "magic"
Operations == {"iflash", "spiffs"}
Fields == {"magic", "op", "size", "md5"}

VARIABLES
  app, upg,     (* application and upgrade area                           *)
  flag,         (* bootloader_flag_t in the flash                         *)
  file,         (* program in /s/upgrade.bin, None if another or no file  *)
  pc,           (* where the bootloader is; "app": it has jumped          *)
  addr,         (* next word to erase or program                          *)
  limit,        (* words it has at hand to program                        *)
  misread,      (* history: a read of the file failed in this boot's      *)
                (* "check", or in a "copy" not made good since; or "no"   *)
  settled       (* history: nothing fails any more, and the host is quiet *)

bootVars == <<pc, addr, limit, misread>>
vars == <<app, upg, flag, file, bootVars, settled>>

Holds(area, img) == \A a \in 0 .. Size[img] - 1 : area[a] = img
Whole == \E img \in Images : Holds(app, img)

Init ==
  /\ \E img \in Images :
       app = [a \in AppArea |-> IF a < Size[img] THEN img ELSE Erased]
  /\ upg = [a \in UpArea |-> Erased]
  /\ flag = [f \in Fields |-> Erased]
  /\ file = None
  /\ pc = "app" /\ addr = 0 /\ limit = 0 /\ misread = "no"
  /\ settled = FALSE

-----------------------------------------------------------------------------
(* Flash.  A word that is programmed twice ends as the AND of both.  An    *)
(* operation that fails, or that power cuts short, may have reached any of *)
(* its words.                                                              *)

Programmed(area, a, w) ==
  [area EXCEPT ![a] = IF @ \in {Erased, w} THEN w ELSE Garbage]

Damaged(area, S) ==
  {[a \in DOMAIN area |->
      IF a \notin S \/ d[a] = "kept" THEN area[a]
      ELSE IF d[a] = "erased" THEN Erased ELSE Garbage] :
    d \in [S -> {"kept", "erased", "garbage"}]}

Programs(area, area2, a, w) ==
  \/ area2 = Programmed(area, a, w)
  \/ ~ settled /\ area2 \in Damaged(area, {a})

Sector(a) == {b \in AppArea : a <= b /\ b < a + SectorWords[a]}

-----------------------------------------------------------------------------
(* The running program: cmd_upgrade, whose offset can be set to any place  *)
(* and whose lines may be lost, repeated or wrong, and files written by    *)
(* any of the shell's commands.                                            *)

Running == pc = "app" /\ Whole /\ ~ settled

UpgradeErase ==
  /\ Running
  /\ \/ upg' = [a \in UpArea |-> Erased]
     \/ ~ settled /\ upg' \in Damaged(upg, UpArea)
  /\ UNCHANGED <<app, flag, file, bootVars, settled>>

UpgradeProgram ==
  /\ Running
  /\ \E a \in UpArea, w \in Offered \union {Garbage} : Programs(upg, upg', a, w)
  /\ UNCHANGED <<app, flag, file, bootVars, settled>>

FlagErase ==
  /\ Running
  /\ \/ flag' = [f \in Fields |-> Erased]
     \/ ~ settled /\ flag' \in Damaged(flag, Fields)
  /\ UNCHANGED <<app, upg, file, bootVars, settled>>

\* What the host may write to a field; a wrong value is Garbage.
FieldValues(f) ==
  CASE f = "magic" -> {Magic, Garbage}
    [] f = "op" -> Operations \union {Garbage}
    [] f = "size" -> {Size[img] : img \in Offered} \union {Garbage}
    [] f = "md5" -> Offered \union {Garbage}

FlagProgram ==
  /\ Running
  /\ \E f \in Fields : \E w \in FieldValues(f) : Programs(flag, flag', f, w)
  /\ UNCHANGED <<app, upg, file, bootVars, settled>>

WriteFile ==
  /\ Running
  /\ file' \in Offered \union {None}
  /\ UNCHANGED <<app, upg, flag, bootVars, settled>>

-----------------------------------------------------------------------------
(* The bootloader.  What it returns to main is where it goes on.           *)

\* check_upgrade_size; each operation passes the size of an area of its own.
SizeOK(max) == flag["size"] \in 1 .. max

Asked ==
  /\ flag["magic"] = Magic
  /\ \/ flag["op"] = "iflash" /\ SizeOK(UpWords)
     \/ flag["op"] = "spiffs" /\ SizeOK(AppWords)

\* main, up to the call of upgrade_from_...
Boot_Bug ==
  /\ pc = "boot"
  /\ pc' = IF Asked /\ misread = "no" THEN "check" ELSE "start"
  /\ misread' = IF misread = "check" THEN "no" ELSE misread
  /\ UNCHANGED <<app, upg, flag, file, addr, limit, settled>>

Boot ==
  /\ pc = "boot"
  /\ pc' = IF Asked THEN "check" ELSE "start"
  /\ misread' = IF misread = "check" THEN "no" ELSE misread
  /\ UNCHANGED <<app, upg, flag, file, addr, limit, settled>>

\* The MD5 sum of what is there is the one in the flag.
Matches ==
  /\ flag["md5"] \in Images
  /\ flag["size"] = Size[flag["md5"]]
  /\ IF flag["op"] = "iflash" THEN Holds(upg, flag["md5"]) ELSE file = flag["md5"]

Check_Bug ==
  /\ pc = "check"
  /\ Matches
  /\ flag' = [f \in Fields |-> Erased]
  /\ pc' = "erase" /\ addr' = 0
  /\ UNCHANGED <<app, upg, file, limit, misread, settled>>

Check ==
  /\ pc = "check"
  /\ Matches
  /\ pc' = "erase" /\ addr' = 0
  /\ UNCHANGED <<app, upg, flag, file, limit, misread, settled>>

CheckFails ==
  /\ pc = "check"
  /\ ~ Matches
  /\ pc' = "start"
  /\ UNCHANGED <<app, upg, flag, file, addr, limit, misread, settled>>

\* mcush_open or mcush_read fails: the same return as for a wrong file.
CheckMisreads ==
  /\ pc = "check" /\ flag["op"] = "spiffs"
  /\ ~ settled
  /\ pc' = "start"
  /\ misread' = IF misread = "no" THEN "check" ELSE misread
  /\ UNCHANGED <<app, upg, flag, file, addr, limit, settled>>

\* hal_flash_erase, one sector.
Erase_Bug ==
  /\ pc = "erase"
  /\ app' = [a \in AppArea |-> IF a \in Sector(addr) THEN Erased ELSE app[a]]
  /\ LET next == addr + SectorWords[addr]
     IN IF next < AppWords
        THEN pc' = pc /\ addr' = next /\ limit' = limit
        ELSE /\ pc' = "copy" /\ addr' = 0
             /\ limit' = IF flag["op"] = "iflash" THEN 4 * flag["size"] ELSE 0
  /\ UNCHANGED <<upg, flag, file, misread, settled>>

Erase ==
  /\ pc = "erase"
  /\ app' = [a \in AppArea |-> IF a \in Sector(addr) THEN Erased ELSE app[a]]
  /\ LET next == addr + SectorWords[addr]
     IN IF next < AppWords
        THEN pc' = pc /\ addr' = next /\ limit' = limit
        ELSE /\ pc' = "copy" /\ addr' = 0
             /\ limit' = IF flag["op"] = "iflash" THEN flag["size"] ELSE 0
  /\ UNCHANGED <<upg, flag, file, misread, settled>>

EraseFails ==
  /\ pc = "erase"
  /\ ~ settled
  /\ app' \in Damaged(app, Sector(addr))
  /\ pc' = "halt"
  /\ UNCHANGED <<upg, flag, file, addr, limit, misread, settled>>

SourceWord == IF flag["op"] = "iflash" THEN upg[addr] ELSE file
SourceSize == IF flag["op"] = "iflash" THEN flag["size"] ELSE Size[file]

\* hal_flash_program, one word.
Copy ==
  /\ pc = "copy" /\ addr < limit
  /\ app' = Programmed(app, addr, SourceWord)
  /\ addr' = addr + 1
  /\ UNCHANGED <<upg, flag, file, pc, limit, misread, settled>>

CopyFails_Bug ==
  /\ pc = "copy" /\ addr < limit
  /\ ~ settled
  /\ app' \in Damaged(app, {addr})
  /\ pc' = "start"
  /\ UNCHANGED <<upg, flag, file, addr, limit, misread, settled>>

CopyFails ==
  /\ pc = "copy" /\ addr < limit
  /\ ~ settled
  /\ app' \in Damaged(app, {addr})
  /\ pc' = "halt"
  /\ UNCHANGED <<upg, flag, file, addr, limit, misread, settled>>

\* mcush_read of a segment that is there.
ReadSegment ==
  /\ pc = "copy" /\ addr = limit /\ flag["op"] = "spiffs"
  /\ addr < Size[file]
  /\ limit' = IF addr + Segment < Size[file] THEN addr + Segment ELSE Size[file]
  /\ UNCHANGED <<app, upg, flag, file, pc, addr, misread, settled>>

Copied ==
  /\ pc = "copy" /\ addr = limit /\ addr = SourceSize
  /\ pc' = "clear"
  /\ misread' = "no"
  /\ UNCHANGED <<app, upg, flag, file, addr, limit, settled>>

\* mcush_read or mcush_seek fails: taken for the end of the file.
CopyMisreads ==
  /\ pc = "copy" /\ addr = limit /\ flag["op"] = "spiffs"
  /\ addr < Size[file]
  /\ ~ settled
  /\ pc' = "clear"
  /\ misread' = "copy"
  /\ UNCHANGED <<app, upg, flag, file, addr, limit, settled>>

\* erase_bootloader_flags, whose result nobody looks at.
ClearFlag ==
  /\ pc = "clear"
  /\ \/ flag' = [f \in Fields |-> Erased]
     \/ ~ settled /\ flag' \in Damaged(flag, Fields)
  /\ pc' = "start"
  /\ UNCHANGED <<app, upg, file, addr, limit, misread, settled>>

\* run_app: the first word must look like a stack pointer.
Start ==
  /\ pc = "start"
  /\ pc' \in IF app[0] = Garbage THEN {"app", "halt"}
             ELSE IF app[0] = Erased THEN {"halt"} ELSE {"app"}
  /\ UNCHANGED <<app, upg, flag, file, addr, limit, misread, settled>>

Restarts == pc' = "boot" /\ addr' = 0 /\ limit' = 0

\* The shell's command, the watchdog in a program run wild or in the halt
\* loop, which does not feed it, or a button.
Reset ==
  /\ pc \in {"app", "halt"}
  /\ Restarts
  /\ UNCHANGED <<app, upg, flag, file, misread, settled>>

\* Cuts short what is under way: the flash was left by an operation that
\* fails just before, or by one that ended.
PowerFails ==
  /\ ~ settled
  /\ Restarts
  /\ settled' \in BOOLEAN
  /\ UNCHANGED <<app, upg, flag, file, misread>>

-----------------------------------------------------------------------------

Host == UpgradeErase \/ UpgradeProgram \/ FlagErase \/ FlagProgram \/ WriteFile

Upgrade ==
  \/ Check \/ CheckFails \/ CheckMisreads
  \/ Erase \/ EraseFails
  \/ Copy \/ CopyFails \/ ReadSegment \/ Copied \/ CopyMisreads
  \/ ClearFlag

Loader == Boot \/ Upgrade \/ Start

Next == Host \/ Loader \/ Reset \/ PowerFails

Spec == Init /\ [][Next]_vars /\ WF_vars(Loader)

-----------------------------------------------------------------------------
(* Properties.                                                             *)

TypeOK ==
  /\ app \in [AppArea -> Words]
  /\ upg \in [UpArea -> Words]
  /\ DOMAIN flag = Fields
  /\ \A f \in Fields : flag[f] \in FieldValues(f) \union {Erased}
  /\ file \in Images \union {None}
  /\ pc \in {"app", "boot", "check", "erase", "copy", "clear", "start", "halt"}
  /\ addr \in 0 .. AppWords
  /\ limit \in 0 .. AppWords
  /\ misread \in {"no", "check", "copy"}
  /\ settled \in BOOLEAN

\* Wherever power or the flash fails, what the bootloader jumps to is a whole
\* program, the old or the new one (main.c:159-167); the exception is a file
\* that could be read when it was asked for, but not any more: with a failing
\* check (upgrade_from_spiffs.c:35) or a copy taken for complete (line 65) a
\* half program is started.
RunsWhole == pc = "app" => Whole \/ misread # "no"

\* At every moment the device can be helped by switching it off and on: the
\* application is whole, or flag and source still ask for it and match.
Recoverable == Whole \/ (Asked /\ Matches) \/ misread = "copy"

\* Once power and flash have stopped failing, an upgrade asked for with a
\* matching source is made, and runs; failed attempts before do not matter.
UpgradeCompletes ==
  \A img \in Images :
    (settled /\ pc = "boot" /\ Asked /\ Matches /\ flag["md5"] = img)
      ~> (pc = "app" /\ Holds(app, img))

=============================================================================
