---------------------------- MODULE MCBootloader ----------------------------
(* Bootloader with two programs, of two and of three words, and a first   *)
(* sector of two words.                                                    *)
EXTENDS Bootloader

CONSTANTS old, new

MCSize == [img \in {old, new} |-> IF img = old THEN 2 ELSE 3]
MCSectorWords == [a \in 0 .. 2 |-> IF a = 0 THEN 2 ELSE 1]
=============================================================================
