--------------------------- MODULE MCShellScript ---------------------------
(* ShellScript with two buffers and the scripts that matter: two with data, *)
(* one that fails and goes on, one that waits, one that loads and one that  *)
(* loads in a loop, one that stops, and one whose last line has no newline. *)
EXTENDS ShellScript, TLC

MCTexts == {
  <<"multi", "nl", "data", "nl", "data", "nl", "nl", "good", "nl">>,
  <<"fail", "nl", "wait", "nl", "data">>,
  <<"loade", "nl", "good", "nl">>,
  <<"loop", "nl", "good", "nl">>,
  <<"boot", "nl">>,
  <<"multi", "nl", "data", "nl", "data", "eof", "fail", "nl", "good", "nl">>,
  <<"int", "stop", "nl", "good", "nl">> }

\* The two scripts with data are what DataInBlocks describes.
ASSUME MCDataInBlocks == DataInBlocks

\* What is read of a script does not depend on which buffer holds it.
Symmetric == Permutations(Buffers)
=============================================================================
