--------------------------- MODULE MCCommandLine ----------------------------
(* Lines for the run of CommandLine: all lines of up to MaxLine characters, *)
(* those of one more that have no quotes, tabs or >, and those of up to     *)
(* MaxTokens that have no blanks either (three segments and an operator).   *)
EXTENDS CommandLine
CONSTANTS MaxLine, MaxTokens
MCLines ==
  UNION {[1..n -> Symbols] : n \in 0..MaxLine}
  \cup [1 .. MaxLine + 1 -> {"a", "|", "<", " "}]
  \cup UNION {[1..n -> {"a", "|", "<"}] : n \in 0..MaxTokens}
=============================================================================
