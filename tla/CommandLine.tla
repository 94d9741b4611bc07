---------------------------- MODULE CommandLine ----------------------------
(***************************************************************************)
(* A line from its characters to the commands that run: Tokenizer, then    *)
(* Syntax on its tokens.  What expansion does to a word is in Expansion;   *)
(* here it matters only whether nothing, one word or several are left.     *)
(***************************************************************************)
EXTENDS Tokenizer

VARIABLES
  raw, toks, nseg, segs,  \* see Syntax
  stage                   \* its pc; "tokens" before its first step

syntaxVars == <<raw, toks, nseg, segs, stage>>
lineVars   == <<line, pc, i, end, tokens, raw, toks, nseg, segs, stage>>

Rest == INSTANCE Syntax WITH pc <- stage

LineInit == Init /\ stage = "tokens" /\ raw = <<>> /\ toks = <<>> /\ nseg = 0 /\ segs = <<>>

Tokenize == pc \notin Ends /\ Next /\ UNCHANGED syntaxVars

(* Nothing may be left of a word when its quotes are all taken away and    *)
(* the rest, no part of it between single quotes, are references.          *)
MayVanish(t) ==
  \A k \in t.from .. t.to :
    IF line[k] \in Quotes THEN OpenBehind[k - 1] \in {"none", line[k]}
    ELSE line[k] = "a" /\ OpenBehind[k - 1] # "'"

(* A word may be cut into several when it has an unquoted reference. *)
MaySplit(t) ==
  \E k \in t.from .. t.to : line[k] = "a" /\ OpenBehind[k - 1] = "none"

(* fill_the_node_op *)
OperatorKind(t) ==
  IF line[t.from] = "|" THEN "pipe"
  ELSE IF line[t.from] = "<" /\ t.to > t.from THEN "hdoc" ELSE "redir"

Vanishable == {k \in DOMAIN tokens : ~tokens[k].op /\ MayVanish(tokens[k])}
Splittable == {k \in DOMAIN tokens : ~tokens[k].op /\ MaySplit(tokens[k])}

(* main hands the tokens to check_parsing_errors; gone are the words that  *)
(* will vanish, cut those that will be several.                            *)
HandOver ==
  /\ pc = "accepted" /\ stage = "tokens"
  /\ \E gone \in SUBSET Vanishable :
       \E cut \in SUBSET (Splittable \ gone) :
         raw' = [k \in DOMAIN tokens |->
                  IF tokens[k].op THEN OperatorKind(tokens[k])
                  ELSE IF k \in gone THEN "gone"
                  ELSE IF k \in cut THEN "split" ELSE "word"]
  /\ toks' = [k \in DOMAIN tokens |-> [kind |-> raw'[k], at |-> k]]
  /\ stage' = "check"
  /\ UNCHANGED <<line, pc, i, end, tokens, nseg, segs>>

CheckAndSplit == Rest!Check \/ Rest!Expand \/ Rest!Split
Run == stage # "tokens" /\ CheckAndSplit /\ UNCHANGED vars

LineEnded ==
  /\ pc \in Ends \ {"accepted"} \/ stage \in {"rejected", "run"}
  /\ UNCHANGED lineVars

LineNext == Tokenize \/ HandOver \/ Run \/ LineEnded

LineSpec == LineInit /\ [][LineNext]_lineVars

-----------------------------------------------------------------------------
(* Properties *)

(* The | that are not quoted. *)
Pipes == {m \in 1..Len(line) : line[m] = "|"} \ Quoted
(* The stretch of the line that the token at k of the list is in. *)
Stretch(pipes, k) == 1 + Cardinality({m \in pipes : m < tokens[toks[k].at].from})

(* When no word vanishes, there is one child per stretch of the line       *)
(* between unquoted |, it runs the words typed there that are not operands *)
(* and, of an operand that was split, the pieces behind the first, no      *)
(* others, and it reads past its tokens only for a redirection typed just  *)
(* before a |, the one case the check lets through.                        *)
CleanSplit ==
  /\ Rest!CleanSplit
  /\ stage = "run" /\ ~Rest!Emptied => nseg = 1 + Cardinality(Pipes)

(* Every slot of starts and ends that a child reads has been filled, also  *)
(* when words vanished at either end of the line or between two pipes, and *)
(* a child runs words from behind another unquoted | only when all of its  *)
(* own stretch vanished (then it runs the words that follow).              *)
OwnWordsUnlessEmptied ==
  LET pipes == Pipes
  IN stage = "run" =>
       /\ nseg = Len(segs)
       /\ \A n \in DOMAIN segs :
            segs[n].end # Rest!Null =>
              \A k \in ToSet(Rest!Args(n)) :
                Stretch(pipes, k) = Stretch(pipes, segs[n].start)
=============================================================================
