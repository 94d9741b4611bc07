------------------------------- MODULE Syntax -------------------------------
(***************************************************************************)
(* From the tokens of a line to the commands that run: check_parsing_errors*)
(* (parsing/check_errors.c), the words that expanding (parsing/expanding.c)*)
(* removes because nothing is left of them or cuts into several, the split *)
(* into segments (exec/pipes_helpers.c) and the words of each child        *)
(* (exec/args_utils.c).                                                    *)
(*                                                                         *)
(* The check runs before words vanish and is not repeated: the split works *)
(* on lines that the check would not have accepted.  CommandLine gives the *)
(* tokens and puts the steps together.                                     *)
(***************************************************************************)
EXTENDS Integers, Sequences, FiniteSets, FiniteSetsExt, SequencesExt

(* "gone" is a word that expansion leaves empty: $UNSET, or "" itself.     *)
(* "split" is one that it cuts into two or more, at blanks that a value    *)
(* brings (env_var): they keep its place in the list, and are one entry of *)
(* toks.                                                                   *)
Words    == {"word", "gone", "split"}
RedirOps == {"redir", "hdoc"}          \* > >> <, and <<
Kinds    == Words \cup RedirOps \cup {"pipe"}

VARIABLES
  pc,    \* "check", "rejected", "expand", "split", "run"
  raw,   \* the kinds of the tokens as typed
  toks,  \* the tokens: [kind, at], at being the position in raw
  nseg,  \* count_segments(tokens)
  segs   \* starts and ends: [start, end], as positions in toks

vars == <<pc, raw, toks, nseg, segs>>

Null == 0

-----------------------------------------------------------------------------
(* The syntax check. *)

(* Mutant of ParsingError: an operator may follow a redirection. *)
ParsingErrorPipesOnly(s) ==
  \/ s[1] \notin Words \cup {"hdoc"}
  \/ s[Len(s)] \notin Words
  \/ \E k \in 1 .. Len(s) - 1 : s[k] = "pipe" /\ s[k + 1] \notin Words

(* check_parsing_errors on the kinds of the tokens: a line may start with  *)
(* a word or <<, an operator may be followed by an operator only when it   *)
(* is a redirection before a |.                                            *)
ParsingError(s) ==
  \/ s[1] \notin Words \cup {"hdoc"}
  \/ s[Len(s)] \notin Words
  \/ \E k \in 1 .. Len(s) - 1 :
       /\ s[k] \notin Words /\ s[k + 1] \notin Words
       /\ s[k] = "pipe" \/ s[k + 1] # "pipe"

Check ==
  /\ pc = "check"
  /\ pc' = IF ParsingError(raw) THEN "rejected" ELSE "expand"
  /\ UNCHANGED <<raw, toks, nseg, segs>>

(* quote_handling_and_free unlinks a word that became empty. *)
Kept(s) ==
  LET kept[k \in 0..Len(s)] ==
        IF k = 0 THEN <<>>
        ELSE IF s[k].kind = "gone" THEN kept[k - 1]
        ELSE Append(kept[k - 1], s[k])
  IN kept[Len(s)]

(* expanding *)
Expand ==
  /\ pc = "expand"
  /\ toks' = Kept(toks)
  /\ pc' = "split"
  /\ UNCHANGED <<raw, nseg, segs>>

-----------------------------------------------------------------------------
(* The split. *)

(* The first pipe from position k on; past the end without one. *)
PipeFrom(s, k) == Min({m \in k..Len(s) : s[m].kind = "pipe"} \cup {Len(s) + 1})

(* count_segments: each round of its loop goes to just after a pipe. *)
CountSegments(s) ==
  LET count[k \in 1 .. Len(s) + 2] ==
        IF k > Len(s) THEN 0 ELSE 1 + count[PipeFrom(s, k) + 1]
  IN count[1]

(* One round of collect_segments, from position k: prev is NULL when there *)
(* is no token before the pipe.                                            *)
Segment(s, k) ==
  [start |-> k, end |-> IF PipeFrom(s, k) = k THEN Null ELSE PipeFrom(s, k) - 1]

CollectSegments(s) ==
  LET collect[k \in 1 .. Len(s) + 2] ==
        IF k > Len(s) THEN <<>>
        ELSE <<Segment(s, k)>> \o collect[PipeFrom(s, k) + 1]
  IN collect[1]

(* execute_pipeline is called for a line with a pipe, else the whole line  *)
(* is the command of one child.                                            *)
HasPipe(s) == \E k \in DOMAIN s : s[k].kind = "pipe"
Split ==
  /\ pc = "split"
  /\ IF HasPipe(toks)
       THEN nseg' = CountSegments(toks) /\ segs' = CollectSegments(toks)
       ELSE nseg' = 1 /\ segs' = <<[start |-> 1, end |-> Len(toks)]>>
  /\ pc' = "run"
  /\ UNCHANGED <<raw, toks>>

-----------------------------------------------------------------------------
(* What the child of segment i works on. *)

(* Mutant of LastOf: the list is never cut. *)
LastOfUncut(i) == Len(toks)

(* child_executor cuts the list after ends[i], unless that is NULL. *)
LastOf(i) == IF segs[i].end = Null THEN Len(toks) ELSE segs[i].end

(* tokens_to_args: the positions of its words; an operator takes the next  *)
(* token with it, whatever that is.  Of a split word that is the first     *)
(* piece: the others are words.                                            *)
Args(i) ==
  LET fill[k \in segs[i].start .. LastOf(i) + 2] ==
        IF k > LastOf(i) THEN <<>>
        ELSE IF toks[k].kind \in RedirOps
          THEN IF k < LastOf(i) /\ toks[k + 1].kind = "split" THEN fill[k + 1]
                                                            ELSE fill[k + 2]
        ELSE IF toks[k].kind \in Words THEN <<k>> \o fill[k + 1]
        ELSE fill[k + 1]
  IN fill[segs[i].start]

(* execute_redirections reads tokens->next of every operator in its list. *)
Crashes(i) == LastOf(i) > 0 /\ toks[LastOf(i)].kind \in RedirOps

-----------------------------------------------------------------------------
(* Properties *)

TypeOK ==
  /\ pc \in {"check", "rejected", "expand", "split", "run"}
  /\ raw \in Seq(Kinds) /\ nseg \in Nat
  /\ \A k \in DOMAIN toks : toks[k] \in [kind : Kinds, at : 1..Len(raw)]
  /\ \A i \in DOMAIN segs :
       segs[i].start \in 1 .. Len(toks) + 1 /\ segs[i].end \in 0..Len(toks)

Emptied == \E k \in DOMAIN raw : raw[k] = "gone"
(* The segment of the typed line a token belongs to, counting from 1. *)
TypedSegment(p) == 1 + Cardinality({m \in 1 .. p - 1 : raw[m] = "pipe"})
(* Its words, without the operands that stay one word: what follows the    *)
(* first piece of an operand becomes words of the command.                 *)
TypedWords(i) ==
  {p \in DOMAIN raw : /\ raw[p] \in Words /\ TypedSegment(p) = i
                      /\ \/ p = 1 \/ raw[p - 1] \notin RedirOps
                         \/ raw[p] = "split"}

(* When no word vanishes, there is one child per typed segment, it runs    *)
(* the words typed there that are not operands and the further pieces of   *)
(* operands that were split, no others, and it reads past its tokens only  *)
(* for a redirection typed just before a |, the one case the check lets    *)
(* through: every other operator has a word.                               *)
CleanSplit ==
  pc = "run" /\ ~Emptied =>
    /\ nseg = 1 + Cardinality({k \in DOMAIN raw : raw[k] = "pipe"})
    /\ \A i \in 1..nseg :
         /\ {toks[k].at : k \in ToSet(Args(i))} = TypedWords(i)
         /\ Crashes(i) => raw[toks[LastOf(i)].at + 1] = "pipe"
         /\ \A k \in segs[i].start .. LastOf(i) - 1 :
              toks[k].kind \in RedirOps => toks[k + 1].kind \in Words
=============================================================================
