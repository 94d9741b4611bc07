----------------------------- MODULE Tokenizer -----------------------------
(***************************************************************************)
(* From the line that readline returned to the list of tokens: check_errors*)
(* (main.c) with input_error (parsing/check_errors.c), then tokenizer      *)
(* (parsing/tokenizer.c).  A token is kept as the stretch of the line it   *)
(* was cut from.                                                           *)
(*                                                                         *)
(* alloc_quote looks for the end of a quote without looking for the end of *)
(* the line, and check_parsing_errors reads the first token without        *)
(* looking whether there is one: both trust what ran before.               *)
(***************************************************************************)
EXTENDS Integers, Sequences, FiniteSets, FiniteSetsExt, SequencesExt

Quotes    == {"'", "\""}
Blanks    == {" ", "tab"}
Operators == {"|", "<", ">"}
Symbols   == {"a"} \cup Blanks \cup Operators \cup Quotes  \* "a": any other

CONSTANT Lines  \* what readline may return

ASSUME TokenizerAssumption == Lines \subseteq Seq(Symbols)

VARIABLES
  line,    \* the input
  pc,      \* "check" (check_errors), "top" (tokenizer's loop), "word"
           \* (alloc_str's loop), "operator" (alloc_operator), "list" (done),
           \* "accepted", "refused", "overrun", "null"
  i,       \* tokenizer's i
  end,     \* alloc_str's i + end
  tokens   \* the list: [op, from, to]

vars == <<line, pc, i, end, tokens>>

Init ==
  /\ line \in Lines
  /\ pc = "check" /\ i = 1 /\ end = 1 /\ tokens = <<>>

-----------------------------------------------------------------------------
(* Before the tokenizer. *)

(* The position where the quote at k is closed; 0 if it never is. *)
CloseOf(k) == SelectInSubSeq(line, k + 1, Len(line), LAMBDA c : c = line[k])

(* Mutant of InputError: a quote is closed by either kind. *)
InputErrorAnyKind ==
  Cardinality({k \in 1..Len(line) : line[k] \in Quotes}) % 2 = 1

(* input_error *)
InputError ==
  LET error[k \in 1 .. Len(line) + 1] ==
        IF k > Len(line) THEN FALSE
        ELSE IF line[k] \notin Quotes THEN error[k + 1]
        ELSE CloseOf(k) = 0 \/ error[CloseOf(k) + 1]
  IN error[1]

(* check_errors *)
CheckLine ==
  /\ pc = "check"
  /\ pc' = IF line = <<>> \/ InputError THEN "refused" ELSE "top"
  /\ UNCHANGED <<line, i, end, tokens>>

-----------------------------------------------------------------------------
(* tokenizer *)

SkipSpace ==
  /\ pc = "top" /\ i <= Len(line) /\ line[i] = " "
  /\ i' = i + 1
  /\ UNCHANGED <<line, pc, end, tokens>>

StartWord ==
  /\ pc = "top" /\ i <= Len(line) /\ line[i] # " "
  /\ pc' = "word" /\ end' = i
  /\ UNCHANGED <<line, i, tokens>>

TakeSymbol ==
  /\ pc = "word" /\ end <= Len(line)
  /\ line[end] \notin Blanks \cup Operators \cup Quotes
  /\ end' = end + 1
  /\ UNCHANGED <<line, pc, i, tokens>>

(* Mutant of TakeQuoted: without alloc_str's step back, the symbol behind  *)
(* a quote is taken unseen.                                                *)
TakeQuotedNoStepBack ==
  /\ pc = "word" /\ end <= Len(line) /\ line[end] \in Quotes
  /\ IF CloseOf(end) = 0 THEN pc' = "overrun" /\ UNCHANGED end
                         ELSE end' = CloseOf(end) + 2 /\ UNCHANGED pc
  /\ UNCHANGED <<line, i, tokens>>

(* One round of alloc_quote. *)
TakeQuoted ==
  /\ pc = "word" /\ end <= Len(line) /\ line[end] \in Quotes
  /\ IF CloseOf(end) = 0 THEN pc' = "overrun" /\ UNCHANGED end
                         ELSE end' = CloseOf(end) + 1 /\ UNCHANGED pc
  /\ UNCHANGED <<line, i, tokens>>

(* The rest of alloc_str. *)
EndWord ==
  /\ pc = "word"
  /\ end <= Len(line) => line[end] \in Blanks \cup Operators
  /\ tokens' = IF end = i THEN tokens
               ELSE Append(tokens, [op |-> FALSE, from |-> i, to |-> end - 1])
  /\ i' = end /\ pc' = "operator"
  /\ UNCHANGED <<line, end>>

(* is_operator knows << and >> before < and >. *)
Doubled == i < Len(line) /\ line[i] \in {"<", ">"} /\ line[i + 1] = line[i]
LastOfOperator == IF Doubled THEN i + 1 ELSE i

TakeOperator ==
  /\ pc = "operator" /\ i <= Len(line) /\ line[i] \in Operators
  /\ tokens' = Append(tokens, [op |-> TRUE, from |-> i, to |-> LastOfOperator])
  /\ i' = LastOfOperator + 1 /\ pc' = "top"
  /\ UNCHANGED <<line, end>>

(* The blank that ended the word. *)
NoOperator ==
  /\ pc = "operator" /\ i <= Len(line) /\ line[i] \notin Operators
  /\ i' = i + 1 /\ pc' = "top"
  /\ UNCHANGED <<line, end, tokens>>

EndOfLine ==
  /\ pc \in {"top", "operator"} /\ i > Len(line)
  /\ pc' = "list"
  /\ UNCHANGED <<line, i, end, tokens>>

(* check_parsing_errors starts with token->op; what else it does is in     *)
(* Syntax.                                                                 *)
ReadFirst ==
  /\ pc = "list"
  /\ pc' = IF tokens = <<>> THEN "null" ELSE "accepted"
  /\ UNCHANGED <<line, i, end, tokens>>

Ends  == {"accepted", "refused", "overrun", "null"}
Ended == pc \in Ends /\ UNCHANGED vars

Next ==
  \/ CheckLine \/ SkipSpace \/ StartWord
  \/ TakeSymbol \/ TakeQuoted \/ EndWord
  \/ TakeOperator \/ NoOperator \/ EndOfLine
  \/ ReadFirst \/ Ended

Spec == Init /\ [][Next]_vars

-----------------------------------------------------------------------------
(* What a line means, without scanning it token by token. *)

(* The quote that is open behind position k.  A quote opens a pair when no *)
(* pair is open before it.                                                 *)
OpenBehind ==
  LET open[k \in 0..Len(line)] ==
        IF k = 0 THEN "none"
        ELSE CASE open[k - 1] = line[k]                      -> "none"
               [] open[k - 1] = "none" /\ line[k] \in Quotes -> line[k]
               [] OTHER                                      -> open[k - 1]
  IN open

(* The quotes of all pairs and what is between them. *)
Quoted ==
  LET open == OpenBehind
  IN {k \in 1..Len(line) : {open[k], open[k - 1]} # {"none"}}

WordPlaces == Quoted \cup {k \in 1..Len(line) : line[k] \notin Blanks \cup Operators}

(* Words are the longest stretches of word places; of a row of equal       *)
(* operator characters each second one is the first half of a pair.        *)
Meant ==
  LET words == WordPlaces
      same(k) == k \notin words /\ k + 1 \in 1..Len(line) \ words /\ line[k] = line[k + 1]
      row[k \in 1..Len(line)] == IF k > 1 /\ same(k - 1) THEN 1 + row[k - 1] ELSE 0
      operators == {k \in 1..Len(line) \ words :
                      line[k] \in Operators /\ (line[k] = "|" \/ row[k] % 2 = 0)}
      ends == {k \in words : k + 1 \notin words}
  IN {[op |-> FALSE, from |-> k, to |-> Min({e \in ends : e >= k})] :
        k \in {w \in words : w - 1 \notin words}}
     \cup
     {[op |-> TRUE, from |-> k, to |-> IF line[k] # "|" /\ same(k) THEN k + 1 ELSE k] :
        k \in operators}

-----------------------------------------------------------------------------
(* Properties *)

TypeOK ==
  /\ line \in Lines /\ i \in 1 .. Len(line) + 1 /\ end \in 1 .. Len(line) + 1
  /\ pc \in {"check", "top", "word", "operator", "list",
             "accepted", "refused", "overrun", "null"}
  /\ \A k \in DOMAIN tokens : tokens[k] \in
       [op : BOOLEAN, from : 1..Len(line), to : 1..Len(line)]

(* Every character that is neither a blank nor left out belongs to exactly *)
(* one token: words are as long as they can be, a quoted blank or operator *)
(* never ends one, operators are paired from the left, and the tokens are  *)
(* in the order of the line.                                               *)
TokensAsMeant ==
  pc = "accepted" =>
    /\ ToSet(tokens) = Meant
    /\ \A k \in 1 .. Len(tokens) - 1 : tokens[k].to < tokens[k + 1].from

(* input_error accepts exactly what alloc_quote can scan: the tokenizer    *)
(* never leaves the line.  And the one line that reaches                   *)
(* check_parsing_errors without a token is a line of nothing but blanks,   *)
(* which ends the shell.                                                   *)
ScansStayInside ==
  /\ pc # "overrun" /\ i <= Len(line) + 1 /\ end <= Len(line) + 1
  /\ pc = "null" => line # <<>> /\ ToSet(line) \subseteq Blanks
=============================================================================
