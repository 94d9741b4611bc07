----------------------------- MODULE Document ------------------------------
(***************************************************************************)
(* What a here-document contains: the mark of its delimiter (expanding and *)
(* init_redirect_fds), the comparison of each typed line with the delimiter*)
(* (exec/heredoc_utils.c) and the expansion of the others                  *)
(* (exec/heredoc_expansion.c).  How the reader, the pipe and the shell get *)
(* along is in Heredoc; how the delimiter lost its quotes is in Expansion. *)
(*                                                                         *)
(* A line is a sequence of symbols: "$", "?", a letter "a", a digit "1",   *)
(* and a quote for every other character.                                  *)
(***************************************************************************)
EXTENDS Integers, Sequences, SequencesExt

CONSTANTS
  Delimiters,    \* delimiters without their quotes
  Environments,  \* the values of the names that are set
  Status,        \* the digits of $?
  MaxLines,      \* bound: lines of the document
  MaxSymbols     \* bound: symbols of all its lines

NameChars == {"a", "1"}
Symbols   == {"$", "?", "'"} \cup NameChars

ASSUME DocumentAssumption ==
  /\ Delimiters \cup {Status} \subseteq Seq(Symbols)
  /\ \A e \in Environments : \A n \in DOMAIN e :
       e[n] \in Seq(Symbols) /\ n # <<>> /\ ToSet(n) \subseteq NameChars
  /\ MaxLines \in Nat /\ MaxSymbols \in Nat

VARIABLES
  env,     \* the environment
  quoted,  \* the delimiter was typed with quotes
  delim,   \* its token's str
  qt,      \* its redirect.qt = THERES_QUOTE
  phase,   \* "expand", "init", "read", "scan" (expand_heredoc_line), "write",
           \* "done"
  line,    \* the line that readline returned
  i, out,  \* in expand_heredoc_line
  doc,     \* the lines written to the pipe
  typedLines  \* the lines read but for the delimiter (not in the code)

docVars == <<env, quoted, delim, qt, phase, line, i, out, doc, typedLines>>
word == <<env, quoted, delim>>

DocInit ==
  /\ env \in Environments /\ quoted \in BOOLEAN /\ delim \in Delimiters
  /\ qt \in BOOLEAN  \* not yet written
  /\ phase = "expand" /\ line = <<>> /\ i = 1 /\ out = <<>>
  /\ doc = <<>> /\ typedLines = <<>>

-----------------------------------------------------------------------------
(* The mark. *)

(* expanding: str_has_quote, before the quotes are removed. *)
MarkDelimiter ==
  /\ phase = "expand"
  /\ qt' = quoted /\ phase' = "init"
  /\ UNCHANGED <<word, line, i, out, doc, typedLines>>

(* init_redirect_fds runs later and resets it. *)
InitRedirectFds ==
  /\ phase = "init"
  /\ qt' = FALSE /\ phase' = "read"
  /\ UNCHANGED <<word, line, i, out, doc, typedLines>>

-----------------------------------------------------------------------------
(* process_heredoc_line *)

(* What the user may still type: any line but the delimiter. *)
Lines ==
  UNION {[1..n -> Symbols] : n \in 0 .. MaxSymbols - Len(FlattenSeq(typedLines))}
    \ {delim}

(* A marked delimiter would leave the line as it is. *)
ReadDocLine ==
  /\ phase = "read" /\ Len(typedLines) < MaxLines
  /\ \E l \in Lines :
       /\ line' = l /\ typedLines' = Append(typedLines, l)
       /\ IF qt THEN phase' = "write" /\ out' = l
                ELSE phase' = "scan" /\ out' = <<>>
  /\ i' = 1
  /\ UNCHANGED <<word, qt, doc>>

(* The delimiter, compared with the line as typed, or Ctrl-D. *)
EndOfDocument ==
  /\ phase = "read"
  /\ phase' = "done"
  /\ UNCHANGED <<word, qt, line, i, out, doc, typedLines>>

(* Mutant of WriteLine: the line is compared when it has been expanded. *)
WriteLineCompareLate ==
  /\ phase = "write"
  /\ IF out = delim THEN phase' = "done" /\ UNCHANGED doc
                    ELSE phase' = "read" /\ doc' = Append(doc, out)
  /\ UNCHANGED <<word, qt, line, i, out, typedLines>>

WriteLine ==
  /\ phase = "write"
  /\ doc' = Append(doc, out) /\ phase' = "read"
  /\ UNCHANGED <<word, qt, line, i, out, typedLines>>

-----------------------------------------------------------------------------
(* expand_heredoc_line *)

Next1 == IF i < Len(line) THEN line[i + 1] ELSE "NUL"

(* expand_var at a $: its fragment goes out, consumed symbols are behind.  *)
Fragment(frag, consumed) ==
  /\ out' = out \o frag /\ i' = i + consumed
  /\ UNCHANGED <<word, qt, phase, line, doc, typedLines>>

AtDollar == phase = "scan" /\ i <= Len(line) /\ line[i] = "$"

CopySymbol == phase = "scan" /\ i <= Len(line) /\ line[i] # "$" /\ Fragment(<<line[i]>>, 1)

(* handle_special_var *)
ExpandStatus == AtDollar /\ Next1 = "?" /\ Fragment(Status, 2)
DropDigit    == AtDollar /\ Next1 = "1" /\ Fragment(<<>>, 2)
LoneDollar   == AtDollar /\ Next1 \notin {"?"} \cup NameChars /\ Fragment(<<"$">>, 1)

(* The first position from m on where no name goes on. *)
NameEnd(m) == SelectInSubSeq(line \o <<"NUL">>, m, Len(line) + 1,
                             LAMBDA c : c \notin NameChars)

GetEnvValue(name) == IF name \in DOMAIN env THEN env[name] ELSE <<>>

(* expand_name_var *)
ExpandName ==
  /\ AtDollar /\ Next1 = "a"
  /\ Fragment(GetEnvValue(SubSeq(line, i + 1, NameEnd(i + 1) - 1)),
              NameEnd(i + 1) - i)

LineExpanded ==
  /\ phase = "scan" /\ i > Len(line)
  /\ phase' = "write"
  /\ UNCHANGED <<word, qt, line, i, out, doc, typedLines>>

-----------------------------------------------------------------------------
Ended == phase = "done" /\ UNCHANGED docVars

DocNext ==
  \/ MarkDelimiter \/ InitRedirectFds
  \/ ReadDocLine \/ EndOfDocument \/ WriteLine
  \/ CopySymbol \/ ExpandStatus \/ DropDigit \/ LoneDollar \/ ExpandName
  \/ LineExpanded \/ Ended

DocSpec == DocInit /\ [][DocNext]_docVars

-----------------------------------------------------------------------------
(* The text of a line, read from left to right symbol by symbol.  name is  *)
(* what has been read of a reference: <<>> behind a $, none outside.       *)

NoName == <<"none">>

Close(a) ==
  IF a.name = NoName THEN a
  ELSE [name |-> NoName,
        text |-> a.text \o IF a.name = <<>> THEN <<"$">> ELSE GetEnvValue(a.name)]

(* No name starts with a digit. *)
Continues(a, c) == a.name # NoName /\ c \in NameChars /\ (c = "1" => a.name # <<>>)

Read(a, c) ==
  CASE a.name = <<>> /\ c = "?" -> [name |-> NoName, text |-> a.text \o Status]
    [] a.name = <<>> /\ c = "1" -> [a EXCEPT !.name = NoName]
    [] Continues(a, c)          -> [a EXCEPT !.name = Append(@, c)]
    [] c = "$"                  -> [Close(a) EXCEPT !.name = <<>>]
    [] OTHER                    -> [Close(a) EXCEPT !.text = Append(@, c)]

(* What has been read at each position. *)
Reading(l) ==
  LET read[k \in 0..Len(l)] == IF k = 0 THEN [name |-> NoName, text |-> <<>>]
                               ELSE Read(read[k - 1], l[k])
  IN read

Text(l) == Close(Reading(l)[Len(l)]).text

-----------------------------------------------------------------------------
(* Properties *)

DocTypeOK ==
  /\ qt \in BOOLEAN /\ quoted \in BOOLEAN
  /\ phase \in {"expand", "init", "read", "scan", "write", "done"}
  /\ i \in 1 .. Len(line) + 1
  /\ Len(typedLines) <= MaxLines /\ Len(doc) <= Len(typedLines)

(* The document holds, line by line, the text of what was typed before the *)
(* first line that is the delimiter as typed: each reference replaced once *)
(* by its longest name, a value never read again for references or for the *)
(* delimiter, quotes kept.  It does so also when the delimiter was quoted: *)
(* the mark that should prevent it is gone when the first line is read.    *)
DocumentAsMeant ==
  /\ phase = "read" => doc = [k \in 1..Len(typedLines) |-> Text(typedLines[k])]
  /\ phase = "done" => Len(doc) = Len(typedLines)
=============================================================================
