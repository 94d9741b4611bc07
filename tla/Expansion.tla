----------------------------- MODULE Expansion ------------------------------
(***************************************************************************)
(* expanding (parsing/expanding.c): for each word of a line, the unquoted  *)
(* references are replaced (env_var), the result is split at blanks        *)
(* (to_retokenize, tokenize_the_envar), the quotes are indexed while the   *)
(* references between double quotes are replaced (save_index), and the     *)
(* indexed quotes are removed (quote_handling).  An empty word is unlinked.*)
(*                                                                         *)
(* A word is a sequence of symbols: a reference $NAME is one symbol, any   *)
(* other character is "a", the blank, or one of the two quotes.  An unset  *)
(* variable has the empty value, which re_alloc treats alike.              *)
(*                                                                         *)
(* Strings that run past their terminator, and a NULL token, have an       *)
(* outcome of their own: nothing is claimed of the shell after them.       *)
(* The mark that expanding leaves on a here-document delimiter is reset by *)
(* init_redirect_fds before anybody reads it, and is left out.             *)
(***************************************************************************)
EXTENDS Integers, Sequences, FiniteSets, SequencesExt

CONSTANTS
  Refs,         \* references, as symbols
  Assignments,  \* environments: a value for each reference
  Lines,        \* lines as typed: sequences of [op, str]
  MaxTokens     \* bound: tokens of the line while it is expanded

Single  == "'"
Double  == "\""
Quotes  == {Single, Double}
Blank   == " "
Symbols == {"a", Blank} \cup Quotes \cup Refs
None    == "none"  \* no quote

ASSUME ExpansionAssumption ==
  /\ Refs \cap ({"a", Blank, None} \cup Quotes) = {}
  /\ Assignments \subseteq [Refs -> Seq(Symbols)]
  /\ MaxTokens \in Nat \ {0}

VARIABLES
  val,     \* the environment
  typed,   \* the line as typed
  tokens,  \* the list: [op, str, index], index being quotes_index (<<>>: NULL)
  at,      \* *temp: its position in tokens
  pc,      \* "visit", "plain" (env_var's loop), "split", "handle", "count",
           \* "outer", "inner" (save_index's loops), "strip" (quote_handling),
           \* "done", "overrun", "crash", "cut"
  i,       \* the next symbol to look at
  j,       \* in quote_handling: indexed quotes removed so far
  open,    \* in save_index: the quote whose end is looked for
  room,    \* in save_index: the length of the array
  toDele   \* env_var's to_dele: the last step of its loop replaced a reference

vars == <<val, typed, tokens, at, pc, i, j, open, room, toDele>>

Ended == pc \in {"done", "overrun", "crash", "cut"}

Init ==
  /\ val \in Assignments /\ typed \in Lines
  /\ tokens = [k \in 1..Len(typed) |->
                [op |-> typed[k].op, str |-> typed[k].str, index |-> <<>>]]
  /\ at = 1 /\ pc = "visit"
  /\ i = 1 /\ j = 0 /\ open = None /\ room = 0 /\ toDele = FALSE

-----------------------------------------------------------------------------
(* Strings *)

Holds(s, S) == ToSet(s) \cap S # {}

(* The quote that is open at position k, a quote being closed by the next  *)
(* one of its kind. *)
OpenAt(s, k) ==
  LET open_at[m \in 1..k] ==
        IF m = 1 THEN None
        ELSE LET q == open_at[m - 1]
             IN CASE q = s[m - 1]                     -> None
                  [] q = None /\ s[m - 1] \in Quotes -> s[m - 1]
                  [] OTHER                            -> q
  IN open_at[k]

Balanced(s) == OpenAt(s, Len(s) + 1) = None

(* The position where the quote at k is closed; 0 if it never is. *)
CloseOf(s, k) == SelectInSubSeq(s, k + 1, Len(s), LAMBDA c : c = s[k])

(* re_alloc: the reference at k is replaced by its value. *)
Substitute(s, k) == SubSeq(s, 1, k - 1) \o val[s[k]] \o SubSeq(s, k + 1, Len(s))

(* to_retokenize *)
HasFreeBlank(s) == \E k \in 1..Len(s) : s[k] = Blank /\ OpenAt(s, k) = None

(* tokenizer_for_expanding pairs quotes whatever their kind. *)
PairedBefore(s, k) == Cardinality({m \in 1 .. k - 1 : s[m] \in Quotes}) % 2 = 0

Separator(s, k) == k \notin 1..Len(s) \/ (s[k] = Blank /\ PairedBefore(s, k))

(* Mutant of PieceStarts: the piece that the terminator ends is not taken. *)
PieceStartsNotLast(s) ==
  {k \in 1..Len(s) : /\ ~Separator(s, k) /\ Separator(s, k - 1)
                     /\ \E m \in k..Len(s) : Separator(s, m)}

PieceStarts(s) == {k \in 1..Len(s) : ~Separator(s, k) /\ Separator(s, k - 1)}

PieceEnd(s, k) ==
  CHOOSE m \in k..Len(s) : \A n \in k .. m + 1 : Separator(s, n) <=> n = m + 1

(* The words that tokenizer_for_expanding makes of s. *)
Pieces(s) ==
  LET pieces[k \in 0..Len(s)] ==
        IF k = 0 THEN <<>>
        ELSE IF k \in PieceStarts(s)
          THEN Append(pieces[k - 1], SubSeq(s, k, PieceEnd(s, k)))
        ELSE pieces[k - 1]
  IN pieces[Len(s)]

(* What the tokenizer hands over: the quotes of its words are closed and   *)
(* their blanks are quoted; operators are of other characters.             *)
ASSUME LinesAssumption ==
  /\ Lines \subseteq Seq([op : BOOLEAN, str : Seq(Symbols)])
  /\ \A l \in Lines : \A k \in 1..Len(l) :
       IF l[k].op THEN ~Holds(l[k].str, Symbols \ {"a"})
                  ELSE Balanced(l[k].str) /\ ~HasFreeBlank(l[k].str)

-----------------------------------------------------------------------------
(* The loop of expanding *)

Str == tokens[at].str

SetStr(s) == tokens' = [tokens EXCEPT ![at].str = s]

(* Where the scan goes on after re_alloc has moved *start. *)
BehindValue == i + Len(val[Str[i]])

Go(next) == pc' = next /\ i' = 1

Visit ==
  /\ pc = "visit" /\ at <= Len(tokens) /\ ~tokens[at].op
  /\ Go("plain") /\ toDele' = FALSE
  /\ UNCHANGED <<val, typed, tokens, at, j, open, room>>

VisitOperator ==
  /\ pc = "visit" /\ at <= Len(tokens) /\ tokens[at].op
  /\ at' = at + 1
  /\ UNCHANGED <<val, typed, tokens, pc, i, j, open, room, toDele>>

Done ==
  /\ pc = "visit" /\ at > Len(tokens)
  /\ pc' = "done"
  /\ UNCHANGED <<val, typed, tokens, at, i, j, open, room, toDele>>

-----------------------------------------------------------------------------
(* env_var: the unquoted references *)

(* From a quote to behind its end; expand_nq finds no $ there. *)
PlainQuoted ==
  /\ pc = "plain" /\ i <= Len(Str) /\ Str[i] \in Quotes
  /\ IF CloseOf(Str, i) = 0
       THEN pc' = "overrun" /\ UNCHANGED <<i, toDele>>
       ELSE pc' = pc /\ i' = CloseOf(Str, i) + 1 /\ toDele' = FALSE
  /\ UNCHANGED <<val, typed, tokens, at, j, open, room>>

PlainSymbol ==
  /\ pc = "plain" /\ i <= Len(Str) /\ Str[i] \notin Quotes \cup Refs
  /\ i' = i + 1 /\ toDele' = FALSE
  /\ UNCHANGED <<val, typed, tokens, at, pc, j, open, room>>

(* Mutant of PlainReference: the value is scanned again. *)
PlainReferenceRescan ==
  /\ pc = "plain" /\ i <= Len(Str) /\ Str[i] \in Refs
  /\ SetStr(Substitute(Str, i))
  /\ toDele' = TRUE
  /\ UNCHANGED <<val, typed, at, pc, i, j, open, room>>

(* expand_nq *)
PlainReference ==
  /\ pc = "plain" /\ i <= Len(Str) /\ Str[i] \in Refs
  /\ SetStr(Substitute(Str, i))
  /\ i' = BehindValue /\ toDele' = TRUE
  /\ UNCHANGED <<val, typed, at, pc, j, open, room>>

PlainEnd ==
  /\ pc = "plain" /\ i > Len(Str)
  /\ Go("split")
  /\ UNCHANGED <<val, typed, tokens, at, j, open, room, toDele>>

-----------------------------------------------------------------------------
(* env_var: to_retokenize and tokenize_the_envar.  save_index follows only *)
(* when the loop did not end on a reference. *)

AfterSplit == IF toDele THEN "handle" ELSE "count"

NoSplit ==
  /\ pc = "split" /\ ~HasFreeBlank(Str) /\ Balanced(Str)
  /\ Go(AfterSplit)
  /\ UNCHANGED <<val, typed, tokens, at, j, open, room, toDele>>

Split ==
  /\ pc = "split" /\ HasFreeBlank(Str) /\ PairedBefore(Str, Len(Str) + 1)
  /\ LET words == [n \in 1..Len(Pieces(Str)) |->
                     [op |-> FALSE, str |-> Pieces(Str)[n], index |-> <<>>]]
         list  == SubSeq(tokens, 1, at - 1) \o words
                    \o SubSeq(tokens, at + 1, Len(tokens))
     IN IF Len(list) > MaxTokens
          THEN pc' = "cut" /\ UNCHANGED <<i, tokens>>
          ELSE Go(AfterSplit) /\ tokens' = list
  /\ UNCHANGED <<val, typed, at, j, open, room, toDele>>

(* The end of a quote is looked for behind the terminator. *)
SplitOverrun ==
  /\ pc = "split"
  /\ IF HasFreeBlank(Str) THEN ~PairedBefore(Str, Len(Str) + 1)
                          ELSE ~Balanced(Str)
  /\ pc' = "overrun"
  /\ UNCHANGED <<val, typed, tokens, at, i, j, open, room, toDele>>

-----------------------------------------------------------------------------
(* save_index *)

CountQuotes ==
  /\ pc = "count" /\ at <= Len(tokens)
  /\ IF Balanced(Str)
       THEN /\ room' = Cardinality({k \in 1..Len(Str) :
                                      OpenAt(Str, k) # OpenAt(Str, k + 1)})
            /\ Go(IF room' = 0 THEN "handle" ELSE "outer")
       ELSE pc' = "overrun" /\ UNCHANGED <<room, i>>
  /\ UNCHANGED <<val, typed, tokens, at, j, open, toDele>>

AddIndex == tokens' = [tokens EXCEPT ![at].index = Append(@, i)]

OpenQuote ==
  /\ pc = "outer" /\ i <= Len(Str) /\ Str[i] \in Quotes
  /\ AddIndex /\ open' = Str[i]
  /\ pc' = "inner" /\ i' = i + 1
  /\ UNCHANGED <<val, typed, at, j, room, toDele>>

OuterSymbol ==
  /\ pc = "outer" /\ i <= Len(Str) /\ Str[i] \notin Quotes
  /\ i' = i + 1
  /\ UNCHANGED <<val, typed, tokens, at, pc, j, open, room, toDele>>

IndexEnd ==
  /\ pc = "outer" /\ i > Len(Str)
  /\ Go("handle")
  /\ UNCHANGED <<val, typed, tokens, at, j, open, room, toDele>>

CloseQuote ==
  /\ pc = "inner" /\ i <= Len(Str) /\ Str[i] = open
  /\ AddIndex /\ open' = None
  /\ pc' = "outer" /\ i' = i + 1
  /\ UNCHANGED <<val, typed, at, j, room, toDele>>

InnerSymbol ==
  /\ pc = "inner" /\ i <= Len(Str) /\ Str[i] # open
  /\ open = Double => Str[i] \notin Refs
  /\ i' = i + 1
  /\ UNCHANGED <<val, typed, tokens, at, pc, j, open, room, toDele>>

(* expand_dq *)
InnerReference ==
  /\ pc = "inner" /\ i <= Len(Str) /\ open = Double /\ Str[i] \in Refs
  /\ SetStr(Substitute(Str, i))
  /\ i' = BehindValue
  /\ UNCHANGED <<val, typed, at, pc, j, open, room, toDele>>

-----------------------------------------------------------------------------
(* quote_handling_and_free *)

(* Every piece was blank and nothing follows: *temp is NULL, and           *)
(* quote_handling_and_free, like save_index, dereferences it.              *)
HandleNull ==
  /\ pc \in {"count", "handle"} /\ at > Len(tokens)
  /\ pc' = "crash"
  /\ UNCHANGED <<val, typed, tokens, at, i, j, open, room, toDele>>

HandleOperator ==
  /\ pc = "handle" /\ at <= Len(tokens) /\ tokens[at].op
  /\ Go("visit") /\ at' = at + 1
  /\ UNCHANGED <<val, typed, tokens, j, open, room, toDele>>

HandleWord ==
  /\ pc = "handle" /\ at <= Len(tokens) /\ ~tokens[at].op
  /\ Go("strip") /\ j' = 0
  /\ UNCHANGED <<val, typed, tokens, at, open, room, toDele>>

Index == tokens[at].index

AtQuote == pc = "strip" /\ i <= Len(Str) /\ Str[i] \in Quotes /\ Index # <<>>

(* remove_q: i is the indexed quote, what was removed before being counted. *)
AtIndexed == AtQuote /\ j + 1 < Len(Index) /\ i = Index[j + 1] - j

(* Mutant of EndOfPair: what was removed before is not counted. *)
EndOfPairUnshifted == Index[j + 2]

(* The matching end, which the loop of remove_q looks for by both its kind *)
(* and its place. *)
EndOfPair == Index[j + 2] - j

(* Mutant of BehindPair: no step back. *)
BehindPairNoStep == EndOfPair + 1

(* remove_q: the pair is gone, so what followed it is one step nearer.     *)
BehindPair == EndOfPair - 1

(* remove_quote *)
RemovePair ==
  /\ AtIndexed
  /\ EndOfPair <= Len(Str) /\ Str[EndOfPair] = Str[i]
  /\ SetStr(RemoveAt(RemoveAt(Str, EndOfPair), i))
  /\ j' = j + 2 /\ i' = BehindPair
  /\ UNCHANGED <<val, typed, at, pc, open, room, toDele>>

KeepSymbol ==
  /\ pc = "strip" /\ i <= Len(Str) /\ ~AtIndexed
  /\ AtQuote => j + 1 < Len(Index)
  /\ i' = i + 1
  /\ UNCHANGED <<val, typed, tokens, at, pc, j, open, room, toDele>>

WordDone ==
  /\ pc = "strip" /\ i > Len(Str)
  /\ Go("visit")
  /\ IF Str = <<>> THEN tokens' = RemoveAt(tokens, at) /\ UNCHANGED at
                   ELSE at' = at + 1 /\ UNCHANGED tokens
  /\ UNCHANGED <<val, typed, j, open, room, toDele>>

-----------------------------------------------------------------------------
Stopped == Ended /\ UNCHANGED vars

Step ==
  \/ Visit \/ VisitOperator \/ Done
  \/ PlainQuoted \/ PlainSymbol \/ PlainReference \/ PlainEnd
  \/ NoSplit \/ Split \/ SplitOverrun
  \/ CountQuotes \/ OpenQuote \/ OuterSymbol \/ IndexEnd
  \/ CloseQuote \/ InnerSymbol \/ InnerReference
  \/ HandleNull \/ HandleOperator \/ HandleWord
  \/ RemovePair \/ KeepSymbol \/ WordDone

Next == Step \/ Stopped

Spec == Init /\ [][Next]_vars /\ WF_vars(Step)

-----------------------------------------------------------------------------
(* The words that a typed word stands for, one symbol after the other:     *)
(* quotes group and vanish, an unquoted value is split at its blanks, a    *)
(* value between double quotes is taken as it is, nothing empty remains.   *)

Take(a, c) == [a EXCEPT !.cur = Append(@, c)]

Cut(a) == IF a.cur = <<>> THEN a
          ELSE [a EXCEPT !.words = Append(@, a.cur), !.cur = <<>>]

TakeFree(a, c) == IF c = Blank THEN Cut(a) ELSE Take(a, c)

TakeValue(a, v) ==
  LET taken[k \in 0..Len(v)] == IF k = 0 THEN a ELSE TakeFree(taken[k - 1], v[k])
  IN taken[Len(v)]

Read(env, a, c) ==
  IF a.open = None
    THEN IF c \in Quotes THEN [a EXCEPT !.open = c]
         ELSE IF c \in Refs THEN TakeValue(a, env[c])
         ELSE TakeFree(a, c)
    ELSE IF c = a.open THEN [a EXCEPT !.open = None]
         ELSE IF c \in Refs /\ a.open = Double THEN [a EXCEPT !.cur = @ \o env[c]]
         ELSE Take(a, c)

ReadAll(env, a, w) ==
  LET read[k \in 0..Len(w)] == IF k = 0 THEN a ELSE Read(env, read[k - 1], w[k])
  IN read[Len(w)]

Start == [open |-> None, cur |-> <<>>, words |-> <<>>]

Fields(env, w) == Cut(ReadAll(env, Start, w)).words

Words(env, t) ==
  IF t.op THEN <<[op |-> TRUE, str |-> t.str]>>
  ELSE [n \in 1..Len(Fields(env, t.str)) |->
         [op |-> FALSE, str |-> Fields(env, t.str)[n]]]

MeantBy(env, list) ==
  LET meant[k \in 0..Len(list)] ==  \* by the last k of them
        IF k = 0 THEN <<>> ELSE Words(env, list[Len(list) - k + 1]) \o meant[k - 1]
  IN meant[Len(list)]

Meant == MeantBy(val, typed)

Resulting == [k \in 1..Len(tokens) |-> [op |-> tokens[k].op, str |-> tokens[k].str]]

-----------------------------------------------------------------------------
(* What the properties distinguish *)

TypedWords == {typed[k].str : k \in {n \in 1..Len(typed) : ~typed[n].op}}

(* The text of a value is not taken for syntax. *)
PlainValues == \A r \in Refs : ~Holds(val[r], Quotes \cup Refs)

NoBlankValue == \A r \in Refs : ~Holds(val[r], {Blank})

(* One kind of quote stands between two of the other kind. *)
Nested(w) == \E k \in 1..Len(w) : w[k] \in Quotes /\ OpenAt(w, k) \in Quotes \ {w[k]}

(* env_var ends on a reference, and save_index never runs. *)
KeepsQuotes(w) == w # <<>> /\ Holds(w, Quotes) /\ w[Len(w)] \in Refs

(* Nothing but blanks is left of the word, and its successor is not visited. *)
AllBlank(w) ==
  /\ ToSet(w) \subseteq Refs
  /\ UNION {ToSet(val[r]) : r \in ToSet(w)} = {Blank}

Regular(w) == ~KeepsQuotes(w) /\ ~AllBlank(w) /\ (Nested(w) => NoBlankValue)

-----------------------------------------------------------------------------
(* Properties *)

TypeOK ==
  /\ Len(tokens) <= MaxTokens /\ at \in 1 .. Len(tokens) + 1
  /\ \A k \in 1..Len(tokens) :
       /\ tokens[k].op \in BOOLEAN
       /\ ToSet(tokens[k].str) \subseteq Symbols
       /\ ToSet(tokens[k].index) \subseteq Nat \ {0}
  /\ pc \in {"visit", "plain", "split", "handle", "count", "outer", "inner",
             "strip", "done", "overrun", "crash", "cut"}
  /\ i \in Nat \ {0} /\ j \in Nat /\ room \in Nat
  /\ open \in Quotes \cup {None} /\ toDele \in BOOLEAN

(* The line that comes out is the line that was meant: although values of  *)
(* any length are put in place while quotes are indexed and words are      *)
(* inserted while the list is walked, no quote of the user survives, no    *)
(* symbol of a value is lost, split in quotes or taken for syntax.         *)
(* Excepted are lines with a word that ends in a reference and holds a     *)
(* quote, with a word of nothing but references whose values hold blanks   *)
(* and nothing else, or with a quote in quotes of the other kind while any *)
(* value holds a blank, split or not.                                      *)
MeantLine ==
  pc = "done" /\ PlainValues /\ (\A w \in TypedWords : Regular(w)) =>
    Resulting = Meant

(* The array of save_index, whose length is counted before the references  *)
(* between double quotes are replaced, is neither overrun nor left         *)
(* unfinished, and every pair in it is a pair of equal quotes of the       *)
(* replaced string.  remove_q, which computes the place of a quote from    *)
(* the array and the number of quotes already removed, never reads behind  *)
(* the array and finds the other end of a pair where it looks.  All this   *)
(* also when values hold quotes.                                           *)
IndexPaired ==
  /\ pc \in {"outer", "inner"} => Len(Index) <= room
  /\ pc = "inner" => i <= Len(Str)
  /\ pc = "handle" /\ at <= Len(tokens) /\ Index # <<>> =>
       /\ Len(Index) = room
       /\ \A m \in 1..room : Str[Index[m]] \in Quotes
       /\ \A m \in 1 .. room - 1 : Index[m] < Index[m + 1]
       /\ \A m \in 1..room : m % 2 = 1 => Str[Index[m]] = Str[Index[m + 1]]
  /\ AtQuote => j + 1 < Len(Index)
  /\ AtIndexed => EndOfPair \in i + 1 .. Len(Str) /\ Str[EndOfPair] = Str[i]

(* The expansion goes wrong only on unusual values: the end of a quote is  *)
(* looked for behind the end of the string only when a value holds a quote *)
(* or, on a line with a quote in quotes of the other kind, a blank, and    *)
(* NULL is reached only when a value is all blank.                         *)
FailsOnlyOnOddValues ==
  /\ pc = "overrun" =>
       \/ \E r \in Refs : Holds(val[r], Quotes)
       \/ ~NoBlankValue /\ \E w \in TypedWords : Nested(w)
  /\ pc = "crash" => \E r \in Refs : ToSet(val[r]) = {Blank}

(* No reference leads back to itself. *)
Acyclic ==
  \E rank \in [Refs -> 1..Cardinality(Refs)] :
    \A r, s \in Refs : s \in ToSet(val[r]) => rank[s] < rank[r]

(* The words that a split inserts are visited again, references in them    *)
(* included.  That ends: always when no value holds a blank, and otherwise *)
(* when no value leads back to itself.                                     *)
Terminates == NoBlankValue \/ Acyclic => <>(Ended /\ pc # "cut")
=============================================================================
