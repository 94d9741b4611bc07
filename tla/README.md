# minishell: specification, model checking and proofs

This directory holds TLA+ models of the shell in this repository, TLC
configurations that check them on small instances, and TLAPS proofs of the
properties that matter most. The reference is the C code; the repository's own
README describes library functions only, and there are no tests.

## 1. The system

The shell is one process with a read-execute loop (`main.c`). Each line is
tokenised, checked, expanded, its redirections are opened in the shell, and it
is then run in one of three ways: as a pipeline (`execute_pipeline`), as a
builtin in the shell (`cd`, `export`, `unset`, `exit` alone on a line), or in one
forked child.

| component | state | operations | talks to |
|---|---|---|---|
| session loop (`main.c`, `signals_*.c`) | `glb_list()->exit_status`, the local `exit_status`, dispositions of SIGINT/SIGQUIT | read, check, run, wait | everything below |
| syntax and split (`check_errors.c`, `pipes_helpers.c`, `args_utils.c`) | the token list | check, remove empty words, count and collect segments, collect words | session, pipeline |
| redirections (`redirection_utils*.c`, `execute_redirections.c`) | `file_fd` in the tokens, the descriptor table | open in the shell, move in the child, close at the end | session, here-document, pipeline |
| here-document (`heredoc*.c`) | a pipe, a forked reader, its wait status | read lines, write, wait, give up | redirections, signals |
| pipeline (`pipes*.c`) | pipes, pids, dispositions | create, fork, set up, close, wait, report | children, kernel pipes |
| environment and `cd` (`env_var/`, `export.c`, `unset.c`, `cd.c`) | the list of variables, the working directory | get, put, delete, change directory | expansion, execve |
| `exit` (`exit.c`, `exit_utils.c`) | the number being read | read digits, test for overflow, exit | session |
| expansion (`expanding*.c`, `env_var.c`, `tokenizer_for_expanding.c`) | the token list while it is walked, one word, its array of quote positions | replace, split, index, strip | session, environment |
| tokenizer (`tokenizer*.c`, `input_error`) | the line | refuse open quotes, split into tokens | session, syntax |
| here-document text (`heredoc_expansion*.c`, `process_heredoc_line`) | one typed line, the mark of the delimiter | compare, replace references, write | here-document, environment |
| command lookup (`exec_command.c`, `pipes_exec.c`) | the entries of `PATH`, the path found | stat, stat again, execve, exit with a status | children, file system, environment |

What is hard here: children that share pipes with the shell and each other;
Ctrl-C, which reaches every process of the terminal at once and means something
different in each (handler, handler without restart, ignored, default);
`waitpid` results that nobody looks at; descriptor numbers kept in tokens after
the descriptors are closed; words that vanish after the syntax check; files that
other processes change between two looks at them; scans that trust an earlier
check; failing
`pipe`, `fork`, `dup2`, `open`, `getcwd` in the middle of an operation. The list
is in `PROJECT.json` under `hazards`, each with its line and the properties that
cover it.

## 2. Modules

| module | models | run |
|---|---|---|
| `Pipeline` | one call of `execute_pipeline` with all its processes | `pipeline_safety`, `pipeline_live` |
| `PipelineAbs` | what that call promises, without pipes | refined by `Pipeline` |
| `PipelineProofs` | proofs about `Pipeline` | - |
| `Heredoc` | one call of `open_heredoc_and_write_pipe` | `heredoc` |
| `HeredocLine` | a line with a here-document: two calls as in `Heredoc`, the shell and the child | `heredoc_line` |
| `Document` | what a here-document contains | `document` |
| `HeredocProofs` | proofs about `Heredoc`, `HeredocLine` and `Document` | - |
| `Redirections`, `RedirectionsProofs` | descriptor numbers of one line; proofs | `redirections` |
| `Session`, `SessionProofs` | the loop of `main` over many lines; proofs | `session` |
| `Env`, `EnvAbs`, `EnvProofs` | the environment list, export, unset, cd, nested shells; the values of each name; proofs | `env` |
| `Tokenizer` | `check_errors` and `tokenizer`: characters to tokens | `command_line` |
| `Syntax` | check, empty words, split, words of each child | `command_line` |
| `CommandLine`, `CommandLineProofs` | `Tokenizer`, then `Syntax` on its tokens; proofs | `command_line` |
| `Lookup` | from a command's first word to a program or a status | `lookup` |
| `Expansion`, `ExpansionProofs` | `expanding`: references, splitting, quotes, the list that changes meanwhile; proofs | `expansion` |
| `ExitArg` | `ft_exit` and its number | `exit_arg` |
| `StatusProofs` | proofs about `Lookup` and `ExitArg`, which make the statuses the shell itself gives | - |

`MC*` modules only give values to the constants. Operators whose comment starts
with "Mutant of" are not part of a specification: each is a plausible mistake in
one definition, and the property named for it in `PROJECT.json` must fail when
it takes that definition's place.

### Pipeline

The shell's `pc` follows `execute_pipeline`: create (`create_pipes`), spawn
(`spawn_all_children`), ignore (`ignore_interactive_signals`), close
(`free_pipes`), wait (`wait_children`), done; `abandoned` is the early return.
`idx` is the loop counter of whichever loop runs. A child goes through dupin,
dupout, closing (`setup_child_pipes`), signals, redirect, exec (`child_executor`)
and run. `shell` and `held[i]` are the pipes of `pfds` each process still has
open; the shell closes both ends of a pipe in two adjacent calls, so a pipe is
one element. `stdin[i]` and `stdout[i]` are what descriptors 0 and 1 refer to.
A redirection that fails ends the child with 1, or with SIGSEGV when its operand
is missing or vanished. A program reads all its input, writes at most `MaxOut`
units and exits; it may also exit at any moment (`Quit`), but is never assumed to. The reading side and
the writing side of a pipe behave as the kernel's: a full pipe blocks while
somebody holds a reading end, SIGPIPE otherwise; an empty one blocks while
somebody holds a writing end, end-of-file otherwise. `stdin` counts as a reading
end and `stdout` as a writing end of the pipe they refer to.

### Heredoc

Both processes of one call. The shell's disposition at the time of the call is
any of the three a session can have (see `Session`). `ConcludeOnGarbage` is the
path on which `waitpid` returned EINTR and `status` was never written: every
content is possible, also one that hands a cancelled document over. The handler
that makes this possible stays installed after the line that brought it, so
"heredoc" is a disposition of any later line, whatever it starts with. Line contents are abstracted to byte counts; expansion can
make a line any length up to `MaxLen`.

### HeredocLine

`redirection_infos` asks for the document before the fork; when it gets none, -1
stays in the token, `main` forks all the same and the child asks again
(`open_redir_fd`). `HeredocLine` extends `Heredoc`: both requests are its
actions, whose shell is the process that asks: the shell in the first request,
the child (with the disposition it has after `fork` or `child_executor`) in the
second, which starts from the state `AskAgain` sets up. Ctrl-C reaches the shell,
which now waits for the command, the child and its reader in one step. `glb` is
what the shell stores; a reader the first request has left behind (possible only
with the handler that does not restart `waitpid`) is counted in `left`. The fork
of the command may fail (`CannotFork`; `cmd` is then "unforked"), the pipes of a
pipeline too (the second disjunct of `ForkCommand`), and `dup2` of either document
(`CannotUseFirst`, `Unanswered`). `Undisturbed` says that no `waitpid` of the line
can have been given up: the handler that restarts, or SIGINT ignored, or no Ctrl-C.
It asks for the handler, not for what the line starts with.

### Document

`MarkDelimiter` is the part of `expanding` that marks a quoted delimiter,
`InitRedirectFds` the later reset of that mark, both in the order of `main`.
Lines are sequences of five kinds of symbols; the steps of `expand_heredoc_line`
are one action per kind of fragment. `Text` is a second definition, a fold over
the symbols (a recursive function over positions). Every one-line document of up to four symbols was also given to the
compiled `expand_heredoc_line`: the 12,480 results agree.

### Redirections

All descriptors above 2 in the shell's table and in the table of one child, with
real numbers: `open` and `pipe` take the lowest free one. A here-document, whose
pipe and reader are modelled in `Heredoc`, takes one number or fails. After a
failed `open` everything is closed and the numbers remain (`OpenFails`), the line
goes on, `create_pipes` may get the same numbers, and the child and the final
`close_redirection_fds` use what the tokens still say.

`next` is the token behind an operator when the redirections are opened: its word,
or, when that vanished, the next redirection ("op"), a `|` or nothing. An operator
token has no string, so `open` fails on it, and so does the child's message about it
(`OpenAgain`). `emptied` are the segments that expansion left without a token: the
list of such a child is not cut (`InList`) and starts with the `|` behind it, so it
walks over the redirections of all later segments.

### Session

Lines come in any order. `disp` starts as "general", becomes "heredoc" by a line
that starts with `<<`, for that line and those after it, and "ignored" by a pipeline. `local` is the loop's
`exit_status`, which is never initialised (`Garbage`), holds a raw wait status
after a simple command and a decoded one after a pipeline. A child keeps the
shell's disposition until `execve`, which resets handlers and keeps "ignored".
`piped` records that a pipeline has run, `given` that a line has started with `<<`;
neither is in the code. A here-document or a pipeline is one step, or none: `expanding`
may not return ("endless"), a document may be larger than its pipe, asked for by the
shell ("blocked"), by a child of the pipeline ("stuck") or by the foreground child
(`ChildBlocks`). From the last three a Ctrl-C leads on. A child ends with a code of
the shell's (`ShellCodes`) or its program's (`Codes`), or by a signal other than
SIGINT (`Signals`, with or without a memory dump), before or after `execve`.

### Env and EnvAbs

The list keeps its order; a name is a number, its place in the order of `strcmp`.
`cd` is `change_directory_and_update` with its three targets and its failure
between `OLDPWD` and `PWD`. `prev`, `pwdOk`, `oldOk` remember where the last `cd`
came from and since when nobody touched the variables. A `chdir` that fails
changes nothing and is not an action, nor is a word that `is_valid_identifier`
refuses. `SaveEnv` keeps a name that `envp` holds twice as two nodes; `EnvAbs`
has a stack of values per name, of which every command but `unset` sees the
first. `NestedShell` sends the list through `EnvlistToArray`, `execve` and
`SaveEnv`, which gives "" to a name that had no value.

### Tokenizer, Syntax and CommandLine

A character is one of two blanks, three operator characters, two quotes or "a",
which stands for all others; a token is the stretch of the line it was cut from.
`TakeQuoted` is one round of `alloc_quote` with the step back of `alloc_str`.
`Meant` defines the tokens of a line without scanning it. All 37,449 lines of up
to five characters were also given to the compiled `input_error` and
`tokenizer`, with equal results. `CommandLine` hands the tokens to `Syntax` and
chooses the words that expansion removes among those that can vanish (only outer
quotes, and references that are not between single quotes), and those that it cuts
into several among those with an unquoted reference. In `Syntax` a token is its kind;
"gone" is a word that expansion leaves empty, "split" one that it cuts into two or
more. The pieces stay together in the place of their word, so they remain one entry
of `toks`; `Args` takes the first piece as the operand of an operator before it and
the others as words of the command. The loops of
`count_segments`, `collect_segments` and `fill_args`, and the one of `expanding` that
unlinks empty words (`Kept`), are recursive functions over positions; the properties compare them with the segments as typed.

### Lookup

`find_in_paths` takes one entry per action; what stat and execve see is `files`
at that moment, and `Change` may put anything in any place meanwhile. `atomic` is
what a lookup in one moment would have answered at each moment so far, `was` what
each place has held; neither is in the code. A simple command and a command in a
pipeline have a copy of this code each; they do the same.

### Expansion

A word is a sequence of symbols; a reference is one symbol, so where its name
ends is not modelled, and every other character that is neither blank nor quote
is "a". Each iteration of the loops of `env_var`, `save_index` and
`quote_handling` is an action; `i`, `j`, `toDele`, `room` and the array `index`
are the code's, counted from 1. `to_retokenize`, `tokenizer_for_expanding` and
`count_quotes`, which only read, are operators. A scan that leaves its string
ends in "overrun", the NULL token in "crash": nothing is claimed after either.
"cut" is the bound `MaxTokens`. `LinesAssumption` says what lines there are: those
the tokenizer can hand over, their quotes closed and their blanks quoted. `Meant` is a second, independent definition of
the words a line stands for, read from left to right.

### ExitArg

One action per digit; the digit is chosen when it is read, so a word of any
length is covered. `value` follows the exact magnitude beside `num`.

## 3. What the runs show

All runs pass. The instances and why they are large enough:

* `pipeline_safety`: three segments (a first, a middle, a last one), pipes of one
  unit, programs that write at most one unit, one Ctrl-C, every call may fail.
  The properties speak of neighbours, so two pipes show all relations; the proofs
  below drop the bound.
  `OnlyOwnEnds`, `ShellKeepsNoEnd`: no pipe end is forgotten anywhere.
  `EofMeansUpstreamGone`, `SigpipeMeansReaderGone`: end-of-file and SIGPIPE come
  from a neighbour that is gone, never from one that is not set up yet.
  `ReportedStatus`: all children are reaped, `$?` is the last one's.
  `ImplementsAbs`: the whole refines `PipelineAbs`.
* `pipeline_live`: two segments, a writer that fills the pipe (two units, capacity
  one), two exit codes. `Terminates`.
* `heredoc`: capacity 3, documents of up to 5 bytes in lines of up to 2 (so both
  below and above the capacity), two Ctrl-C, three dispositions.
  `AcceptedIsComplete`: a document whose reader was waited for is complete, and
  there is no stray descriptor. `CancelledNotUsed`: a cancelled one is reported and
  refused. Both, like `ReaderGone`, except the "heredoc" disposition where the shell
  may give up waiting: there half a document, cancelled or still being typed, can be
  handed over, and the model has such states.
  `ReturnsOrOverflows`: the only way not to return is a document larger than the
  pipe. That deadlock is real (the `Blocked` states): nobody reads the pipe before
  the reader has ended.
* `redirections`: up to three redirections in up to three segments, all kinds, all
  failures, with and without a word, any other segments emptied: one to fail, one
  stale, one that follows.
  `RunsWithItsOwnFiles`, `NumberNeverAliased`: stale numbers do alias pipes for a
  while, but `setup_child_pipes` and the closing order make every use harmless;
  only files of other segments leak into a program. The child of an emptied segment
  takes the files of the segments behind it, as its list says. `TableRestored`.
* `session`: any number of lines, two Ctrl-C anywhere, children that end by SIGSEGV.
  `SimpleStatus`, `NoOrphanWithoutHeredoc` and `CtrlCKills` state exactly when the
  session's signal handling is right: the first while the here-document handler is
  not installed, the second until a line has started with `<<`, the third until a
  pipeline has run. `GarbageOnlyThroughPipeline` bounds the effect of the
  uninitialised `exit_status`. `LineEnds`: every line comes to its end but for an
  endless expansion and a document larger than its pipe, and a Ctrl-C helps with the
  latter.
* `heredoc_line`: capacity 2, documents of up to 3 bytes, three Ctrl-C (one per
  request and one more), a simple command and the last one of a pipeline, `pipe`,
  `fork` and `dup2` failing anywhere. `RunsWithDocument`, `PromptIsAlone`,
  `CancelledLineStatus` hold for `Undisturbed` lines: the command runs only with a
  complete document, nobody shares the terminal with the prompt, and a child that
  gave up or was killed gives 1 or 130. A fork that fails gives 1, but 0 in a
  pipeline, which waits for nobody; and when the pipes cannot be made the 130 that
  the shell stored for its own cancelled request stays. On other lines, those on
  which Ctrl-C comes while an earlier or this `<<` at the start of a line has left
  its handler, each of the three is false of the code.
* `document`: two lines, five symbols together, values that look like the
  delimiter, like a longer reference, or are empty. `DocumentAsMeant`: the text is
  replaced once, from the longest name, and also when the delimiter was quoted.
* `env`: four names (three special, one more behind them), two directories, every
  order of every subset as the initial list, `PWD` there twice or not, any
  sequence of commands and nested shells (the state space is finite and explored
  completely). `ImplementsAbs`: no command changes a name it was not given or
  gives one a second node. `PwdAndOldPwd`.
* `command_line`: every line of up to five characters, every line of six without
  quotes, tabs and `>`, and every line of up to seven without blanks too: three
  segments, one of them emptied, with a redirection fit into seven.
  `ScansStayInside` (the only line that reaches `check_parsing_errors` without a
  token is a line of blanks), `TokensAsMeant`, `OwnWordsUnlessEmptied`. `CleanSplit`:
  when nothing vanishes a child runs what was typed for it, and besides the further
  pieces of an operand that was split: `echo a > $B` with `B='x y'` prints `a y`.
* `lookup`: two directories with empty items in `PATH`, or a word with a `/`, seven
  kinds of things at each place, two changes. `AsIfAtomic` allows one change, and
  that is tight: with two (a program moved from a later to an earlier entry)
  the answer can be 127 although the program was there at every moment.
  `OutcomeHasReason` does not bound them.
* `expansion`: every word of up to five symbols whose quotes are closed, alone,
  before `"$X"` or before a pipe, under fourteen environments: empty values,
  blanks in front, in the middle, behind and alone, both quotes in values, values
  with references. Two quoted parts with a reference, nested quotes and a
  reference at either end fit into five symbols, and nine tokens hold every
  line whose expansion ends. `MeantLine`, `IndexPaired`, `FailsOnlyOnOddValues`,
  `Terminates`. All lines of this run were also given to the compiled functions
  of `parsing/` under AddressSanitizer; resulting words, overruns, crashes and
  endless expansions agree with the model.
* `exit_arg`: a long long of ten bits, up to four digits: both bounds, values
  beyond them and codes above 255 are reached.

Behaviour of the code that the models have as an outcome, without a statement of
the repository that it contradicts: a blank line ends the shell (`BlankLine`, "null" in `Tokenizer`); a
pipeline leaves SIGINT ignored for every later program; Ctrl-C during a command
of a `<<` line can report 0 and leave the command running; a cancelled
here-document is asked for again by the child; the handler of a line that starts
with `<<` stays for the lines after it; a failed fork of the last command of a
pipeline gives 0, and a pipeline whose pipes cannot be made leaves `$?` as it was; a
here-document with a quoted delimiter is expanded; `cat > | wc` and `cat < $UNSET`
end the child with SIGSEGV; of an operand that is split only the first piece is one;
a child without tokens takes the redirections of the segments behind it; `$UNSET | cat` runs `cat` twice; a failing `cd` can
have moved the shell; `"a"$X` keeps its quotes; a word that becomes blank leaves
its successor unexpanded or crashes the shell; a value with a blank and a
reference to itself makes expansion endless; `unset` of a name that `envp` held twice leaves its second value; an
empty item of `PATH` is skipped. The properties say precisely how far
each of these goes.

### Fairness

`Pipeline`: weak fairness of the shell and of each child: the kernel schedules
every process that can run. Nothing is assumed of `Quit` and `Interrupt`.
`Heredoc`: the same for both processes, and the user types the delimiter
eventually (`WF(Delimiter)`); Ctrl-D and Ctrl-C are not assumed. `Session`: the
shell runs and programs end (`WF(ChildExits)`); typing a line is not assumed, but
that a document which fits its pipe is ended, as in `Heredoc` (`RedirectionsDone`
is a step of the shell). Neither Ctrl-C nor an end to what `LineEnds` excepts is. `Expansion`:
the one process runs. Deadlock
checking is on in every run; states in which a call has returned, the session
has ended, or a here-document is blocked on a full pipe have an explicit
stuttering action.

## 4. What is proved

`PipelineProofs`, from `PipelineAssumption` alone (any positive `NSeg` and `Cap`,
any `MaxOut`, `MaxInt`, codes below 256, any set of faults):

* `Invariance`: `Spec => []IInv`.
* `TypeCorrect`, `EndsCorrect`, `ShellEndsClosed`, `EofCorrect`, `SigpipeCorrect`,
  `StatusCorrect`: the safety invariants of the run.
* `Implements`: `Spec => ImplementsAbs`, by a step simulation: each action is a
  step of `PipelineAbs` or leaves its view unchanged.

None of the properties is inductive alone. `EofMeansUpstreamGone` needs to know
that nobody can become a writer again: which ends a child holds follows from
where it is (`held[i]` contains every pipe at or above `j[i]` until it has passed
its loop), a child not yet forked can only inherit what the shell holds, and the
shell closes only after the last fork. `ReportedStatus` needs that a child before
`idx` is reaped or was never forked, and that `last` is 0 until the last one.
`IInv` is the conjunction of these facts with the properties; TLC checked it as
an invariant of a run before it was proved.

`HeredocProofs`, on `Heredoc`, from `HeredocAssumption` (any capacity, lines and documents of
any length, any number of Ctrl-C, any set of faults): `TypeCorrect`,
`ReaderIsGone`, `CancelledIsRefused` and `AcceptedIsWhole`, the safety invariants
of the run. `CancelledIsRefused` holds without its exception only for an asker whose
`waitpid` is restarted; the exception (`disp = "heredoc" /\ child = "dead"`: the
reader was never reaped) is what `ConcludeOnGarbage` can do. That a document handed
over by a reaped reader is complete needs more
than the code of `handle_parent_process` says, which also accepts a reader
killed by SIGPIPE: `IInv` adds that the shell holds the reading end for as long
as it waits, so a reader that dies of its pipe dies after the shell has given up
and is never reaped; that only a reader that ended with `exit0` has nothing left
to write; and that every byte typed is in the pipe or still to be written.
TLC checked `IInv` first here too.

`HeredocProofs`, on `Document`, from `DocumentAssumption` (any lines, delimiters and
environments): `DocumentIsMeant` (`DocumentAsMeant`). The scan of a line and `Text`
read it in different steps: a fragment of the code is several symbols. `DocIInv`
says that wherever a fragment begins, `out` is what `Text` has read so far and no
name is open; that one fragment keeps this is shown for each kind, by induction
over the letters of a name for `$NAME`.

`StatusProofs`, on `ExitArg`, from `ExitArgAssumption` (any `LLongMax` above 9, so also 2^63-1;
any length): `OverflowCheckExact`, the lemma that `overflow_check` answers
exactly whether the next digit leaves the range; `NeverOverflows` and
`CodeIsExact` follow from the invariant that `num` is the exact value as long as
nothing was refused.

`SessionProofs`, for any number of lines and of Ctrl-C and any behaviour of the
programs: `TypeCorrect`, `OrphansNeedHeredoc`, `GarbageNeedsPipeline`, and the two
action properties `StatusIsTheCommands` and `InterruptKills`. That children are
left behind only by a shell that was given a line starting with `<<` is inductive
once each of them is paid for: a child left behind, and a `waitpid` that has failed
and is about to leave one, has cost a Ctrl-C of its own (`OrphanInv`), and the
handler is installed only where `given` is true. That `$?` is the command's
status needs that `exit_status` is 0 for as long as there is a child
(`ChildInv`); that Ctrl-C kills needs to know what a child can have inherited:
it ignores SIGINT only if the shell did at the fork, and the shell only after a
pipeline (`SignalInv`).

`StatusProofs`, on `Lookup`, from `LookupAssumption` (any directories, any set of values of
`PATH`, any number of changes): `TypeCorrect`, `LooksAtOneMoment` (`AsIfAtomic`) and
`StatusHasReason` (`OutcomeHasReason`). With at most one change there are two
moments to distinguish: `MomentsInv` keeps a second picture of the files, which
differs from the present one in one place, together with what a lookup at either
moment would have answered. Whatever was seen by an action is then true in one of
the two, and the proof is about which: an entry passed over in one picture and
chosen in the other must be the one that changed.

`HeredocProofs`, on `HeredocLine`, for documents and a pipe of any size and any
number of Ctrl-C: `TypeCorrect`, `CommandHasDocument`, `NoReaderAtPrompt` and `LineStatus`.
`IInv` says what a request is allowed to be while somebody waits for it: without
a result until it returns, with the reading end in the asking process, so that
the reader can only end by its own `exit(0)` or by SIGINT; and it says whose
disposition counts (`AskerInv`), since the same actions are first the shell's and
then its child's. For lines that are not `Undisturbed` only the types and `AskerInv`
are claimed, as in the properties.

`RedirectionsProofs`, from `RedirectionsAssumption` (any number of redirections
and segments): `TypeCorrect`, `NumbersAreOwn`, `DescriptorsRestored` and
`CommandHasItsFiles`. `NumberNeverAliased` speaks of two moments only; what
makes it hold is that an open file always has its number in its own token, that
no two tokens share a number however stale, and that a number in a token which is
open and not its own file is a pipe (`NumbersInv`, `PipesInv`). These need that
`open` always finds a free number, which is proved by counting (`Room`): files and
pipes together are fewer than the table has places. `StreamsInv` says what
descriptors 0 and 1 are after the redirections of a segment that were dealt with
so far.

`EnvProofs`, from `EnvAssumption` (any finite set of names, any directories, any
`envp` made of them): `TypeCorrect`, `CdKeepsItsVariables` (`PwdAndOldPwd`) and
`Refinement`: `Spec => ImplementsAbs`. The values of a name are a recursive
function of the list, from its head to its end. Whatever was needed about it is proved
by induction over positions (`Upward`, from the least element of a set, since the
library's induction rules cannot be used with the installed provers): lists that
agree from a node on have the same values (`SameRest`), a node of another name
makes no difference (`Skip`), and agreement behind a node carries to the head
(`SameFront`). From these, `PutValues`, `DeleteValues` and `SavedValues` say of
`update_env_var`, `insert_env_node`, `delete_env_var` and of the passage through
`execve` what they do to the values of every name. A step of `cd` is then
`Move` of `EnvAbs`, with or without the second assignment; making and removing
directories, and `unset` of a name that is not there, are not seen. The order of
the list plays no part in it: an insertion anywhere would do.

`CommandLineProofs`, from `TokenizerAssumption` alone (lines of any length):
`QuotesHaveEnds` (`ScansStayInside`), `TokenizedAsMeant` (`TokensAsMeant`),
`ChildrenRunTheirOwn` (`OwnWordsUnlessEmptied`) and `SplitIsClean` (`CleanSplit`).
The inductive invariant has three parts. `LexInv` says where the tokenizer stands:
`input_error` has looked at the whole line from its end, so behind every place
where the tokenizer can be no quote is open without an end. `TokensInv` says that
the tokens so far are those of `Meant` that begin before `i`, that no quote is open
where a token begins, and that of a run of `<` or `>` an even number is behind.
`RestInv` says what `Syntax` has: the kinds of those tokens, the tokens without the
words that vanished, and, after the split, what the two walks of `count_segments`
and `collect_segments` return. `SplitIs` states that result without recursion
(as many segments as there are `|` between them, each from behind one `|` to the
next). `WordsFrom` does so for `fill_args`, which skips the token behind an operator:
of a word that was split that is the first piece only, so the word still gives words
to the command. Both properties follow from it by counting: the segment a token was
typed in is one more than the `|` before it.

`ExpansionProofs`, from `ExpansionAssumption` and `LinesAssumption` (words, values
and lines of any length, any environment): `QuotesPaired` (`IndexPaired`),
`OnlyOddValuesFail` (`FailsOnlyOnOddValues`) and `OnlyMeantWords` (`MeantLine`). `IndexedInv` follows one word through
three loops. While `save_index` runs, the positions in the array are those of the
quotes read so far, in order, in pairs of equal quotes (`Marks`) with no place
outside them that a quote stands in (`Enclosed`); that the array is neither overrun
nor left unfinished although the string under it changes needs a string that no
longer exists: the one `count_quotes` has counted, which agrees with the
present one behind `i` up to a shift (`Counted`). While `quote_handling` runs,
`Remaining` says of the rest of the array, less the number of quotes removed, what
`Marks` said of the whole. `WalkInv` adds what failure depends on. That NULL is
reached only through a value of blanks: a typed word is never all blank and has no
blank before its first quote (`Solid`, which the pieces of a split inherit), and
what `env_var` has read of a word is either more than blanks or blank values alone
(`Visible`). That strings are left only on odd values: as long as no value holds a
quote, and no blank meets nested quotes (`Tidy`), every word not yet
visited has its quotes closed (`Proper`); replacing a reference outside quotes keeps
that, and a split keeps it because without nested quotes the two ways in which the
code pairs quotes, `to_retokenize`'s and `alloc_quote`'s, agree (`PairedIsOpen`).

`MeantInv`, for `MeantLine`, is inductive together with `WalkInv`: on a line that
`Regular` does not except, what has come out so far, followed by what the word at
`*temp` and the tokens behind it mean now, is what the line as typed meant
(`Course`). Four facts about the reading of a word keep that. A reference replaced
where it stands, outside quotes or between double ones, leaves the reading as it
was, because nothing in its value is syntax (`ReplacedReads`). A word without free
references means what its pieces mean one after the other (`PiecesMean`): it is cut
exactly at the separators of the split. While `quote_handling` removes pairs, what
is left before `i` is what reading the word up to there has gathered (`Stripped`,
about the word as it was before its first pair went). A finished word means itself,
an empty one nothing (`StripEnd`). The rest of the invariant (`StageInv`) says that
each stage leaves what the next one needs: after `env_var` no free reference is
left, and a word with quotes that goes past `save_index` does not exist; after the
split no free blank; after `save_index` no reference between double quotes, and
the array holds exactly the places where a quote opens or closes (`Turns`).

What a recursive function computes is proved in these modules position by
position: that it exists from a general lemma on recursion (`RecursionExists`),
and every further fact by induction from the least element of a set (`Upward`).

TLC checked each inductive invariant as an invariant of the component's run before
it was proved.

Only model-checked:

* the liveness properties (`Terminates` of `Pipeline` and of `Expansion`,
  `ReturnsOrOverflows`, `LineEnds`): TLAPS has no fairness reasoning here.

## 5. What is not modelled

Where the name of a reference ends in a word (in a here-document it is, in
`Document`); what `echo`, `env`, `pwd` and `export` print; SIGQUIT; allocation
failures and the gc list; the terminal and readline beyond the lines they
deliver.
Dead code (`execute_command`, `here_doc`, `process_heredocs`, `init_env_var`,
`update_shell_lvl`, `redirections_present`, `signal_handler_input`) is left out.
`libft` has no protocol to model.

## 6. Where it stands

All modules of section 2 and all proofs of section 4 are done: every safety and
action property of the runs is a theorem, and only liveness rests on TLC's bounds.
