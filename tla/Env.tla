-------------------------------- MODULE Env --------------------------------
(***************************************************************************)
(* The environment of the shell (env_var/, glb_list()->env) and the        *)
(* builtins that change it: export, unset and cd.  The environment is a    *)
(* linked list in the order of envp; a new name is inserted before the     *)
(* first greater one, and each lookup stops at the first match.            *)
(*                                                                         *)
(* Names are numbers in the order of strcmp.  Other processes may remove   *)
(* and make directories, also the one the shell is in.                     *)
(***************************************************************************)
EXTENDS Integers, Sequences, FiniteSets, FiniteSetsExt, SequencesExt

CONSTANTS
  Names,              \* the names, numbered in the order of strcmp
  HOME, OLDPWD, PWD,  \* three of them
  Twice,              \* bound: names that the envp of the shell may hold twice
  Dirs, Root,         \* directories; Root is never removed
  Empty,              \* the value ""
  NoValue,            \* a NULL value: exported without a value
  Absent              \* no such name

ASSUME EnvAssumption ==
  /\ Names \subseteq Int /\ IsFiniteSet(Names)
  /\ {HOME, OLDPWD, PWD} \subseteq Names /\ HOME < OLDPWD /\ OLDPWD < PWD
  /\ Twice \subseteq Names
  /\ Root \in Dirs
  /\ Empty # NoValue /\ Absent \notin {Empty, NoValue}
  /\ {Empty, NoValue, Absent} \cap Dirs = {}

VARIABLES
  env,     \* the list: [name, value]
  cwd,     \* the working directory
  exists,  \* the directories that exist
  prev,    \* where the last cd left from (not in the code)
  pwdOk, oldOk  \* since the last complete cd neither the user nor a failure
                \* has touched PWD, what OLDPWD was copied from (not in the code)

ghostVars == <<prev, pwdOk, oldOk>>
vars == <<env, cwd, exists, prev, pwdOk, oldOk>>

-----------------------------------------------------------------------------
(* The list. *)

HasName(e, n) == \E k \in DOMAIN e : e[k].name = n
First(e, n)   == Min({k \in DOMAIN e : e[k].name = n})

(* get_env_value: the value, NULL without one or without the name. *)
Get(e, n) == IF HasName(e, n) THEN e[First(e, n)].value ELSE Absent
IsNull(v) == v \in {NoValue, Absent}

(* update_env_var, given that the name is in the list. *)
Update(e, n, v) == IF v = NoValue THEN e ELSE [e EXCEPT ![First(e, n)].value = v]

(* Where insert_env_node puts a new name. *)
InsertPosition(e, n) == Min({k \in DOMAIN e : n < e[k].name} \cup {Len(e) + 1})

(* Mutant of Put: the name is not looked for first. *)
PutInsertOnly(e, n, v) == InsertAt(e, InsertPosition(e, n), [name |-> n, value |-> v])

(* update_env_var, else insert_env_node. *)
Put(e, n, v) ==
  IF HasName(e, n) THEN Update(e, n, v)
  ELSE InsertAt(e, InsertPosition(e, n), [name |-> n, value |-> v])

(* delete_env_var *)
Delete(e, n) == IF HasName(e, n) THEN RemoveAt(e, First(e, n)) ELSE e

(* envlist_to_array: what execve gets, "name" for a NULL value.            *)
EnvlistToArray(e) ==
  [k \in DOMAIN e |-> [name |-> e[k].name, equals |-> e[k].value # NoValue,
                       text |-> IF e[k].value = NoValue THEN Empty ELSE e[k].value]]

(* save_env: a node per entry in the order of envp, also for a name that   *)
(* it has already; an entry without = gets the value "".                   *)
SaveEnv(envp) == [k \in DOMAIN envp |-> [name |-> envp[k].name, value |-> envp[k].text]]

(* The names in the envp of the shell: in any order, some missing, at most *)
(* one of them, of Twice, there a second time.                             *)
EnvpNames ==
  LET once == UNION {SetToSeqs(S) : S \in SUBSET Names}
  IN once \cup UNION {{InsertAt(s, k, n) : k \in DOMAIN s, n \in Twice \cap ToSet(s)} : s \in once}

Init ==
  /\ cwd \in Dirs /\ exists = Dirs
  /\ \E s \in EnvpNames :
       env = SaveEnv([k \in DOMAIN s |-> [name |-> s[k], equals |-> TRUE,
                                         text |-> IF s[k] = PWD THEN cwd ELSE Root]])
  /\ prev = cwd /\ pwdOk = (HasName(env, PWD)) /\ oldOk = FALSE

-----------------------------------------------------------------------------
(* export and unset, one word each. *)

(* update_or_add_export *)
Export(n, v) ==
  /\ env' = Put(env, n, v)
  /\ pwdOk' = (pwdOk /\ n # PWD) /\ oldOk' = (oldOk /\ n # OLDPWD)
  /\ UNCHANGED <<cwd, exists, prev>>

(* builtin_unset *)
Unset(n) ==
  /\ env' = Delete(env, n)
  /\ pwdOk' = (pwdOk /\ n # PWD) /\ oldOk' = (oldOk /\ n # OLDPWD)
  /\ UNCHANGED <<cwd, exists, prev>>

-----------------------------------------------------------------------------
(* cd *)

(* The value update_oldpwd stores. *)
OldPwdValue == IF IsNull(Get(env, PWD)) THEN Empty ELSE Get(env, PWD)

(* Mutant of Moved: update_pwd before update_oldpwd, which then reads the  *)
(* new value.                                                              *)
MovedPwdFirst(d) ==
  /\ cwd' = d /\ prev' = cwd
  /\ env' = Put(Put(env, PWD, d), OLDPWD, d)
  /\ pwdOk' = TRUE /\ oldOk' = pwdOk
  /\ UNCHANGED exists

(* change_directory_and_update after a chdir to d that succeeded: OLDPWD,  *)
(* then PWD from getcwd.                                                   *)
Moved(d) ==
  /\ cwd' = d /\ prev' = cwd
  /\ env' = Put(Put(env, OLDPWD, OldPwdValue), PWD, d)
  /\ pwdOk' = TRUE /\ oldOk' = pwdOk
  /\ UNCHANGED exists

(* getcwd fails because the directory is gone: cd returns 1, but the shell *)
(* has moved, OLDPWD is new and PWD is not.                                *)
MovedPwdStale(d) ==
  /\ cwd' = d /\ prev' = cwd
  /\ env' = Put(env, OLDPWD, OldPwdValue)
  /\ pwdOk' = FALSE /\ oldOk' = pwdOk
  /\ exists' = exists \ {d}

(* Another process may remove the directory between chdir and getcwd. *)
ChangeDirectory(path) ==
  /\ path \in exists
  /\ Moved(path) \/ (path # Root /\ MovedPwdStale(path))

(* cd dir; a chdir that fails changes nothing. *)
CdWithArg == \E path \in Dirs : ChangeDirectory(path)

(* cd . enters the working directory even when it has been removed. *)
CdDot == IF cwd \in exists THEN Moved(cwd) ELSE MovedPwdStale(cwd)

(* cd - *)
CdDash == ~IsNull(Get(env, OLDPWD)) /\ ChangeDirectory(Get(env, OLDPWD))

(* cd alone: HOME, or / without it. *)
CdHome == ChangeDirectory(IF IsNull(Get(env, HOME)) THEN Root ELSE Get(env, HOME))

-----------------------------------------------------------------------------
(* The shell started in itself: its environment goes through execve.  What *)
(* follows is the inner shell.                                             *)
NestedShell ==
  /\ env' = SaveEnv(EnvlistToArray(env))
  /\ UNCHANGED <<cwd, exists, ghostVars>>

-----------------------------------------------------------------------------
(* Other processes. *)

RemoveDir(d) ==
  /\ d # Root /\ exists' = exists \ {d}
  /\ UNCHANGED <<env, cwd, ghostVars>>

(* The shell stays in the removed directory, a new one is another. *)
MakeDir(d) ==
  /\ d # cwd /\ exists' = exists \cup {d}
  /\ UNCHANGED <<env, cwd, ghostVars>>

Next ==
  \/ \E n \in Names, v \in Dirs \cup {NoValue} : Export(n, v)
  \/ \E n \in Names : Unset(n)
  \/ CdWithArg \/ CdDot \/ CdDash \/ CdHome
  \/ NestedShell
  \/ \E d \in Dirs : RemoveDir(d) \/ MakeDir(d)

Spec == Init /\ [][Next]_vars

-----------------------------------------------------------------------------
(* Properties *)

TypeOK ==
  /\ env \in Seq([name : Names, value : Dirs \cup {Empty, NoValue}])
  /\ cwd \in Dirs /\ exists \subseteq Dirs /\ Root \in exists
  /\ prev \in Dirs /\ pwdOk \in BOOLEAN /\ oldOk \in BOOLEAN

(* The list behaves like one value per name, with the value that a second  *)
(* entry of envp gave it underneath: no command changes the value of a     *)
(* name it was not given, none but the start gives a name a second node,   *)
(* and a shell started in this one finds the same values.                  *)
ValuesFrom(e, n) ==
  LET from[k \in 1..Len(e) + 1] ==
        IF k = Len(e) + 1 THEN <<>>
        ELSE IF e[k].name = n THEN <<e[k].value>> \o from[k + 1] ELSE from[k + 1]
  IN from
Values(n) == ValuesFrom(env, n)[1]
Abs == INSTANCE EnvAbs WITH value <- [n \in Names |-> Values(n)]
ImplementsAbs == Abs!Spec

(* cd keeps PWD on the working directory, and cd - leads back to where the *)
(* last cd came from, until the user assigns the variables or getcwd       *)
(* fails; each cd whose PWD was right makes both right again.              *)
PwdAndOldPwd ==
  /\ pwdOk => Get(env, PWD) = cwd
  /\ oldOk => Get(env, OLDPWD) = prev
=============================================================================
