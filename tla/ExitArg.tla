------------------------------ MODULE ExitArg -------------------------------
(***************************************************************************)
(* The builtin exit (builtins/exit.c, builtins/exit_utils.c): how ft_exit  *)
(* turns its words into the exit code of the process.  The number is       *)
(* accumulated digit by digit in a long long, as a negative number after   *)
(* '-', and every digit is preceded by a test for overflow.                *)
(*                                                                         *)
(* The word is not stored: its digits are chosen as they are read, and     *)
(* `value' follows the exact magnitude of the digits read so far.          *)
(***************************************************************************)
EXTENDS Integers

CONSTANTS
  LLongMax,  \* LLONG_MAX; LLONG_MIN is -LLongMax - 1
  MaxDigits  \* bound: digits of the word

ASSUME ExitArgAssumption == LLongMax \in Nat /\ LLongMax > 9 /\ MaxDigits \in Nat

LLongMin == -LLongMax - 1
Digits == 0..9
Kinds  == {"none", "word", "number", "numbers"}

VARIABLES
  phase,   \* "checks", "digits", "exited"
  kind,    \* the words after exit: none, one or more with the first not
           \* numeric, one number, several with the first numeric
  sign,    \* 1 or -1
  num,     \* accumulate_number's num
  value,   \* exact magnitude of the digits read (not in the code)
  len,     \* how many digits were read
  code     \* the exit code

exitVars == <<phase, kind, sign, num, value, len, code>>

ExitInit ==
  /\ phase = "checks" /\ kind \in Kinds /\ sign \in {1, -1}
  /\ num = 0 /\ value = 0 /\ len = 0 /\ code = 0

ExitWith(c) == phase' = "exited" /\ code' = c

(* exit(0) without a word, exit_num_error for a word that is not numeric   *)
(* (whatever follows it), exit(1) for a number and more words.             *)
NoNumber ==
  /\ phase = "checks" /\ kind # "number"
  /\ ExitWith(CASE kind = "none" -> 0 [] kind = "word" -> 2 [] kind = "numbers" -> 1)
  /\ UNCHANGED <<kind, sign, num, value, len>>

(* is_numeric_arg holds, skip_whitespace_and_sign has read the sign. *)
StartNumber ==
  /\ phase = "checks" /\ kind = "number"
  /\ phase' = "digits"
  /\ UNCHANGED <<kind, sign, num, value, len, code>>

(* C's division truncates towards zero: LLONG_MIN / 10 and LLONG_MIN % 10  *)
(* are the negated quotient and remainder of LLongMax + 1.                 *)
MaxDivider == LLongMax \div 10
MinDivider == -((LLongMax + 1) \div 10)

(* Mutants of OverflowCheck: the last digit is not looked at; the bound of *)
(* the positive numbers is used for the negative ones.                     *)
OverflowCheckDivider(n, d) ==
  IF sign = 1 THEN n > MaxDivider ELSE n < MinDivider
OverflowCheckSymmetric(n, d) ==
  \/ sign = 1 /\ (n > MaxDivider \/ (n = MaxDivider /\ d > LLongMax % 10))
  \/ sign = -1 /\ (-n > MaxDivider \/ (-n = MaxDivider /\ d > LLongMax % 10))

(* overflow_check *)
OverflowCheck(n, d) ==
  IF sign = 1
    THEN n > MaxDivider \/ (n = MaxDivider /\ d > LLongMax % 10)
    ELSE n < MinDivider \/ (n = MinDivider /\ d > (LLongMax + 1) % 10)

(* One round of accumulate_number: the digit is added, or exit_num_error. *)
Accumulate ==
  /\ phase = "digits" /\ len < MaxDigits
  /\ \E d \in Digits :
       /\ value' = value * 10 + d
       /\ IF OverflowCheck(num, d)
            THEN ExitWith(2) /\ UNCHANGED num
            ELSE /\ num' = num * 10 + sign * d
                 /\ UNCHANGED <<phase, code>>
  /\ len' = len + 1
  /\ UNCHANGED <<kind, sign>>

(* exit((unsigned char)exit_code) *)
ToCode(n) == n % 256

EndOfNumber ==
  /\ phase = "digits" /\ len > 0
  /\ ExitWith(ToCode(num))
  /\ UNCHANGED <<kind, sign, num, value, len>>

Exited == phase = "exited" /\ UNCHANGED exitVars

ExitNext == NoNumber \/ StartNumber \/ Accumulate \/ EndOfNumber \/ Exited

ExitSpec == ExitInit /\ [][ExitNext]_exitVars

-----------------------------------------------------------------------------
(* Properties *)

InRange(n) == LLongMin <= n /\ n <= LLongMax

ExitTypeOK ==
  /\ phase \in {"checks", "digits", "exited"} /\ kind \in Kinds
  /\ sign \in {1, -1} /\ num \in Int /\ value \in Nat
  /\ len \in 0..MaxDigits /\ code \in Nat /\ code < 256

(* No step of accumulate_number leaves the range of long long, in either   *)
(* direction: the signed arithmetic of the code never overflows.           *)
NoSignedOverflow == InRange(num)

(* The test is exact: a word is refused with code 2 exactly when its       *)
(* number does not fit in a long long, LLONG_MIN and LLONG_MAX themselves  *)
(* are accepted, and an accepted number gives its low eight bits.          *)
ExactCode ==
  phase = "exited" /\ kind = "number" =>
    code = IF InRange(sign * value) THEN (sign * value) % 256 ELSE 2
=============================================================================
