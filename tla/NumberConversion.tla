-------------------------- MODULE NumberConversion --------------------------
(***************************************************************************)
(* How from_string turns the text of an argument into a number: parse_int, *)
(* parse_float and the C functions they call, which report range errors    *)
(* only through errno.  The conversions of a program follow one another,   *)
(* with other code, which also writes errno, in between.                   *)
(*                                                                         *)
(* A text is cut where the code cuts it: signs, prefix and body.  A body   *)
(* is what a strto function sees, reduced to what it reads in every base.  *)
(***************************************************************************)
EXTENDS Integers

CONSTANTS
  IntTypes,    \* the integral target types, as [signed, lowest, highest]
  IntType,     \* int, which also converts bool
  LLongMax,    \* numeric_limits<long long>::max()
  ULLongMax,   \* numeric_limits<unsigned long long>::max()
  Bodies,      \* what may follow the signs and the prefix
  MaxMinuses   \* bound: minus signs in front of a number

Bases       == {2, 8, 10, 16}
PrefixNames == {"none", "0b", "0d", "0o", "0x"}
LLongMin    == -LLongMax - 1

Bool        == [kind |-> "bool"]
Float       == [kind |-> "float"]
Integral(t) == [kind |-> "int", type |-> t]
Targets     == {Bool, Float} \cup { Integral(t) : t \in IntTypes }

(* inner: blanks or a sign in front of the digits; rest: what follows the  *)
(* digits; real: what strtod makes of the body, also with "0x" before it.  *)
BodyType == [ inner  : {"none", "blank", "minus"},
              digits : [Bases -> BOOLEAN],
              value  : [Bases -> Nat],
              rest   : [Bases -> {"none", "fraction", "exponent", "junk"}],
              real   : [{10, 16} -> {"none", "zero", "normal", "subnormal",
                                     "huge", "inf", "nan"}] ]

Texts == [minuses : 0..MaxMinuses, prefix : PrefixNames, body : Bodies]

ASSUME LimitsAssumption ==
  /\ LLongMax \in Nat /\ ULLongMax = 2 * LLongMax + 1
  /\ \A t \in IntTypes \cup {IntType} :
       /\ t \in [signed : BOOLEAN, lowest : Int, highest : Nat]
       /\ IF t.signed THEN t.lowest = -t.highest - 1 /\ t.highest <= LLongMax
                      ELSE t.lowest = 0 /\ t.highest <= ULLongMax
  /\ IntType.signed
  /\ Bodies \subseteq BodyType
  /\ MaxMinuses \in Nat

(* Without digits strtoll reads 0.                                         *)
ASSUME DigitsAssumption ==
  \A b \in Bodies, base \in Bases : ~b.digits[base] => b.value[base] = 0

VARIABLES
  errno,
  fouled,  \* history: other code wrote errno after the last conversion
  last     \* history: the last conversion

vars == <<errno, fouled, last>>

(* "0" stands for every value of errno that the code does not test.        *)
Errors == {"0", "ERANGE", "EINVAL"}

Returned(v)  == [kind |-> "value", value |-> v]
Thrown(e)    == [kind |-> "thrown", error |-> e]
NoConversion == [kind |-> "none"]

Init == errno = "0" /\ fouled = FALSE /\ last = NoConversion

-----------------------------------------------------------------------------
(* parse_int_prefix and isNumberLike                                       *)

signOf(text) == IF text.minuses % 2 = 1 THEN -1 ELSE 1

baseOf(text) == CASE text.prefix = "0b" -> 2
                  [] text.prefix = "0o" -> 8
                  [] text.prefix = "0x" -> 16
                  [] OTHER -> 10

(* The parser asks this of an argument without its dash.                   *)
isNumberLike(text) ==
  LET b    == text.body
      base == baseOf(text)
  IN  /\ b.inner = "none"
      /\ IF base \in {2, 8}
           THEN b.digits[base] /\ b.rest[base] = "none"
           ELSE \/ b.digits[base] /\ b.rest[base] \in {"none", "exponent"}
                \/ b.rest[base] = "fraction"

-----------------------------------------------------------------------------
(* strtoll, strtoull: [res, err, read]; at the limit they set ERANGE.      *)

strtoll(b, base) ==
  LET v == IF b.inner = "minus" THEN -b.value[base] ELSE b.value[base]
  IN  [ res  |-> IF v > LLongMax THEN LLongMax ELSE IF v < LLongMin THEN LLongMin ELSE v,
        err  |-> v \notin LLongMin..LLongMax,
        read |-> b.digits[base] ]

(* A minus is accepted: the number wraps around.                           *)
strtoull(b, base) ==
  LET v == b.value[base]
  IN  [ res  |-> IF v > ULLongMax THEN ULLongMax
                 ELSE IF b.inner = "minus" /\ v > 0 THEN ULLongMax + 1 - v ELSE v,
        err  |-> v > ULLongMax,
        read |-> b.digits[base] ]

(* sign * strtoll( ... ).  -LLONG_MIN overflows: any value may come.       *)
products(sign, res) ==
  IF sign = -1 /\ res = LLongMin THEN LLongMin..LLongMax ELSE {sign * res}

(* Mutant: the product is cast without a look at the limits of the type.   *)
castResult(res, t) ==
  LET width == t.highest - t.lowest + 1
  IN  Returned(t.lowest + ((res - t.lowest) % width))

(* Mutant: the largest value is taken for an overflow.                     *)
belowHighest(res, t) ==
  IF res < t.lowest \/ res >= t.highest THEN Thrown("out_of_range") ELSE Returned(res)

limitResult(res, t) ==
  IF res < t.lowest \/ res > t.highest THEN Thrown("out_of_range") ELSE Returned(res)

(* checkResult: errno first, the position where reading stopped only to    *)
(* see whether anything was read.                                          *)
reported(c, e) ==
  CASE c.err \/ e = "ERANGE" -> "out_of_range"
    [] ~(c.err \/ e = "ERANGE") /\ (e = "EINVAL" \/ ~c.read) -> "invalid_argument"
    [] OTHER -> "nothing"

scanned(text, t) ==
  IF t.signed THEN strtoll(text.body, baseOf(text)) ELSE strtoull(text.body, baseOf(text))

(* What parse_int<t> may do when errno is e.                               *)
parseInt(text, t, e) ==
  LET sign == signOf(text)
      c    == scanned(text, t)
  IN  IF ~t.signed /\ sign < 0 THEN { Thrown("out_of_range") }
      ELSE IF reported(c, e) # "nothing" THEN { Thrown(reported(c, e)) }
      ELSE { limitResult(r, t) :
               r \in IF t.signed THEN products(sign, c.res) ELSE {c.res} }

-----------------------------------------------------------------------------
(* parse_float: "0d" is skipped, "0x" is left to strtod; it knows no other *)
(* prefix and reads their 0.                                               *)

strtod(text) ==
  CASE text.prefix \in {"none", "0d"} -> text.body.real[10]
    [] text.prefix = "0x" -> text.body.real[16]
    [] text.prefix \in {"0b", "0o"} -> "zero"

parseFloat(text, e) ==
  LET r == strtod(text)
  IN  { IF e = "ERANGE" \/ r \in {"huge", "subnormal"} THEN Thrown("out_of_range")
        ELSE IF e = "EINVAL" \/ r = "none" THEN Thrown("invalid_argument")
        ELSE IF r = "inf" THEN Thrown("out_of_range")
        ELSE Returned(<<signOf(text), r>>) }

-----------------------------------------------------------------------------
(* from_string<T>::convert                                                 *)

toBool(o) == IF o.kind = "value" THEN Returned(IF o.value = 0 THEN 0 ELSE 1) ELSE o

Outcomes(text, target, e) ==
  CASE target.kind = "int"   -> parseInt(text, target.type, e)
    [] target.kind = "bool"  -> { toBool(o) : o \in parseInt(text, IntType, e) }
    [] target.kind = "float" -> parseFloat(text, e)

(* Mutant: without ClearErrno the error of one conversion stays.           *)
errnoKept(text, target) ==
  IF target.kind = "int" /\ scanned(text, target.type).err THEN "ERANGE" ELSE errno

(* ~ClearErrno, also while an exception passes.                            *)
errnoAfter(text, target) == "0"

Convert(text, target) ==
  /\ last = NoConversion
  /\ \E o \in Outcomes(text, target, errno) :
       last' = [ kind |-> "conversion", text |-> text, target |-> target,
                 outcome |-> o, fouled |-> fouled ]
  /\ errno' = errnoAfter(text, target)
  /\ fouled' = FALSE

(* The caller is done with the value or the exception.                     *)
Take ==
  /\ last # NoConversion
  /\ last' = NoConversion
  /\ UNCHANGED <<errno, fouled>>

(* The client, or an action it registered, calls something that fails.     *)
WriteErrno(e) ==
  /\ errno' = e
  /\ fouled' = TRUE
  /\ UNCHANGED last

Next ==
  \/ \E text \in Texts, target \in Targets : Convert(text, target)
  \/ Take
  \/ \E e \in Errors : WriteErrno(e)

Spec == Init /\ [][Next]_vars

=============================================================================
