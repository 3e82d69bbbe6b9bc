----------------------- MODULE NumberConversionProofs -----------------------
(***************************************************************************)
(* The properties of the conversions hold for integer types of every width *)
(* and for every text: the limits enter only through LimitsAssumption.     *)
(***************************************************************************)
EXTENDS ConversionProperties, TLAPS

(* The value of an integral conversion of a text, sign and type fixed.     *)
TheNumber(text, target) ==
  IF target.kind = "bool" THEN (IF denoted(text) = 0 THEN 0 ELSE 1) ELSE denoted(text)

LEMMA TextFacts ==
  ASSUME NEW text \in Texts
  PROVE  /\ signOf(text) \in {-1, 1}
         /\ baseOf(text) \in Bases
         /\ text.body \in BodyType
         /\ text.body.value[baseOf(text)] \in Nat
         /\ text.body.digits[baseOf(text)] \in BOOLEAN
  <1>1. baseOf(text) \in Bases BY DEF baseOf, Bases
  <1>2. text.body \in BodyType BY LimitsAssumption DEF Texts
  <1>3. signOf(text) \in {-1, 1} BY DEF signOf
  <1>4. text.body.value \in [Bases -> Nat] /\ text.body.digits \in [Bases -> BOOLEAN]
    BY <1>2 DEF BodyType
  <1> QED BY <1>1, <1>2, <1>3, <1>4

(* Where a digit is read without an error, strtoll and strtoull return the *)
(* number that is written.                                                 *)
LEMMA ScannedNumber ==
  ASSUME NEW text \in Texts, NEW t \in IntTypes \cup {IntType},
         isIntegerText(text)
  PROVE  LET v == text.body.value[baseOf(text)]
         IN  /\ scanned(text, t).read = TRUE
             /\ ~scanned(text, t).err => scanned(text, t).res = v
             /\ t.signed  => (scanned(text, t).err <=> v > LLongMax)
             /\ ~t.signed => (scanned(text, t).err <=> v > ULLongMax)
  <1> DEFINE base == baseOf(text)
             b    == text.body
             v    == b.value[base]
  <1>1. /\ base \in Bases /\ b \in BodyType /\ v \in Nat
        /\ b.digits[base] \in BOOLEAN
    BY TextFacts
  <1>2. /\ b.inner = "none"
        /\ b.rest[base] = "none"
        /\ b.digits[base]
    BY <1>1 DEF isIntegerText, isNumberLike
  <1>3. b.digits[base] = TRUE BY <1>1, <1>2
  <1>4. LLongMax \in Nat /\ ULLongMax \in Nat /\ LLongMin = -LLongMax - 1
        /\ t.signed \in BOOLEAN
    BY LimitsAssumption DEF LLongMin
  <1>5. CASE t.signed
    <2>1. scanned(text, t) = strtoll(b, base) BY <1>5 DEF scanned
    <2>2. strtoll(b, base) =
            [ res  |-> IF v > LLongMax THEN LLongMax ELSE IF v < LLongMin THEN LLongMin ELSE v,
              err  |-> v \notin LLongMin..LLongMax,
              read |-> TRUE ]
      BY <1>2, <1>3 DEF strtoll
    <2>3. /\ scanned(text, t).read = TRUE
          /\ scanned(text, t).err = (v \notin LLongMin..LLongMax)
          /\ scanned(text, t).res =
               IF v > LLongMax THEN LLongMax ELSE IF v < LLongMin THEN LLongMin ELSE v
      BY <2>1, <2>2
    <2>4. (v \notin LLongMin..LLongMax) <=> v > LLongMax BY <1>1, <1>4
    <2>5. v <= LLongMax => scanned(text, t).res = v BY <2>3, <1>1, <1>4
    <2>6. scanned(text, t).err <=> v > LLongMax BY <2>3, <2>4
    <2>7. v > LLongMax \/ v <= LLongMax BY <1>1, <1>4
    <2> QED BY <1>5, <2>3, <2>5, <2>6, <2>7
  <1>6. CASE ~t.signed
    <2>1. scanned(text, t) = strtoull(b, base) BY <1>6 DEF scanned
    <2>2. strtoull(b, base) =
            [ res  |-> IF v > ULLongMax THEN ULLongMax ELSE v,
              err  |-> v > ULLongMax,
              read |-> TRUE ]
      BY <1>2, <1>3 DEF strtoull
    <2>3. /\ scanned(text, t).read = TRUE
          /\ scanned(text, t).err = (v > ULLongMax)
          /\ scanned(text, t).res = IF v > ULLongMax THEN ULLongMax ELSE v
      BY <2>1, <2>2
    <2>4. v <= ULLongMax => scanned(text, t).res = v BY <2>3, <1>1, <1>4
    <2>5. scanned(text, t).err <=> v > ULLongMax BY <2>3
    <2>6. v > ULLongMax \/ v <= ULLongMax BY <1>1, <1>4
    <2> QED BY <1>6, <2>3, <2>4, <2>5, <2>6
  <1> QED BY <1>4, <1>5, <1>6

(* parse_int returns the number or throws; nothing else.                   *)
LEMMA ParsedNumber ==
  ASSUME NEW text \in Texts, NEW t \in IntTypes \cup {IntType}, NEW e \in Errors,
         isIntegerText(text), NEW o \in parseInt(text, t, e), o.kind = "value"
  PROVE  o.value = denoted(text)
  <1> DEFINE base == baseOf(text)
             v    == text.body.value[base]
             sign == signOf(text)
             c    == scanned(text, t)
  <1>1. v \in Nat /\ sign \in {-1, 1} BY TextFacts
  <1>2. /\ LLongMax \in Nat /\ ULLongMax \in Nat /\ LLongMin = -LLongMax - 1
        /\ t.signed \in BOOLEAN /\ t.lowest \in Int /\ t.highest \in Nat
    BY LimitsAssumption DEF LLongMin
  <1>3. /\ c.read = TRUE
        /\ ~c.err => c.res = v
        /\ t.signed => (c.err <=> v > LLongMax)
    BY ScannedNumber
  <1>4. ~(~t.signed /\ sign < 0) /\ reported(c, e) = "nothing"
    BY DEF parseInt, Thrown
  <1>5. ~c.err BY <1>4 DEF reported
  <1>6. PICK r \in (IF t.signed THEN products(sign, c.res) ELSE {c.res}) :
          o = limitResult(r, t)
    BY <1>4 DEF parseInt
  <1>7. c.res = v BY <1>3, <1>5
  <1>8. r = sign * v
    <2>1. CASE t.signed
      <3>1. c.res # LLongMin BY <1>1, <1>2, <1>7
      <3> QED BY <1>6, <1>7, <2>1, <3>1 DEF products
    <2>2. CASE ~t.signed
      <3>1. sign = 1 BY <1>1, <1>4, <2>2
      <3>2. sign * v = v BY <3>1, <1>1
      <3> QED BY <1>6, <1>7, <2>2, <3>2
    <2> QED BY <1>2, <2>1, <2>2
  <1>9. o = Returned(r) BY <1>6 DEF limitResult, Thrown
  <1> QED BY <1>8, <1>9 DEF Returned, denoted

(* With a clean errno parse_int accepts what the type can hold.            *)
LEMMA NumberAccepted ==
  ASSUME NEW text \in Texts, NEW t \in IntTypes \cup {IntType},
         isIntegerText(text), NEW o \in parseInt(text, t, "0"),
         denoted(text) \in t.lowest..t.highest,
         denoted(text) # LLongMin,
         ~t.signed => signOf(text) = 1
  PROVE  o.kind = "value"
  <1> DEFINE base == baseOf(text)
             v    == text.body.value[base]
             sign == signOf(text)
             c    == scanned(text, t)
  <1>1. v \in Nat /\ sign \in {-1, 1} BY TextFacts
  <1>2. /\ LLongMax \in Nat /\ ULLongMax \in Nat /\ LLongMin = -LLongMax - 1
        /\ t.signed \in BOOLEAN /\ t.lowest \in Int /\ t.highest \in Nat
        /\ t.signed => t.lowest = -t.highest - 1 /\ t.highest <= LLongMax
        /\ ~t.signed => t.highest <= ULLongMax
    BY LimitsAssumption DEF LLongMin
  <1>3. /\ c.read = TRUE
        /\ ~c.err => c.res = v
        /\ t.signed => (c.err <=> v > LLongMax)
        /\ ~t.signed => (c.err <=> v > ULLongMax)
    BY ScannedNumber
  <1>4. /\ sign * v \in t.lowest..t.highest
        /\ sign * v # LLongMin
        /\ sign = 1 => sign * v = v
        /\ sign = -1 => sign * v = -v
    BY <1>1 DEF denoted
  <1>5. ~c.err
    <2>1. CASE t.signed
      <3>1. v <= LLongMax BY <1>1, <1>2, <1>4, <2>1
      <3> QED BY <1>1, <1>2, <1>3, <2>1, <3>1
    <2>2. CASE ~t.signed
      <3>1. v <= ULLongMax BY <1>1, <1>2, <1>4, <2>2
      <3> QED BY <1>1, <1>2, <1>3, <2>2, <3>1
    <2> QED BY <1>2, <2>1, <2>2
  <1>6. reported(c, "0") = "nothing" BY <1>3, <1>5 DEF reported
  <1>7. ~(~t.signed /\ sign < 0) BY <1>2
  <1>8. PICK r \in (IF t.signed THEN products(sign, c.res) ELSE {c.res}) :
          o = limitResult(r, t)
    BY <1>6, <1>7 DEF parseInt
  <1>9. r = sign * v
    <2>1. c.res = v BY <1>3, <1>5
    <2>2. c.res # LLongMin BY <1>1, <1>2, <2>1
    <2>3. CASE t.signed BY <1>8, <2>1, <2>2, <2>3 DEF products
    <2>4. CASE ~t.signed BY <1>4, <1>8, <2>1, <2>4
    <2> QED BY <1>2, <2>3, <2>4
  <1>10. ~(r < t.lowest \/ r > t.highest)
    BY <1>2, <1>4, <1>9
  <1> QED BY <1>8, <1>10 DEF limitResult, Returned

-----------------------------------------------------------------------------
(* The outcome that is remembered is one that the text, the type and some  *)
(* errno allow; if no other code wrote errno, it was 0.  The second part   *)
(* is what ClearErrno establishes after every conversion.                  *)
LastOK ==
  Converted => /\ last.text \in Texts /\ last.target \in Targets
               /\ \E e \in Errors : /\ last.outcome \in Outcomes(last.text, last.target, e)
                                    /\ ~last.fouled => e = "0"

ErrnoOK == errno \in Errors /\ (~fouled => errno = "0")

IInv == LastOK /\ ErrnoOK

LEMMA Inductive == Spec => []IInv
  <1>1. Init => IInv
    BY DEF Init, IInv, LastOK, ErrnoOK, Converted, NoConversion, Errors
  <1>2. IInv /\ [Next]_vars => IInv'
    <2> SUFFICES ASSUME IInv, [Next]_vars PROVE IInv' OBVIOUS
    <2>1. CASE UNCHANGED vars
      BY <2>1 DEF IInv, LastOK, ErrnoOK, Converted, vars
    <2>2. ASSUME NEW text \in Texts, NEW target \in Targets, Convert(text, target)
          PROVE  IInv'
      <3>1. PICK o \in Outcomes(text, target, errno) :
              last' = [ kind |-> "conversion", text |-> text, target |-> target,
                        outcome |-> o, fouled |-> fouled ]
        BY <2>2 DEF Convert
      <3>2. LastOK'
        BY <3>1 DEF IInv, ErrnoOK, LastOK, Converted
      <3>3. ErrnoOK'
        BY <2>2 DEF Convert, errnoAfter, ErrnoOK, Errors
      <3> QED BY <3>2, <3>3 DEF IInv
    <2>3. ASSUME Take PROVE IInv'
      BY <2>3 DEF Take, IInv, LastOK, ErrnoOK, Converted, NoConversion
    <2>4. ASSUME NEW e \in Errors, WriteErrno(e) PROVE IInv'
      BY <2>4 DEF WriteErrno, IInv, LastOK, ErrnoOK, Converted
    <2> QED BY <2>1, <2>2, <2>3, <2>4 DEF Next
  <1> QED BY <1>1, <1>2, PTL DEF Spec

(* What a target makes of an integral conversion of int or of its type.    *)
LEMMA TargetKinds ==
  ASSUME NEW target \in Targets
  PROVE  \/ target.kind = "float"
         \/ target.kind = "bool" /\ target = Bool
         \/ target.kind = "int" /\ target.type \in IntTypes
  BY DEF Targets, Bool, Float, Integral

LEMMA WrittenNumber ==
  ASSUME NEW text \in Texts, NEW target \in Targets, NEW e \in Errors,
         target.kind # "float", isIntegerText(text),
         NEW o \in Outcomes(text, target, e), o.kind = "value"
  PROVE  o.value = TheNumber(text, target)
  <1>1. CASE target.kind = "int"
    <2>1. target.type \in IntTypes BY <1>1, TargetKinds
    <2>2. o \in parseInt(text, target.type, e) BY <1>1 DEF Outcomes
    <2>3. o.value = denoted(text) BY <2>1, <2>2, ParsedNumber
    <2> QED BY <1>1, <2>3 DEF TheNumber
  <1>2. CASE target.kind = "bool"
    <2>1. PICK p \in parseInt(text, IntType, e) : o = toBool(p) BY <1>2 DEF Outcomes
    <2>2. p.kind = "value" BY <2>1 DEF toBool
    <2>3. p.value = denoted(text) BY <2>1, <2>2, ParsedNumber
    <2> QED BY <1>2, <2>1, <2>2, <2>3 DEF toBool, Returned, TheNumber
  <1> QED BY <1>1, <1>2, TargetKinds

(* NumberIsTheOneWritten, for integer types of any width: neither a sign,  *)
(* nor a narrow type, nor a limit of strtoll makes another number of it.   *)
THEOREM NumbersAreTheOnesWritten == Spec => []NumberIsTheOneWritten
  <1>1. IInv => NumberIsTheOneWritten
    <2> SUFFICES ASSUME IInv, Converted, last.outcome.kind = "value",
                        last.target.kind # "float", isIntegerText(last.text)
                 PROVE  last.outcome.value = TheNumber(last.text, last.target)
      BY DEF NumberIsTheOneWritten, TheNumber
    <2>1. PICK e \in Errors : last.outcome \in Outcomes(last.text, last.target, e)
      BY DEF IInv, LastOK
    <2>2. last.text \in Texts /\ last.target \in Targets BY DEF IInv, LastOK
    <2> QED BY <2>1, <2>2, WrittenNumber
  <1> QED BY <1>1, Inductive, PTL

(* ConversionsAreIndependent: whatever was converted before.               *)
THEOREM ConversionsIndependent == Spec => []ConversionsAreIndependent
  <1>1. IInv => ConversionsAreIndependent
    BY DEF IInv, LastOK, ConversionsAreIndependent
  <1> QED BY <1>1, Inductive, PTL

(* NumberInRangeIsAccepted, for integer types of any width.                *)
THEOREM NumbersInRangeAccepted == Spec => []NumberInRangeIsAccepted
  <1>1. IInv => NumberInRangeIsAccepted
    <2> DEFINE text   == last.text
               target == last.target
    <2> SUFFICES ASSUME IInv, Converted, ~last.fouled, target.kind # "float",
                        isIntegerText(text),
                        denoted(text) \in lowestOf(target)..highestOf(target),
                        denoted(text) # LLongMin,
                        target.kind = "int" /\ ~target.type.signed => signOf(text) = 1
                 PROVE  last.outcome.kind = "value"
      BY DEF NumberInRangeIsAccepted
    <2>1. /\ text \in Texts /\ target \in Targets
          /\ last.outcome \in Outcomes(text, target, "0")
      BY DEF IInv, LastOK
    <2>2. CASE target.kind = "int"
      <3>1. target.type \in IntTypes BY <2>1, <2>2, TargetKinds
      <3>2. last.outcome \in parseInt(text, target.type, "0") BY <2>1, <2>2 DEF Outcomes
      <3>3. denoted(text) \in target.type.lowest..target.type.highest
        BY <2>2 DEF lowestOf, highestOf
      <3>4. ~target.type.signed => signOf(text) = 1 BY <2>2
      <3> QED BY <2>1, <3>1, <3>2, <3>3, <3>4, NumberAccepted
    <2>3. CASE target.kind = "bool"
      <3>1. PICK p \in parseInt(text, IntType, "0") : last.outcome = toBool(p)
        BY <2>1, <2>3 DEF Outcomes
      <3>2. denoted(text) \in IntType.lowest..IntType.highest
        BY <2>3 DEF lowestOf, highestOf
      <3>3. IntType.signed BY LimitsAssumption
      <3>4. p.kind = "value" BY <2>1, <3>1, <3>2, <3>3, NumberAccepted
      <3> QED BY <3>1, <3>4 DEF toBool, Returned
    <2> QED BY <2>1, <2>2, <2>3, TargetKinds
  <1> QED BY <1>1, Inductive, PTL

=============================================================================
