------------------------ MODULE ConversionProperties ------------------------
(***************************************************************************)
(* What a client of from_string relies on.                                 *)
(***************************************************************************)
EXTENDS NumberConversion

Converted == last.kind = "conversion"

(* An integer in the notation the parser itself takes for a number.        *)
isIntegerText(text) ==
  isNumberLike(text) /\ text.body.rest[baseOf(text)] = "none"

denoted(text) == signOf(text) * text.body.value[baseOf(text)]

highestOf(target) == IF target.kind = "bool" THEN IntType.highest ELSE target.type.highest
lowestOf(target)  == IF target.kind = "bool" THEN IntType.lowest ELSE target.type.lowest

(* A number that is returned is the one that was written: whatever the     *)
(* width and the sign of the type, and whatever errno was, an integer is   *)
(* never wrapped, cut or replaced by the limit at which strtoll and        *)
(* strtoull stop (convert.h:36-54).                                        *)
NumberIsTheOneWritten ==
  Converted /\ last.outcome.kind = "value" /\ last.target.kind # "float"
      /\ isIntegerText(last.text)
    => last.outcome.value =
         IF last.target.kind = "bool" THEN (IF denoted(last.text) = 0 THEN 0 ELSE 1)
                                      ELSE denoted(last.text)

(* A number that the type can hold is accepted, the limits included,       *)
(* unless other code left an error in errno (convert.h:36-54).  Two texts  *)
(* are refused: LLONG_MIN, because its magnitude is read before the sign   *)
(* is applied, and a negative zero for an unsigned type.                   *)
NumberInRangeIsAccepted ==
  Converted /\ ~last.fouled /\ last.target.kind # "float" /\ isIntegerText(last.text)
      /\ denoted(last.text) \in lowestOf(last.target)..highestOf(last.target)
      /\ denoted(last.text) # LLongMin
      /\ (last.target.kind = "int" /\ ~last.target.type.signed => signOf(last.text) = 1)
    => last.outcome.kind = "value"

(* Conversions do not influence each other: what one returns or throws is  *)
(* a matter of its text and its type, however the ones before it ended,    *)
(* as long as only conversions wrote errno (convert.h:30-36).              *)
ConversionsAreIndependent ==
  Converted /\ ~last.fouled
    => last.outcome \in Outcomes(last.text, last.target, "0")

=============================================================================
