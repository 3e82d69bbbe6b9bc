------------------------- MODULE ForwardedArguments -------------------------
(***************************************************************************)
(* Parser::parseForwardedArguments: the text after the first comma of      *)
(* --option,a,b is cut into the values of the option.  A doubled comma     *)
(* stands for a comma in a value, and a comma at the very start needs no   *)
(* doubling.  Module Parser stores the pieces that are found here.         *)
(***************************************************************************)
EXTENDS Integers, SequencesExt

CONSTANTS
  Letters,        \* the characters other than the comma
  MaxLength,      \* bound: the length of the text
  MaxValues,      \* bound: the values of a list
  MaxValueLength  \* bound: the length of a value of a list

Comma == ","

ASSUME TextAssumption ==
  /\ Comma \notin Letters
  /\ MaxLength \in Nat /\ MaxValues \in Nat /\ MaxValueLength \in Nat

Texts(n) == UNION { [1..m -> Letters \cup {Comma}] : m \in 1..n }

(* How a list of values is written: the commas of a value are doubled,     *)
(* except one at the start of the whole list.                              *)
escaped(text) ==
  FlattenSeq([i \in 1..Len(text) |->
                IF text[i] = Comma THEN <<Comma, Comma>> ELSE <<text[i]>>])

written(values) ==
  LET joined == Tail(FlattenSeq([i \in 1..Len(values) |->
                                   <<Comma>> \o escaped(values[i])]))
  IN  IF values[1][1] = Comma THEN Tail(joined) ELSE joined

(* The lists that can be written: a value after the first that starts with *)
(* a comma could not be told from a comma at the end of the value before.  *)
Writable(values) ==
  \A i \in 2..Len(values) : values[i][1] # Comma

Lists == UNION { [1..n -> Texts(MaxValueLength)] : n \in 1..MaxValues }

WritableLists ==
  { values \in Lists : Writable(values) /\ Len(written(values)) <= MaxLength }

VARIABLES
  args,   \* the text to be cut
  it,     \* the position of the loop
  ssarg,  \* the value under construction
  added,  \* the values offered to the option so far
  list    \* history: the values that were written, <<>> if args is any text

vars == <<args, it, ssarg, added, list>>

Init ==
  /\ \/ args \in Texts(MaxLength) /\ list = <<>>
     \/ list \in WritableLists /\ args = written(list)
  /\ it = IF args[1] = Comma THEN 2 ELSE 1
  /\ ssarg = IF args[1] = Comma THEN <<Comma>> ELSE <<>>
  /\ added = <<>>

(* Mutant: empty values are added.                                         *)
addAnyArg(text) == Append(added, text)

(* addArg skips empty values.                                              *)
addArg(text) == IF text = <<>> THEN added ELSE Append(added, text)

More == it <= Len(args)

(* Mutant: whatever follows a comma is taken for a second comma.           *)
IsAnyPair == it < Len(args) /\ args[it] = Comma

IsDoubled == it < Len(args) /\ args[it] = Comma /\ args[it + 1] = Comma

Letter ==
  /\ More
  /\ args[it] # Comma
  /\ ssarg' = Append(ssarg, args[it])
  /\ it' = it + 1
  /\ UNCHANGED <<args, added, list>>

DoubledComma ==
  /\ More
  /\ IsDoubled
  /\ ssarg' = Append(ssarg, Comma)
  /\ it' = it + 2
  /\ UNCHANGED <<args, added, list>>

SingleComma ==
  /\ More
  /\ args[it] = Comma
  /\ ~IsDoubled
  /\ added' = addArg(ssarg)
  /\ ssarg' = <<>>
  /\ it' = it + 1
  /\ UNCHANGED <<args, list>>

(* The last value; the position moves on to tell that it was added.        *)
Finish ==
  /\ it = Len(args) + 1
  /\ added' = addArg(ssarg)
  /\ it' = it + 1
  /\ UNCHANGED <<args, ssarg, list>>

Next == Letter \/ DoubledComma \/ SingleComma \/ Finish

Spec == Init /\ [][Next]_vars

-----------------------------------------------------------------------------
(* What the caller relies on.                                              *)

Done == it = Len(args) + 2

(* Any list of values that can be written at all arrives as it was         *)
(* written, commas inside, at the start and at the end of a value          *)
(* included.                                                               *)
ListsArrive ==
  (Done /\ list # <<>>) => added = list

(* The characters that are not commas.                                     *)
letters(text) ==
  FlattenSeq([i \in 1..Len(text) |-> IF text[i] = Comma THEN <<>> ELSE <<text[i]>>])

(* Whatever the text is, no letter is lost, doubled or moved, the option   *)
(* is offered at least one value, and none of the values is empty.         *)
LettersArrive ==
  Done => /\ letters(FlattenSeq(added)) = letters(args)
          /\ added # <<>>
          /\ \A i \in 1..Len(added) : added[i] # <<>>

=============================================================================
