--------------------------- MODULE ParseContract ---------------------------
(***************************************************************************)
(* What a pass over the arguments promises to whoever reads its result: an *)
(* abstract parser of which only the result can be seen.  While the pass   *)
(* is open the result only grows -- no error, ignored argument, command or *)
(* exit request is ever taken back -- and it satisfies Contract at every   *)
(* moment; once the pass is finished the result is final.                  *)
(***************************************************************************)
EXTENDS Integers, Sequences

CONSTANTS Empty,        \* the result of a pass that has read nothing
          Contract(_)   \* what holds of every result

VARIABLES result, finished

IsPrefixOf(s, t) ==
  Len(s) <= Len(t) /\ \A i \in 1..Len(s) : s[i] = t[i]

(* r2 says everything r1 says.                                             *)
Extends(r1, r2) ==
  /\ r1.errors \subseteq r2.errors
  /\ IsPrefixOf(r1.ignoredArguments, r2.ignoredArguments)
  /\ IsPrefixOf(r1.commands, r2.commands)
  /\ r1.exitRequested => r2.exitRequested
  /\ r1.helpWasShown => r2.helpWasShown
  /\ r1.errorsWereShown => r2.errorsWereShown

Init == result = Empty /\ finished = FALSE

Grow ==
  /\ ~finished
  /\ Extends(result, result')
  /\ Contract(result')
  /\ finished' \in BOOLEAN

Next == Grow

Spec == Init /\ [][Next]_<<result, finished>>

=============================================================================
