------------------------ MODULE ParseResultBuilder ------------------------
(***************************************************************************)
(* The result of a parse and the ways it grows (class ParseResultBuilder). *)
(* The order and the number of equal errors is left out: errors is a set.  *)
(***************************************************************************)
EXTENDS Sequences

ErrorCodes == {"UNKNOWN_OPTION", "EXCLUSIVE_OPTION", "MISSING_OPTION",
               "MISSING_OPTION_GROUP", "MISSING_ARGUMENT", "CONVERSION_ERROR",
               "INVALID_CHOICE", "FLAG_PARAMETER", "EXIT_REQUESTED",
               "ACTION_ERROR", "INVALID_ARGV", "INCLUDE_TOO_DEEP"}

(* What an error names when it names nothing of the definition.            *)
NoSubject == "none"

emptyResult == [ errors |-> {}, ignoredArguments |-> <<>>, commands |-> <<>>,
                 exitRequested |-> FALSE, helpWasShown |-> FALSE,
                 errorsWereShown |-> FALSE, mustCheck |-> FALSE ]

addErrorTo(r, subject, code) ==
  [r EXCEPT !.errors = @ \cup {[subject |-> subject, code |-> code]},
            !.mustCheck = TRUE]

requestExitIn(r) ==
  addErrorTo([r EXCEPT !.exitRequested = TRUE], NoSubject, "EXIT_REQUESTED")

addIgnoredTo(r, text) == [r EXCEPT !.ignoredArguments = Append(@, text)]

addCommandTo(r, c) == [r EXCEPT !.commands = Append(@, c)]

signalErrorsShownIn(r) == [r EXCEPT !.errorsWereShown = TRUE]

(* Mutants: the obligation to check is not merged; the errors replace      *)
(* those of the outer parser; the ignored arguments are forgotten.         *)
addResultUnchecked(r, sub) ==
  [r EXCEPT !.exitRequested    = @ \/ sub.exitRequested,
            !.helpWasShown     = @ \/ sub.helpWasShown,
            !.errorsWereShown  = @ \/ sub.errorsWereShown,
            !.errors           = @ \cup sub.errors,
            !.ignoredArguments = @ \o sub.ignoredArguments]

addResultOverwriting(r, sub) == [sub EXCEPT !.commands = r.commands]

addResultWithoutIgnored(r, sub) ==
  [r EXCEPT !.exitRequested    = @ \/ sub.exitRequested,
            !.helpWasShown     = @ \/ sub.helpWasShown,
            !.errorsWereShown  = @ \/ sub.errorsWereShown,
            !.mustCheck        = @ \/ sub.mustCheck,
            !.errors           = @ \cup sub.errors]

(* addResult merges everything but the commands of the sub-result.         *)
addResultTo(r, sub) ==
  [r EXCEPT !.exitRequested    = @ \/ sub.exitRequested,
            !.helpWasShown     = @ \/ sub.helpWasShown,
            !.errorsWereShown  = @ \/ sub.errorsWereShown,
            !.mustCheck        = @ \/ sub.mustCheck,
            !.errors           = @ \cup sub.errors,
            !.ignoredArguments = @ \o sub.ignoredArguments]

(* Mutant: ignored arguments are no problem.                               *)
hasErrors(r) == r.errors # {}

hasArgumentProblems(r) == r.errors # {} \/ r.ignoredArguments # <<>>

(* What a ParseResultBuilder maintains.                                    *)
ResultContract(r) ==
  /\ r.mustCheck <=> (r.errors # {})
  /\ r.exitRequested <=> (\E e \in r.errors : e.code = "EXIT_REQUESTED")
  /\ r.helpWasShown => r.exitRequested

(* ParseResult::operator bool.                                             *)
isSuccess(r) ==
  r.errors = {} /\ r.ignoredArguments = <<>> /\ ~r.exitRequested

=============================================================================
