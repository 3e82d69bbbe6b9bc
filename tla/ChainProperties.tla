-------------------------- MODULE ChainProperties --------------------------
(***************************************************************************)
(* What the parsers of a chain of commands guarantee together.             *)
(***************************************************************************)
EXTENDS CommandChain

(* What a command's parser would hand to the parser around it, if its      *)
(* input ended now, is always a result that module Parser assumes          *)
(* (SubResults): an error cannot arrive without the obligation to check    *)
(* it, no parser inside has described errors on its own, and none lacked   *)
(* its input.  The client's result keeps the contract, too.                *)
FramesKeepContract ==
  \A i \in 1..Len(frames) :
    /\ ResultContract(frames[i].result)
    /\ i > 1 => LET r == returned(frames[i])
                IN  /\ ResultContract(r)
                    /\ ~r.errorsWereShown
                    /\ \A e \in r.errors : e.code # "INVALID_ARGV"

Returned == status = "returned"
Outcome  == frames[1].result

(* No error is lost or made up on its way through the merges, and the      *)
(* ignored arguments arrive in the order of the input, wherever in the     *)
(* chain and in whatever included stream they were met                     *)
(* (ParseResultBuilder::addResult).                                        *)
ErrorsReachTheClient ==
  Returned => /\ Outcome.errors = reported
              /\ Outcome.ignoredArguments = refusedWords

(* A success of the client's call means that every parser that was         *)
(* activated, at any depth, had its required option, although every one of *)
(* them validates on its own and an exit anywhere skips the validation of  *)
(* all parsers around it.                                                  *)
SuccessMeansAllComplete ==
  (Returned /\ isSuccess(Outcome)) => incomplete = 0

(* Everything that any parser of the chain reported or ignored is          *)
(* described to the user exactly once, by the client's parser and by no    *)
(* other, complete and when it returns; nothing is described when a parser *)
(* asked to exit or an exception passed through.  The client's result says *)
(* so (argument_parser::createSubParser, parse_args, describe_errors).     *)
Exited == [subject |-> NoSubject, code |-> "EXIT_REQUESTED"] \in reported

ErrorsShownOnce ==
  /\ described = IF /\ Returned
                    /\ ~Exited
                    /\ reported # {} \/ refusedWords # <<>>
                   THEN <<[ by |-> Program, errors |-> reported,
                            words |-> refusedWords ]>>
                   ELSE <<>>
  /\ Outcome.errorsWereShown <=> described # <<>>

(* An exception that no parser catches reaches the client, whatever level  *)
(* threw it, only if no parser had an error to report: a result under      *)
(* construction that must be checked throws in its turn, from a destructor *)
(* during the unwinding, and the program is terminated                     *)
(* (RequireCheck::~RequireCheck).                                          *)
ExceptionsArrive ==
  status \in {"threw", "terminated"} => (status = "threw" <=> reported = {})

(* The whole chain is one pass of the abstract parser, of which the client *)
(* sees the result: what was reported before, inside or after a command is *)
(* never taken back.                                                       *)
Abstract == INSTANCE ParseContract
              WITH Empty    <- emptyResult,
                   Contract <- ResultContract,
                   result   <- Outcome,
                   finished <- (status # "parsing")

ChainImplementsContract == Abstract!Spec

(* A parse of a finite input ends, at whatever level it is: every parser   *)
(* inside returns to the one around it, which goes on with the rest.       *)
ChainTerminates == <>(status # "parsing")

-----------------------------------------------------------------------------
(* A statement of the documentation that the code does not keep.           *)

(* README: the chain of instantiated subcommands is stored in              *)
(* ParseResults::commands.                                                 *)
ChainIsStored == Returned => Outcome.commands = activated

=============================================================================
