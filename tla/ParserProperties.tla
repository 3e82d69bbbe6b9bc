-------------------------- MODULE ParserProperties --------------------------
(***************************************************************************)
(* What a pass over the arguments guarantees, whatever the definition.     *)
(***************************************************************************)
EXTENDS Parser

ProgramCounters == {"next", "letters", "pieces", "close", "done"}

(* Type invariant of the parser, its parameters, values and result.        *)
TypeOK ==
  /\ State \in States
  /\ mIgnoreOptions \in BOOLEAN
  /\ mPosition \in 1..(Len(Positional) + 1)
  /\ depth \in 0..(MaxIncludeDepth + 1)
  /\ letters \in Seq(Names)
  /\ pieces \in Seq([option : Options, text : Texts])
  /\ pc \in ProgramCounters
  /\ consumed \in 0..MaxArguments
  /\ started \in SUBSET Options
  /\ latest \in [option : Options \cup {NoOption}, values : Nat]

(* The result a parser hands out always carries the obligation to be       *)
(* checked exactly when it holds an error, has exited exactly when it says *)
(* so among its errors, and has shown the help only when it has exited:    *)
(* also after the result of a command's parser was merged into it          *)
(* (ParseResultBuilder::addResult).                                        *)
ResultOK == ResultContract(mResult)

(* Words go to the option that occurred last for as long as this           *)
(* occurrence has room for them, and no longer: however many values        *)
(* earlier occurrences of the option took, and however the words between   *)
(* them were given (Option::onOptionStarted, Parser::startOption).         *)
HasRoom ==
  /\ latest.option # NoOption
  /\ \/ Def[latest.option].maxArgs < 0
     \/ latest.values < Def[latest.option].maxArgs

LastOptionTakesWords ==
  pc # "done" => /\ ActiveTakesValue <=> HasRoom
                 /\ HasRoom => mpActiveOption = latest.option

(* Positional parameters are filled strictly in order: one that holds a    *)
(* value is preceded only by parameters that are full                      *)
(* (Parser::addFreeArgument).                                              *)
PositionalOrder ==
  \A i, j \in 1..Len(Positional) :
    (i < j /\ mTotalAssignCount[Positional[j]] > 0)
      => ~willAcceptArgument(State, Positional[i])

(* No occurrence of an option takes more values than its maximum, unless   *)
(* the values are forwarded; a flag counts its own flag value.  Positional *)
(* parameters never exceed their maximum in the whole input.               *)
Capacity(o) == IF o \in Options /\ Def[o].maxArgs = 0 THEN 1 ELSE Def[o].maxArgs

CountsBounded ==
  \A o \in Params :
    (Def[o].maxArgs >= 0 /\ ~isForwarded(o))
      => mCurrentAssignCount[o] <= Capacity(o)

(* Every occurrence of an option that was left with too few values has     *)
(* been reported, however it ended: by the next option, by the end of the  *)
(* input, by an exit or by an include that was too deep                    *)
(* (Parser::closeOption and its callers).                                  *)
MissingArgumentReported ==
  \A o \in started :
    ( /\ o # mpActiveOption
      /\ ~isForwarded(o)
      /\ mCurrentAssignCount[o] < Def[o].minArgs )
    => [subject |-> o, code |-> "MISSING_ARGUMENT"] \in mResult.errors

(* A Value counts as assigned only through a parameter that was itself     *)
(* assigned: defaults and checks that look at the shared Value agree with  *)
(* the parameters that were in the input.                                  *)
ValuesAssignedByParameters ==
  \A v \in Values :
    mAssignCount[v] > 0
      => \E o \in Params : Def[o].value = v /\ mTotalAssignCount[o] > 0

(* A vector or optional target that was assigned through default actions   *)
(* without a conversion error has content, also when its option was given  *)
(* no value and when several options share the target                      *)
(* (ConvertedValue::assign and assignMissing).                             *)
AssignedTargetsHaveContent ==
  \A v \in Values :
    ( /\ ValueKind[v] \in {"vector", "optional", "optvector"}
      /\ mAssignCount[v] > 0
      /\ \A o \in Params : Def[o].value = v =>
           /\ Def[o].action = "assign"
           /\ [subject |-> o, code |-> "CONVERSION_ERROR"] \notin mResult.errors )
    => /\ mTarget[v].has
       /\ ValueKind[v] # "optvector" => mTarget[v].items # <<>>

(* What may be stored in the target of a Value at all: its initial text, a *)
(* flag value, a default, or a text that converts and is among the choices *)
(* of a parameter that assigns it.                                         *)
AllowedTexts(v) ==
  {Zero} \cup
  UNION { {Def[o].flagValue, Def[o].default}
          \cup {t \in Convertible[v] : isValidChoice(o, t)} :
            o \in {x \in Params : Def[x].value = v} }

(* After "--" no option occurs, none receives a value and no command is    *)
(* activated, until the end of the parse, also when the "--" was read from *)
(* an included stream.  Only the option that was active before it may get  *)
(* its missing value, when the parse is closed                             *)
(* (Parser::getNextArgumentType, closeOption).                             *)
Alone(o) == \A p \in Params : Def[p].value = Def[o].value => p = o

OptionsFrozenAfterDashDash ==
  [][ mIgnoreOptions =>
        /\ mIgnoreOptions'
        /\ started' = started
        /\ mpActiveOption' \in {mpActiveOption, NoOption}
        /\ mResult'.commands = mResult.commands
        /\ \A o \in Options : ~(pc = "close" /\ o = mpActiveOption) =>
             /\ mCurrentAssignCount'[o] = mCurrentAssignCount[o]
             /\ mTotalAssignCount'[o] = mTotalAssignCount[o]
             /\ Alone(o) => mTarget'[Def[o].value] = mTarget[Def[o].value] ]_vars

(* A pass over the arguments is a pass of the abstract parser: its result  *)
(* is the one under construction and it is finished when parse() returns.  *)
Abstract == INSTANCE ParseContract
              WITH Empty    <- emptyResult,
                   Contract <- ResultContract,
                   result   <- mResult,
                   finished <- (pc = "done")

(* No handler takes back what an earlier one reported, and the result is   *)
(* final when the pass ends: Parser implements ParseContract.              *)
ImplementsContract == Abstract!Spec

(* A pass over a finite input ends: whatever the nesting of its streams,   *)
(* every letter and piece is handled and the last option is closed.        *)
ParseTerminates == <>(pc = "done")

-----------------------------------------------------------------------------
(* A statement of the tests that the code does not keep.                   *)

(* argparser_t.cpp: the parameters that do not require an argument will be *)
(* given the flag value.  A scalar target that was assigned without an     *)
(* error does not keep its initial content.                                *)
FlagValueIsStored ==
  \A v \in Values :
    ( /\ ValueKind[v] = "scalar"
      /\ mAssignCount[v] > 0
      /\ mResult.errors = {} )
    => mTarget[v].items # <<Zero>>

=============================================================================
