------------------------------- MODULE Parser -------------------------------
(***************************************************************************)
(* class Parser: one pass over a stream of arguments against a fixed       *)
(* definition.  The variables are the members of Parser, of the Option and *)
(* Value objects and of the ParseResult, with the names of the source.     *)
(*                                                                         *)
(* The stream is the environment: next() returns any argument of Args or   *)
(* ends.  An include opens a nested stream, whose end resumes the outer    *)
(* one.  A command hands the rest of its stream to a sub-parser, of which  *)
(* only the merged result is seen here: SubResults is any set of results   *)
(* that satisfies ResultContract, which is what this module guarantees of  *)
(* its own result, reports no missing argv, since the sub-parser is given  *)
(* a stream, and has described no errors, since it is not at top level.    *)
(***************************************************************************)
EXTENDS ParserState

CONSTANTS
  Args,             \* the arguments a stream may deliver
  SubResults,       \* the results a command's parser may return
  MaxIncludeDepth,  \* ParserConfig::Data::max_include_depth
  MaxArguments      \* bound: the arguments that all streams deliver together

(* An argument, cut into the parts the parser looks at.                    *)
(*  names      the names of a dash argument, one per letter; the part of a *)
(*             long argument before its first comma                        *)
(*  whole      the name a long argument has when it is not forwarded       *)
(*  value      the text after the separator, NoText if there is none       *)
(*  pieces     the forwarded texts after the first comma                   *)
(*  text       the whole argument, when it is offered as a value           *)
ArgKinds == {"at", "dashdash", "long", "dash", "word"}

ArgForms == [ kind       : ArgKinds,
              names      : Seq(Names),
              whole      : Names,
              value      : Texts \cup {NoText},
              pieces     : Seq(Texts),
              text       : Texts,
              numberLike : BOOLEAN,
              command    : Commands \cup {NoCommand} ]

ASSUME StreamAssumption ==
  /\ Args \subseteq ArgForms
  /\ \A a \in Args : a.kind \in {"long", "dash"} => Len(a.names) > 0
  /\ SubResults \subseteq Results
  /\ \A r \in SubResults :
       /\ ResultContract(r)
       /\ ~r.errorsWereShown
       /\ \A e \in r.errors : e.code # "INVALID_ARGV"
  /\ MaxIncludeDepth \in Nat
  /\ MaxArguments \in Nat

VARIABLES
  mIgnoreOptions, mPosition, mpActiveOption,    \* Parser
  mCurrentAssignCount, mTotalAssignCount,       \* Option
  mAssignCount, mTarget,                        \* Value
  mResult,                                      \* ParseResultBuilder
  depth,     \* parse( argStream, depth ): the nesting of the open streams
  letters,   \* the names of a multi-option argument still to be started
  pieces,    \* the forwarded texts still to be stored
  pc,        \* where parse() is
  consumed,  \* arguments delivered so far
  started,   \* history: the options that occurred in the input
  latest     \* history: the option that occurred last, and how many values
             \* this occurrence of it was given

vars == <<mIgnoreOptions, mPosition, mpActiveOption, mCurrentAssignCount,
          mTotalAssignCount, mAssignCount, mTarget, mResult, depth, letters,
          pieces, pc, consumed, started, latest>>

State == [ active   |-> mpActiveOption,
           current  |-> mCurrentAssignCount,
           total    |-> mTotalAssignCount,
           assigned |-> mAssignCount,
           target   |-> mTarget,
           result   |-> mResult ]

Becomes(s) ==
  /\ mpActiveOption'      = s.active
  /\ mCurrentAssignCount' = s.current
  /\ mTotalAssignCount'   = s.total
  /\ mAssignCount'        = s.assigned
  /\ mTarget'             = s.target
  /\ mResult'             = s.result

(* No option can take a word of the input.                                 *)
nobody == [option |-> NoOption, values |-> 0]

Init ==
  /\ mIgnoreOptions = FALSE
  /\ mPosition = 1
  /\ mpActiveOption = NoOption
  /\ mCurrentAssignCount = [o \in Params |-> 0]
  /\ mTotalAssignCount = [o \in Params |-> 0]
  /\ mAssignCount = [v \in Values |-> 0]
  /\ mTarget = [v \in Values |-> initialTarget(v)]
  /\ mResult = emptyResult
  /\ depth = 0
  /\ letters = <<>>
  /\ pieces = <<>>
  /\ pc = "next"
  /\ consumed = 0
  /\ started = {}
  /\ latest = nobody

-----------------------------------------------------------------------------
(* Classification of the next argument.                                    *)

ActiveTakesValue ==
  mpActiveOption # NoOption /\ willAcceptArgument(State, mpActiveOption)

getNumberType(a) ==
  CASE ActiveTakesValue /\ ~isPositional(mpActiveOption) -> "optionValue"
    [] mpActiveOption = NoOption /\ ~optionWithNameExists(a.names[1]) ->
         "freeArgument"
    [] OTHER -> "option"

getWordType(a) ==
  CASE ActiveTakesValue -> "optionValue"
    [] ~ActiveTakesValue /\ a.command # NoCommand -> "commandName"
    [] OTHER -> "freeArgument"

(* Mutant: "--" is forgotten for groups of letters.                        *)
getTypeIgnoringDashDash(a) ==
  CASE mIgnoreOptions /\ a.kind # "dash" -> "freeArgument"
    [] ~mIgnoreOptions /\ a.kind = "at" -> "include"
    [] ~mIgnoreOptions /\ a.kind = "dashdash" -> "endOfOptions"
    [] ~mIgnoreOptions /\ a.kind = "dash" /\ a.numberLike -> getNumberType(a)
    [] ~mIgnoreOptions /\ a.kind = "word" -> getWordType(a)
    [] OTHER -> "option"

getNextArgumentType(a) ==
  CASE mIgnoreOptions -> "freeArgument"
    [] ~mIgnoreOptions /\ a.kind = "at" -> "include"
    [] ~mIgnoreOptions /\ a.kind = "dashdash" -> "endOfOptions"
    [] ~mIgnoreOptions /\ a.kind = "dash" /\ a.numberLike -> getNumberType(a)
    [] ~mIgnoreOptions /\ a.kind = "word" -> getWordType(a)
    [] OTHER -> "option"

NextArgument(a, type) ==
  /\ pc = "next"
  /\ consumed < MaxArguments
  /\ getNextArgumentType(a) = type
  /\ consumed' = consumed + 1

-----------------------------------------------------------------------------
(* The ways out of one turn of the loop in parse( argStream, depth ).      *)

(* Mutants: the nesting is not reset at the end of the outermost stream;   *)
(* the parse goes on after it.                                             *)
LeaveUnderflow ==
  /\ pc' = IF depth = 0 THEN "close" ELSE "next"
  /\ depth' = depth - 1

LeaveToNext ==
  /\ pc' = "next"
  /\ depth' = IF depth = 0 THEN 0 ELSE depth - 1

(* return: the end of the outermost stream ends the parse.                 *)
Leave ==
  /\ pc' = IF depth = 0 THEN "close" ELSE "next"
  /\ depth' = IF depth = 0 THEN 0 ELSE depth - 1

Continue == pc' = "next" /\ UNCHANGED depth

(* break: the check after the switch.                                      *)
Break(s) == IF s.result.exitRequested THEN Leave ELSE Continue

EndOfStream ==
  /\ pc = "next"
  /\ Leave
  /\ UNCHANGED <<mIgnoreOptions, mPosition, letters, pieces, consumed, started,
                 latest>>
  /\ Becomes(State)

-----------------------------------------------------------------------------
(* parseSubstream.  The filesystem may return no stream.                   *)

Include(a) ==
  /\ NextArgument(a, "include")
  /\ depth <= MaxIncludeDepth
  /\ depth' \in {depth, depth + 1}
  /\ pc' = "next"
  /\ UNCHANGED <<mIgnoreOptions, mPosition, letters, pieces, started, latest>>
  /\ Becomes(State)

(* IncludeDepthExceeded leaves all the streams at once.                    *)
IncludeTooDeep(a) ==
  /\ NextArgument(a, "include")
  /\ depth > MaxIncludeDepth
  /\ depth' = 0
  /\ pc' = "close"
  /\ UNCHANGED <<mIgnoreOptions, mPosition, letters, pieces, started, latest>>
  /\ Becomes(addError(State, NoSubject, "INCLUDE_TOO_DEEP"))

EndOfOptions(a) ==
  /\ NextArgument(a, "endOfOptions")
  /\ mIgnoreOptions' = TRUE
  /\ Continue
  /\ UNCHANGED <<mPosition, letters, pieces, started, latest>>
  /\ Becomes(State)

(* Mutant: any positional that accepts the argument takes it.              *)
StorePositionalAnywhere(a) ==
  /\ NextArgument(a, "freeArgument")
  /\ \E p \in mPosition..Len(Positional) :
       /\ willAcceptArgument(State, Positional[p])
       /\ mPosition' = p
       /\ Becomes(setValue(State, Positional[p], a.text))
  /\ Continue
  /\ UNCHANGED <<mIgnoreOptions, letters, pieces, started, latest>>

(* addFreeArgument: the first positional, from mPosition on, that accepts  *)
(* the argument.                                                           *)
StorePositional(a) ==
  /\ NextArgument(a, "freeArgument")
  /\ \E p \in mPosition..Len(Positional) :
       /\ willAcceptArgument(State, Positional[p])
       /\ \A q \in mPosition..(p - 1) : ~willAcceptArgument(State, Positional[q])
       /\ mPosition' = p
       /\ Becomes(setValue(State, Positional[p], a.text))
  /\ Continue
  /\ UNCHANGED <<mIgnoreOptions, letters, pieces, started, latest>>

IgnoreArgument(a) ==
  /\ NextArgument(a, "freeArgument")
  /\ \A p \in mPosition..Len(Positional) :
       ~willAcceptArgument(State, Positional[p])
  /\ mPosition' = Len(Positional) + 1
  /\ Continue
  /\ UNCHANGED <<mIgnoreOptions, letters, pieces, started, latest>>
  /\ Becomes([State EXCEPT !.result = addIgnoredTo(@, a.text)])

OptionValue(a) ==
  LET s == setValue(State, mpActiveOption, a.text)
      t == IF willAcceptArgument(s, mpActiveOption) THEN s ELSE closeOption(s)
  IN  /\ NextArgument(a, "optionValue")
      /\ Becomes(t)
      /\ Break(t)
      /\ latest' = [latest EXCEPT !.values = @ + 1]
      /\ UNCHANGED <<mIgnoreOptions, mPosition, letters, pieces, started>>

-----------------------------------------------------------------------------
(* startOption                                                             *)

startOption(name, value) ==
  LET o == findOption(name)
      s == closeOption(State)
  IN  IF o = NoOption THEN addError(s, name, "UNKNOWN_OPTION")
                      ELSE beginOption(s, o, value)

noteStarted(name, value) ==
  /\ started' = started \cup ({findOption(name)} \ {NoOption})
  /\ latest' = [option |-> findOption(name),
                values |-> IF value = NoText THEN 0 ELSE 1]

(* A comma in a long option opens a list of forwarded arguments.           *)
IsForwardList(a) ==
  /\ a.pieces # <<>>
  /\ optionWithNameExists(a.names[1])
  /\ isForwarded(findOption(a.names[1]))

LongOption(a) ==
  LET s == startOption(a.whole, a.value)
  IN  /\ NextArgument(a, "option")
      /\ a.kind = "long"
      /\ ~IsForwardList(a)
      /\ Becomes(s)
      /\ Break(s)
      /\ noteStarted(a.whole, a.value)
      /\ UNCHANGED <<mIgnoreOptions, mPosition, letters, pieces>>

(* parseForwardedArguments stores the pieces one by one.                   *)
ForwardOption(a) ==
  LET o == findOption(a.names[1])
  IN  /\ NextArgument(a, "option")
      /\ a.kind = "long"
      /\ IsForwardList(a)
      /\ Becomes(onOptionStarted(closeOption(State), o))
      /\ pieces' = [i \in 1..Len(a.pieces) |-> [option |-> o, text |-> a.pieces[i]]]
      /\ pc' = "pieces"
      /\ started' = started \cup {o}
      /\ latest' = nobody
      /\ UNCHANGED <<mIgnoreOptions, mPosition, letters, depth>>

ForwardPiece ==
  LET s == setValue(State, Head(pieces).option, Head(pieces).text)
  IN  /\ pc = "pieces"
      /\ pieces # <<>>
      /\ Becomes(s)
      /\ pieces' = Tail(pieces)
      /\ IF Tail(pieces) = <<>> THEN Break(s) ELSE UNCHANGED <<pc, depth>>
      /\ UNCHANGED <<mIgnoreOptions, mPosition, letters, consumed, started,
                     latest>>

(* A dash argument starts an option for each of its letters.               *)
DashOptions(a) ==
  /\ NextArgument(a, "option")
  /\ a.kind = "dash"
  /\ letters' = a.names
  /\ pc' = "letters"
  /\ UNCHANGED <<mIgnoreOptions, mPosition, pieces, depth, started, latest>>
  /\ Becomes(State)

StartLetter ==
  LET s == startOption(Head(letters), NoText)
  IN  /\ pc = "letters"
      /\ letters # <<>>
      /\ Becomes(s)
      /\ letters' = Tail(letters)
      /\ IF Tail(letters) = <<>> THEN Break(s) ELSE UNCHANGED <<pc, depth>>
      /\ noteStarted(Head(letters), NoText)
      /\ UNCHANGED <<mIgnoreOptions, mPosition, pieces, consumed>>

-----------------------------------------------------------------------------
(* parseCommandArguments: the sub-parser consumes the rest of the stream.  *)

CommandName(a) ==
  /\ NextArgument(a, "commandName")
  /\ \E sub \in SubResults :
       Becomes([State EXCEPT !.result =
                  addResultTo(addCommandTo(@, a.command), sub)])
  /\ Leave
  /\ UNCHANGED <<mIgnoreOptions, mPosition, letters, pieces, started, latest>>

(* The end of parse( argStream ).                                          *)
Close ==
  /\ pc = "close"
  /\ Becomes(closeOption(State))
  /\ pc' = "done"
  /\ UNCHANGED <<mIgnoreOptions, mPosition, letters, pieces, depth, consumed,
                 started, latest>>

ReadArgument ==
  \E a \in Args : \/ Include(a) \/ IncludeTooDeep(a) \/ EndOfOptions(a)
                  \/ StorePositional(a) \/ IgnoreArgument(a) \/ OptionValue(a)
                  \/ LongOption(a) \/ ForwardOption(a) \/ DashOptions(a)
                  \/ CommandName(a)

Parse == EndOfStream \/ ReadArgument \/ ForwardPiece \/ StartLetter \/ Close

Terminated == pc = "done" /\ UNCHANGED vars

Next == Parse \/ Terminated

Spec == Init /\ [][Next]_vars

FairSpec == Spec /\ WF_vars(Parse)

=============================================================================
