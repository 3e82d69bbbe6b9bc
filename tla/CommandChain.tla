---------------------------- MODULE CommandChain ----------------------------
(***************************************************************************)
(* A parse that activates commands: argument_parser::parse_args of the     *)
(* client's parser and, nested in it, parse_args of the sub-parser of      *)
(* every command.  A frame is one call of parse_args with its Parser and   *)
(* its result; the frames share the stream of arguments.                   *)
(*                                                                         *)
(* Of a Parser only what crosses the frames is kept: its result, the       *)
(* nesting of its streams and whether its required option was assigned.    *)
(* Module Parser has the handlers in full and takes the result of a        *)
(* command from SubResults; here that result comes from a frame.           *)
(***************************************************************************)
EXTENDS Integers, ParseResultBuilder

CONSTANTS
  Program,         \* the name of the client's parser
  Chain,           \* the command that every parser offers, outermost first
  Refused,         \* the commands whose options are refused when registered
  MaxIncludeDepth, \* ParserConfig::Data::max_include_depth
  MaxArguments     \* bound: the arguments delivered

ChainCommands == { Chain[i] : i \in 1..Len(Chain) }
ParserNames   == {Program} \cup ChainCommands

ASSUME ChainAssumption ==
  /\ Chain \in Seq(ChainCommands)
  /\ Program \notin ChainCommands
  /\ NoSubject \notin ParserNames
  /\ Refused \subseteq ChainCommands
  /\ MaxIncludeDepth \in Nat
  /\ MaxArguments \in Nat

VARIABLES
  frames,        \* the open calls of parse_args, the client's first
  status,        \* how the client's call ended, if it did
  consumed,      \* arguments delivered so far
  reported,      \* history: the errors any parser reported
  refusedWords,  \* history: the words any parser ignored, in input order
  incomplete,    \* history: the parsers that lack their required option
  activated,     \* history: the commands that were instantiated
  described      \* history: what was described to the user, and by whom

history == <<reported, refusedWords, incomplete, activated, described>>
vars    == <<frames, status, consumed, history>>

(* Mutant: the parser of a command is at top level, too.                   *)
newTopLevelFrame(name, filesystem, topLevel) ==
  [ name |-> name, depth |-> 0, open |-> TRUE, needs |-> TRUE,
    filesystem |-> filesystem, topLevel |-> TRUE, result |-> emptyResult ]

(* The sub-parser of a command has a configuration of its own: the program *)
(* name, the description and the output stream are set in it, the          *)
(* filesystem is not.  Only the parser of the client is at top level:      *)
(* createSubParser makes those of the commands.                            *)
newFrame(name, filesystem, topLevel) ==
  [ name |-> name, depth |-> 0, open |-> TRUE, needs |-> TRUE,
    filesystem |-> filesystem, topLevel |-> topLevel, result |-> emptyResult ]

Init ==
  /\ frames = <<newFrame(Program, "configured", TRUE)>>
  /\ status = "parsing"
  /\ consumed = 0
  /\ reported = {}
  /\ refusedWords = <<>>
  /\ incomplete = 1
  /\ activated = <<>>
  /\ described = <<>>

-----------------------------------------------------------------------------
(* One argument, read by the innermost parser.                             *)

Level == Len(frames)
Top   == frames[Level]

Reads ==
  /\ status = "parsing"
  /\ Top.open
  /\ consumed < MaxArguments
  /\ consumed' = consumed + 1
  /\ UNCHANGED <<status, described>>

TopBecomes(f) == frames' = [frames EXCEPT ![Level] = f]

(* Mutant: the end of the outermost stream is not noticed.                 *)
leaveNever(f) == IF f.depth = 0 THEN f ELSE [f EXCEPT !.depth = @ - 1]

(* The end of a stream resumes the one that included it; the end of the    *)
(* outermost one is the end of the parse.                                  *)
leave(f) == IF f.depth = 0 THEN [f EXCEPT !.open = FALSE]
                           ELSE [f EXCEPT !.depth = @ - 1]

(* The check for an exit after an option.                                  *)
break(f) == IF f.result.exitRequested THEN leave(f) ELSE f

UnknownOption ==
  /\ Reads
  /\ TopBecomes(break([Top EXCEPT !.result =
                         addErrorTo(@, Top.name, "UNKNOWN_OPTION")]))
  /\ reported' = reported
       \cup {[subject |-> Top.name, code |-> "UNKNOWN_OPTION"]}
  /\ UNCHANGED <<refusedWords, incomplete, activated>>

(* A word is told by the parser that ignored it.                           *)
IgnoredWord ==
  /\ Reads
  /\ TopBecomes([Top EXCEPT !.result = addIgnoredTo(@, Top.name)])
  /\ refusedWords' = Append(refusedWords, Top.name)
  /\ UNCHANGED <<reported, incomplete, activated>>

RequiredOption ==
  /\ Reads
  /\ TopBecomes(break([Top EXCEPT !.needs = FALSE]))
  /\ incomplete' = IF Top.needs THEN incomplete - 1 ELSE incomplete
  /\ UNCHANGED <<reported, refusedWords, activated>>

exitIn(r, help) == requestExitIn([r EXCEPT !.helpWasShown = @ \/ help])

(* An option whose action exits, which shows the help first or does not.   *)
ExitOption ==
  /\ Reads
  /\ \E help \in BOOLEAN :
       TopBecomes(leave([Top EXCEPT !.result = exitIn(@, help)]))
  /\ reported' = reported
       \cup {[subject |-> NoSubject, code |-> "EXIT_REQUESTED"]}
  /\ UNCHANGED <<refusedWords, incomplete, activated>>

(* Only a filesystem of the client may open no stream.                     *)
Include ==
  /\ Reads
  /\ Top.depth <= MaxIncludeDepth
  /\ \/ TopBecomes([Top EXCEPT !.depth = @ + 1])
     \/ Top.filesystem = "configured" /\ UNCHANGED frames
  /\ UNCHANGED <<reported, refusedWords, incomplete, activated>>

IncludeTooDeep ==
  /\ Reads
  /\ Top.depth > MaxIncludeDepth
  /\ TopBecomes([Top EXCEPT !.depth = 0, !.open = FALSE,
                   !.result = addErrorTo(@, NoSubject, "INCLUDE_TOO_DEEP")])
  /\ reported' = reported
       \cup {[subject |-> NoSubject, code |-> "INCLUDE_TOO_DEEP"]}
  /\ UNCHANGED <<refusedWords, incomplete, activated>>

(* parseCommandArguments: the command is instantiated, noted in the result *)
(* of the parser that met it, and parses the rest of the stream.           *)
Command ==
  /\ Reads
  /\ Level <= Len(Chain)
  /\ Chain[Level] \notin Refused
  /\ frames' = Append([frames EXCEPT ![Level].result = addCommandTo(@, Chain[Level])],
                      newFrame(Chain[Level], "default", FALSE))
  /\ activated' = Append(activated, Chain[Level])
  /\ incomplete' = incomplete + 1
  /\ UNCHANGED <<reported, refusedWords>>

-----------------------------------------------------------------------------
(* Exceptions that no parser catches destroy the results of all the        *)
(* frames; a result that must be checked throws from its destructor, where *)
(* std::current_exception() is null: no handler is active.                 *)

Propagate ==
  /\ status = "parsing"
  /\ Top.open
  /\ consumed < MaxArguments
  /\ consumed' = consumed + 1
  /\ status' = IF \E i \in 1..Level : frames[i].result.mustCheck
                 THEN "terminated" ELSE "threw"
  /\ UNCHANGED <<frames, history>>

(* The options of the command are registered when it is met.               *)
CommandRefused ==
  /\ Level <= Len(Chain)
  /\ Chain[Level] \in Refused
  /\ Propagate

(* The action of an option throws: Parser::setValue catches three classes. *)
ThrowingOption == Propagate

-----------------------------------------------------------------------------
(* The end of parse_args.                                                  *)

EndOfStream ==
  /\ status = "parsing"
  /\ Top.open
  /\ TopBecomes(leave(Top))
  /\ UNCHANGED <<status, consumed, history>>

Closed == status = "parsing" /\ ~Top.open

(* Mutant: only the client's parser validates.                             *)
isMissingInProgram(f) == f.needs /\ f.name = Program /\ ~f.result.exitRequested

(* validateParsedOptions, which an exit skips.                             *)
isMissing(f) == f.needs /\ ~f.result.exitRequested

validated(f) ==
  IF isMissing(f) THEN addErrorTo(f.result, f.name, "MISSING_OPTION") ELSE f.result

noteMissing ==
  reported' = reported
    \cup (IF isMissing(Top) THEN {[subject |-> Top.name, code |-> "MISSING_OPTION"]}
                            ELSE {})

(* The errors and the ignored arguments are described by a parser at top   *)
(* level, unless the parse has exited.                                     *)
describes(f) ==
  /\ f.topLevel
  /\ ~f.result.exitRequested
  /\ hasArgumentProblems(validated(f))

returned(f) ==
  IF describes(f) THEN signalErrorsShownIn(validated(f)) ELSE validated(f)

noteDescribed ==
  described' = described
    \o (IF describes(Top) THEN <<[ by     |-> Top.name,
                                   errors |-> validated(Top).errors,
                                   words  |-> validated(Top).ignoredArguments ]>>
                           ELSE <<>>)

(* The outer parser merges the result and leaves the stream in which it    *)
(* met the command.                                                        *)
FinishCommand ==
  /\ Closed
  /\ Level > 1
  /\ LET outer == frames[Level - 1]
     IN  frames' = [SubSeq(frames, 1, Level - 1) EXCEPT ![Level - 1] =
                      leave([outer EXCEPT !.result = addResultTo(@, returned(Top))])]
  /\ noteMissing
  /\ noteDescribed
  /\ UNCHANGED <<status, consumed, refusedWords, incomplete, activated>>

FinishProgram ==
  /\ Closed
  /\ Level = 1
  /\ TopBecomes([Top EXCEPT !.result = returned(Top)])
  /\ status' = "returned"
  /\ noteMissing
  /\ noteDescribed
  /\ UNCHANGED <<consumed, refusedWords, incomplete, activated>>

Parse ==
  \/ UnknownOption \/ IgnoredWord \/ RequiredOption \/ ExitOption
  \/ Include \/ IncludeTooDeep \/ Command \/ CommandRefused \/ ThrowingOption
  \/ EndOfStream \/ FinishCommand \/ FinishProgram

Terminated == status # "parsing" /\ UNCHANGED vars

Next == Parse \/ Terminated

Spec == Init /\ [][Next]_vars

FairSpec == Spec /\ WF_vars(Parse)

=============================================================================
