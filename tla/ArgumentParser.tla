--------------------------- MODULE ArgumentParser ---------------------------
(***************************************************************************)
(* class argument_parser: the calls of parse_args on one object.  Each     *)
(* call resets the options and their targets, runs a Parser over the       *)
(* input, assigns the defaults in the order of definition, and validates.  *)
(* The object is reused from call to call, and a call may end early: with  *)
(* no input at all, on a null argv, or when the parse asked to exit.       *)
(***************************************************************************)
EXTENDS ParserProperties

CONSTANTS
  Defined,        \* mOptions, in the order of definition
  TopLevel,       \* mTopLevel: FALSE in the parser of a command
  InitialTargets, \* what the client's variables may hold at the start
  MaxCalls        \* bound: the calls of parse_args

Everything == Defined \o Positional

(* verifyDefinedOptions has let the definition pass.                       *)
ASSUME VerifiedAssumption ==
  /\ Defined \in Seq(Options)
  /\ Options = { Defined[i] : i \in 1..Len(Defined) }
  /\ \A i, j \in 1..Len(Defined) : Defined[i] = Defined[j] => i = j
  /\ RequiredNotExclusive
  /\ TopLevel \in BOOLEAN
  /\ InitialTargets \in [Values -> SUBSET Targets]
  /\ MaxCalls \in Nat

VARIABLES
  phase,     \* where parse_args is
  position,  \* the next parameter whose default is considered
  calls      \* calls made so far

callVars == <<phase, position, calls>>
allVars  == <<vars, callVars>>

cursorVars == <<mIgnoreOptions, mPosition, depth, letters, pieces, pc,
                consumed, started, latest>>

(* The client's variables hold anything before the first call.             *)
CallInit ==
  /\ mIgnoreOptions = FALSE
  /\ mPosition = 1
  /\ mpActiveOption = NoOption
  /\ mCurrentAssignCount = [o \in Params |-> 0]
  /\ mTotalAssignCount = [o \in Params |-> 0]
  /\ mAssignCount = [v \in Values |-> 0]
  /\ mTarget \in { t \in [Values -> UNION {InitialTargets[w] : w \in Values}] :
                     \A v \in Values : t[v] \in InitialTargets[v] }
  /\ mResult = emptyResult
  /\ depth = 0
  /\ letters = <<>>
  /\ pieces = <<>>
  /\ pc = "done"
  /\ consumed = 0
  /\ started = {}
  /\ latest = nobody
  /\ phase = "idle"
  /\ position = 1
  /\ calls = 0

-----------------------------------------------------------------------------
(* Entering parse_args.  Every call builds a result of its own.            *)

BeginCall ==
  /\ phase \in {"idle", "returned"}
  /\ calls < MaxCalls
  /\ calls' = calls + 1
  /\ UNCHANGED position

(* parse_args( argc, nullptr ) touches nothing but its result.             *)
CallNull ==
  /\ BeginCall
  /\ phase' = "returned"
  /\ Becomes([State EXCEPT !.result =
                addErrorTo(emptyResult, NoSubject, "INVALID_ARGV")])
  /\ UNCHANGED cursorVars

hasRequiredArguments == \E o \in Params : Def[o].required

(* With no input and something required the help is shown: the options and *)
(* their targets keep what the previous call left in them.                 *)
CallEmpty ==
  /\ BeginCall
  /\ hasRequiredArguments
  /\ phase' = "returned"
  /\ Becomes([State EXCEPT !.result =
                requestExitIn([emptyResult EXCEPT !.helpWasShown = TRUE])])
  /\ UNCHANGED cursorVars

(* Mutant: the counts are reset, the targets are not.                      *)
resetCountsOnly(s) ==
  [s EXCEPT !.current  = [o \in Params |-> 0],
            !.total    = [o \in Params |-> 0],
            !.assigned = [v \in Values |-> 0]]

(* Option::resetValue for every parameter; each also resets its Value.     *)
resetOptionValues(s) ==
  [s EXCEPT !.current  = [o \in Params |-> 0],
            !.total    = [o \in Params |-> 0],
            !.assigned = [v \in Values |->
                            IF \E o \in Params : Def[o].value = v THEN 0 ELSE @[v]],
            !.target   = [v \in Values |->
                            IF \E o \in Params : Def[o].value = v
                              THEN initialTarget(v) ELSE @[v]]]

(* A new Parser starts at the beginning of the input.                      *)
Call ==
  /\ BeginCall
  /\ phase' = "parsing"
  /\ Becomes([resetOptionValues(State) EXCEPT !.active = NoOption,
                                              !.result = emptyResult])
  /\ mIgnoreOptions' = FALSE
  /\ mPosition' = 1
  /\ depth' = 0
  /\ letters' = <<>>
  /\ pieces' = <<>>
  /\ pc' = "next"
  /\ consumed' = 0
  /\ started' = {}
  /\ latest' = nobody

ParserStep == phase = "parsing" /\ Parse /\ UNCHANGED callVars

-----------------------------------------------------------------------------
(* After the parse.                                                        *)

ExitEarly ==
  /\ phase = "parsing"
  /\ pc = "done"
  /\ mResult.exitRequested
  /\ phase' = "returned"
  /\ UNCHANGED <<vars, position, calls>>

BeginDefaults ==
  /\ phase = "parsing"
  /\ pc = "done"
  /\ ~mResult.exitRequested
  /\ phase' = "defaults"
  /\ position' = 1
  /\ UNCHANGED <<vars, calls>>

(* Mutant: the default is assigned over what the input gave.               *)
takesDefaultAlways(s, o) == hasDefault(o)

(* One turn of the loops of assignDefaultValues.                           *)
takesDefault(s, o) == ~wasAssigned(s, o) /\ hasDefault(o)

(* Mutant: the loop does not get past a parameter without a default.       *)
AssignDefaultStuck ==
  /\ phase = "defaults"
  /\ position <= Len(Everything)
  /\ takesDefault(State, Everything[position])
  /\ Becomes(assignDefault(State, Everything[position]))
  /\ position' = position + 1
  /\ UNCHANGED <<cursorVars, phase, calls>>

AssignDefault ==
  /\ phase = "defaults"
  /\ position <= Len(Everything)
  /\ LET o == Everything[position]
     IN  Becomes(IF takesDefault(State, o) THEN assignDefault(State, o) ELSE State)
  /\ position' = position + 1
  /\ UNCHANGED <<cursorVars, phase, calls>>

Error(subject, code) == [subject |-> subject, code |-> code]

InGroup(g) == { o \in Options : Def[o].group = g }

(* Mutant: only positional parameters are looked at.                       *)
missingPositionals(s) ==
  { Error(p, "MISSING_ARGUMENT") :
      p \in { x \in Positionals : /\ needsMoreArguments(s, x)
                                  /\ Def[x].required \/ wasAssigned(s, x) } }

missingOptions(s) ==
  { Error(o, "MISSING_OPTION") :
      o \in { x \in Options : Def[x].required /\ ~wasAssigned(s, x) } }
  \cup
  { Error(p, "MISSING_ARGUMENT") :
      p \in { x \in Positionals : /\ needsMoreArguments(s, x)
                                  /\ Def[x].required \/ wasAssigned(s, x) } }

UsedOf(s, g) == { o \in InGroup(g) : wasAssignedThroughThisOption(s, o) }

(* The error names the first of the options, in the order of definition.   *)
firstDefined(S) ==
  Defined[CHOOSE i \in 1..Len(Defined) :
            /\ Defined[i] \in S
            /\ \A j \in 1..(i - 1) : Defined[j] \notin S]

(* Mutant: two options of an exclusive group are let pass.                 *)
exclusiveAboveTwo(s) ==
  { Error(firstDefined(UsedOf(s, g)), "EXCLUSIVE_OPTION") :
      g \in { x \in Exclusive : Cardinality(UsedOf(s, x)) > 2 } }

exclusiveViolations(s) ==
  { Error(firstDefined(UsedOf(s, g)), "EXCLUSIVE_OPTION") :
      g \in { x \in Exclusive : Cardinality(UsedOf(s, x)) > 1 } }

missingGroups(s) ==
  { Error(g, "MISSING_OPTION_GROUP") :
      g \in { x \in RequiredGroups : /\ InGroup(x) # {}
                                     /\ \A o \in InGroup(x) : ~wasAssigned(s, o) } }

addErrors(r, E) ==
  [r EXCEPT !.errors = @ \cup E, !.mustCheck = @ \/ (E # {})]

(* validateParsedOptions, and describe_errors when the result is not sent  *)
(* to the parser of an outer command.                                      *)
Validate ==
  LET r == addErrors(mResult, missingOptions(State) \cup exclusiveViolations(State)
                                \cup missingGroups(State))
  IN  /\ phase = "defaults"
      /\ position > Len(Everything)
      /\ Becomes([State EXCEPT !.result =
                    IF TopLevel /\ hasArgumentProblems(r) THEN signalErrorsShownIn(r)
                                                          ELSE r])
      /\ phase' = "returned"
      /\ UNCHANGED <<cursorVars, position, calls>>

Run == ParserStep \/ ExitEarly \/ BeginDefaults \/ AssignDefault \/ Validate

(* The client may stop calling.                                            *)
Rest == phase \in {"idle", "returned"} /\ UNCHANGED allVars

CallNext == CallNull \/ CallEmpty \/ Call \/ Run \/ Rest

CallSpec == CallInit /\ [][CallNext]_allVars

(* A call that has begun runs on; the client need not make another one.    *)
FairCallSpec == CallSpec /\ WF_allVars(Run)

=============================================================================
