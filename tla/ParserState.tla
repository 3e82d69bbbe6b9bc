---------------------------- MODULE ParserState ----------------------------
(***************************************************************************)
(* The objects a parser mutates while it handles one argument: the         *)
(* counters of the Option objects, the counters and targets of the Value   *)
(* objects, the active option and the ParseResult under construction.      *)
(*                                                                         *)
(* A handler of the parser calls several methods of these objects one      *)
(* after the other, so every method is an operator from a state record s   *)
(* to the next one, and a handler is their composition.                    *)
(***************************************************************************)
EXTENDS ParserDefinition, ParseResultBuilder

(* The text of an error names a parameter, an option name, a group or      *)
(* nothing.                                                                *)
Subjects == Params \cup Names \cup Groups \cup {NoSubject}

ParseErrors == [subject : Subjects, code : ErrorCodes]

Results == [ errors           : SUBSET ParseErrors,
             ignoredArguments : Seq(Texts),
             commands         : Seq(Commands),
             exitRequested    : BOOLEAN,
             helpWasShown     : BOOLEAN,
             errorsWereShown  : BOOLEAN,
             mustCheck        : BOOLEAN ]

Targets == [has : BOOLEAN, items : Seq(Texts)]

States == [ active   : Options \cup {NoOption},
            current  : [Params -> Nat],
            total    : [Params -> Nat],
            assigned : [Values -> Nat],
            target   : [Values -> Targets],
            result   : Results ]

-----------------------------------------------------------------------------
addError(s, subject, code) == [s EXCEPT !.result = addErrorTo(@, subject, code)]

-----------------------------------------------------------------------------
(* Value and ConvertedValue<T>.                                            *)

initialTarget(v) ==
  CASE ValueKind[v] = "scalar" -> [has |-> TRUE,  items |-> <<Zero>>]
    [] ValueKind[v] = "vector" -> [has |-> TRUE,  items |-> <<>>]
    [] OTHER                   -> [has |-> FALSE, items |-> <<>>]

(* ConvertedValue::assign, when the text is convertible.                   *)
stored(v, tgt, text) ==
  CASE ValueKind[v] \in {"scalar", "optional"} ->
         [has |-> TRUE, items |-> <<text>>]
    [] ValueKind[v] \in {"vector", "optvector"} ->
         [has |-> TRUE, items |-> Append(tgt.items, text)]
    [] OTHER -> tgt

(* assign throws invalid_argument or out_of_range when the text can not be *)
(* converted; Parser::setValue turns it into an error of the option.       *)
assign(s, o, text) ==
  LET v == Def[o].value
  IN  IF ValueKind[v] = "void" \/ text \in Convertible[v]
        THEN [s EXCEPT !.target[v] = stored(v, @, text)]
        ELSE addError(s, o, "CONVERSION_ERROR")

runAction(s, o, text) ==
  CASE Def[o].action = "assign" -> assign(s, o, text)
    [] Def[o].action = "exit"   -> [s EXCEPT !.result = requestExitIn(@)]
    [] Def[o].action = "help"   ->
         [s EXCEPT !.result = requestExitIn([@ EXCEPT !.helpWasShown = TRUE])]
    [] OTHER                    -> addError(s, o, "ACTION_ERROR")

(* Mutant: the overload for scalars is taken for every target.             *)
assignMissingAsScalar(s, o, text) ==
  IF s.assigned[Def[o].value] = 0 THEN assign(s, o, text) ELSE s

(* The assignMissing overloads.  The scalar one looks at the assign count, *)
(* which setMissingValue has already increased.                            *)
assignMissing(s, o, text) ==
  LET v   == Def[o].value
      tgt == s.target[v]
  IN  CASE ValueKind[v] = "vector" ->
             IF tgt.items = <<>> THEN assign(s, o, text) ELSE s
        [] ValueKind[v] = "optvector" ->
             [s EXCEPT !.target[v] = [has |-> TRUE, items |-> tgt.items]]
        [] ValueKind[v] = "optional" ->
             IF tgt.has
               THEN s
               ELSE [s EXCEPT !.target[v] = [has |-> TRUE, items |-> <<Zero>>]]
        [] OTHER ->
             IF s.assigned[v] = 0 THEN assign(s, o, text) ELSE s

setMissingValue(s, o, text) ==
  LET v == Def[o].value
  IN  IF ValueKind[v] = "void"
        THEN s
        ELSE assignMissing([s EXCEPT !.assigned[v] = @ + 1], o, text)

-----------------------------------------------------------------------------
(* Option.                                                                 *)

(* Mutant: one argument too many.                                          *)
willAcceptOneMore(s, o) ==
  Def[o].maxArgs < 0 \/ s.current[o] <= Def[o].maxArgs

willAcceptArgument(s, o) ==
  Def[o].maxArgs < 0 \/ s.current[o] < Def[o].maxArgs

needsMoreArguments(s, o) == s.current[o] < Def[o].minArgs

wasAssigned(s, o) == s.assigned[Def[o].value] > 0

wasAssignedThroughThisOption(s, o) == s.total[o] > 0

countArgument(s, o) ==
  [s EXCEPT !.current[o] = @ + 1, !.total[o] = @ + 1]

(* Mutant: the values of an earlier occurrence keep counting.              *)
onOptionStartedKeeping(s, o) == s

onOptionStarted(s, o) == [s EXCEPT !.current[o] = 0]

isValidChoice(o, text) == Def[o].choices = {} \/ text \in Def[o].choices

(* Mutant: the choices are not looked at.                                  *)
setValueUnchecked(s, o, text) ==
  runAction([countArgument(s, o) EXCEPT !.assigned[Def[o].value] = @ + 1], o, text)

(* Option::setValue inside Parser::setValue.  A text outside the choices   *)
(* is counted by the option but not by the Value (markBadArgument).        *)
setValue(s, o, text) ==
  LET c == countArgument(s, o)
  IN  IF isValidChoice(o, text)
        THEN runAction([c EXCEPT !.assigned[Def[o].value] = @ + 1], o, text)
        ELSE addError(c, o, "INVALID_CHOICE")

(* Mutant: a missing value is not counted by the option.                   *)
autoSetMissingUncounted(s, o) == setMissingValue(s, o, Def[o].flagValue)

autoSetMissingValue(s, o) ==
  setMissingValue(countArgument(s, o), o, Def[o].flagValue)

assignDefault(s, o) ==
  LET v == Def[o].value
  IN  [s EXCEPT !.assigned[v] = @ + 1,
                !.target[v] = IF ValueKind[v] = "void" THEN @
                              ELSE [has |-> TRUE, items |-> <<Def[o].default>>]]

-----------------------------------------------------------------------------
(* The helpers of class Parser that touch nothing else.                    *)

haveActiveOption(s) == s.active # NoOption

(* Mutant: an option is closed without looking at its values.              *)
closeOptionSilently(s) == [s EXCEPT !.active = NoOption]

closeOption(s) ==
  LET o == s.active
      closed ==
        CASE needsMoreArguments(s, o) -> addError(s, o, "MISSING_ARGUMENT")
          [] /\ ~needsMoreArguments(s, o)
             /\ willAcceptArgument(s, o)
             /\ ~wasAssignedThroughThisOption(s, o) -> autoSetMissingValue(s, o)
          [] OTHER -> s
  IN  IF haveActiveOption(s) THEN [closed EXCEPT !.active = NoOption] ELSE s

(* The part of startOption that follows a successful lookup.  value is the *)
(* text after the separator, NoText when it is empty.                      *)
beginOption(s, o, value) ==
  LET started == onOptionStarted(s, o)
      opened  == IF willAcceptArgument(started, o)
                   THEN [started EXCEPT !.active = o]
                   ELSE setValue(started, o, Def[o].flagValue)
  IN  CASE value = NoText -> opened
        [] value # NoText /\ willAcceptArgument(opened, o) ->
             setValue(opened, o, value)
        [] OTHER -> addError(opened, o, "FLAG_PARAMETER")

=============================================================================
