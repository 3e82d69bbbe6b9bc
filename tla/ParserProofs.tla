---------------------------- MODULE ParserProofs ----------------------------
(***************************************************************************)
(* Theorems about the parser and about parse_args, for every definition,   *)
(* every set of arguments and every bound.                                 *)
(***************************************************************************)
EXTENDS CallProperties, SequenceTheorems, FiniteSetTheorems, TLAPS

-----------------------------------------------------------------------------
(***************************************************************************)
(* Facts about the operators of ParserState: every method keeps the state  *)
(* well typed, lets the result only grow and touches only the counters     *)
(* that its code touches.                                                  *)
(***************************************************************************)
(* r2 is a result that says all that r1 says, has described its errors if  *)
(* r1 has, and satisfies the contract of the builder if r1 does.           *)
Grows(r1, r2) ==
  /\ r2 \in Results
  /\ Abstract!Extends(r1, r2)
  /\ r2.errorsWereShown = r1.errorsWereShown
  /\ ResultContract(r1) => ResultContract(r2)

LEMMA GrowsRefl ==
  ASSUME NEW r \in Results
  PROVE  Grows(r, r)
BY DEF Grows, Abstract!Extends, Abstract!IsPrefixOf, Results

LEMMA PrefixTrans ==
  ASSUME NEW S, NEW a \in Seq(S), NEW b \in Seq(S), NEW c \in Seq(S),
         Abstract!IsPrefixOf(a, b), Abstract!IsPrefixOf(b, c)
  PROVE  Abstract!IsPrefixOf(a, c)
BY DEF Abstract!IsPrefixOf

LEMMA GrowsTrans ==
  ASSUME NEW r1 \in Results, NEW r2, NEW r3, Grows(r1, r2), Grows(r2, r3)
  PROVE  Grows(r1, r3)
<1>1. /\ r2 \in Results /\ r3 \in Results
      /\ Abstract!Extends(r1, r2) /\ Abstract!Extends(r2, r3)
  BY DEF Grows
<1>2. /\ Abstract!IsPrefixOf(r1.ignoredArguments, r3.ignoredArguments)
      /\ Abstract!IsPrefixOf(r1.commands, r3.commands)
  <2>1. /\ r1.ignoredArguments \in Seq(Texts) /\ r2.ignoredArguments \in Seq(Texts)
        /\ r3.ignoredArguments \in Seq(Texts)
        /\ r1.commands \in Seq(Commands) /\ r2.commands \in Seq(Commands)
        /\ r3.commands \in Seq(Commands)
    BY <1>1 DEF Results
  <2>2. /\ Abstract!IsPrefixOf(r1.ignoredArguments, r2.ignoredArguments)
        /\ Abstract!IsPrefixOf(r2.ignoredArguments, r3.ignoredArguments)
        /\ Abstract!IsPrefixOf(r1.commands, r2.commands)
        /\ Abstract!IsPrefixOf(r2.commands, r3.commands)
    BY <1>1 DEF Abstract!Extends
  <2> QED BY <2>1, <2>2, PrefixTrans
<1>3. Abstract!Extends(r1, r3)
  BY <1>1, <1>2 DEF Abstract!Extends
<1> QED BY <1>1, <1>3 DEF Grows

-----------------------------------------------------------------------------
(* ParseResultBuilder                                                      *)

LEMMA AddErrorFields ==
  ASSUME NEW r \in Results, NEW subject \in Subjects, NEW code \in ErrorCodes,
         NEW t, t = addErrorTo(r, subject, code)
  PROVE  /\ t \in Results
         /\ t.errors = r.errors \cup {[subject |-> subject, code |-> code]}
         /\ t.mustCheck
         /\ t.exitRequested = r.exitRequested
         /\ t.helpWasShown = r.helpWasShown
         /\ t.errorsWereShown = r.errorsWereShown
         /\ t.ignoredArguments = r.ignoredArguments
         /\ t.commands = r.commands
<1> DEFINE e == r.errors \cup {[subject |-> subject, code |-> code]}
<1>1. e \in SUBSET ParseErrors
  BY DEF Results, ParseErrors
<1>2. t = [r EXCEPT !.errors = e, !.mustCheck = TRUE]
  BY DEF addErrorTo
<1> HIDE DEF e
<1>3. t \in Results
  BY <1>1, <1>2, Zenon DEF Results
<1>4. t.errors = e /\ t.mustCheck /\ t.exitRequested = r.exitRequested
  BY <1>2 DEF Results
<1>5. /\ t.helpWasShown = r.helpWasShown
      /\ t.errorsWereShown = r.errorsWereShown
      /\ t.ignoredArguments = r.ignoredArguments
      /\ t.commands = r.commands
  BY <1>2 DEF Results
<1> QED BY <1>3, <1>4, <1>5 DEF e

LEMMA AddErrorGrows ==
  ASSUME NEW r \in Results, NEW subject \in Subjects,
         NEW code \in ErrorCodes \ {"EXIT_REQUESTED"},
         NEW t, t = addErrorTo(r, subject, code)
  PROVE  /\ Grows(r, t)
         /\ [subject |-> subject, code |-> code] \in t.errors
<1>1. /\ t \in Results
      /\ t.errors = r.errors \cup {[subject |-> subject, code |-> code]}
      /\ t.mustCheck
      /\ t.exitRequested = r.exitRequested
      /\ t.helpWasShown = r.helpWasShown
      /\ t.errorsWereShown = r.errorsWereShown
      /\ t.ignoredArguments = r.ignoredArguments
      /\ t.commands = r.commands
  BY AddErrorFields
<1>2. Abstract!Extends(r, t)
  BY <1>1 DEF Results, Abstract!Extends, Abstract!IsPrefixOf
<1>3. ResultContract(r) => ResultContract(t)
  <2> SUFFICES ASSUME ResultContract(r) PROVE ResultContract(t)
    OBVIOUS
  <2>1. t.mustCheck <=> (t.errors # {})
    BY <1>1
  <2>2. t.exitRequested <=> (\E e \in t.errors : e.code = "EXIT_REQUESTED")
    BY <1>1 DEF ResultContract
  <2>3. t.helpWasShown => t.exitRequested
    BY <1>1 DEF ResultContract
  <2> QED BY <2>1, <2>2, <2>3 DEF ResultContract
<1> QED BY <1>1, <1>2, <1>3 DEF Grows

LEMMA RequestExitGrows ==
  ASSUME NEW r \in Results, NEW t, t = requestExitIn(r)
  PROVE  /\ Grows(r, t) /\ ResultContract(t)
         /\ t.exitRequested /\ t.helpWasShown = r.helpWasShown
<1>1. PICK u \in Results : u = [r EXCEPT !.exitRequested = TRUE]
  BY DEF Results
<1>2. /\ u.errors = r.errors
      /\ u.exitRequested = TRUE
      /\ u.helpWasShown = r.helpWasShown
      /\ u.errorsWereShown = r.errorsWereShown
      /\ u.ignoredArguments = r.ignoredArguments
      /\ u.commands = r.commands
  BY <1>1 DEF Results
<1>3. NoSubject \in Subjects /\ "EXIT_REQUESTED" \in ErrorCodes
  BY DEF Subjects, ErrorCodes
<1>4. /\ t \in Results
      /\ t.errors = u.errors \cup {[subject |-> NoSubject, code |-> "EXIT_REQUESTED"]}
      /\ t.mustCheck
      /\ t.exitRequested = u.exitRequested
      /\ t.helpWasShown = u.helpWasShown
      /\ t.errorsWereShown = u.errorsWereShown
      /\ t.ignoredArguments = u.ignoredArguments
      /\ t.commands = u.commands
  <2>1. t = addErrorTo(u, NoSubject, "EXIT_REQUESTED")
    BY <1>1 DEF requestExitIn
  <2> QED BY <2>1, <1>3, AddErrorFields
<1>5. Abstract!Extends(r, t)
  BY <1>2, <1>4 DEF Results, Abstract!Extends, Abstract!IsPrefixOf
<1>6. ResultContract(t)
  <2>1. t.mustCheck <=> (t.errors # {})
    BY <1>4
  <2>2. \E e \in t.errors : e.code = "EXIT_REQUESTED"
    <3>1. [subject |-> NoSubject, code |-> "EXIT_REQUESTED"] \in t.errors
      BY <1>4
    <3> QED BY <3>1
  <2>3. t.exitRequested = TRUE
    BY <1>2, <1>4
  <2> QED BY <2>1, <2>2, <2>3 DEF ResultContract
<1> QED BY <1>2, <1>4, <1>5, <1>6 DEF Grows

LEMMA ShowHelpGrows ==
  ASSUME NEW r \in Results, NEW t,
         t = requestExitIn([r EXCEPT !.helpWasShown = TRUE])
  PROVE  Grows(r, t)
<1>1. PICK u \in Results : u = [r EXCEPT !.helpWasShown = TRUE]
  BY DEF Results
<1>2. /\ u.errors = r.errors
      /\ u.helpWasShown
      /\ u.errorsWereShown = r.errorsWereShown
      /\ u.exitRequested = r.exitRequested
      /\ u.ignoredArguments = r.ignoredArguments
      /\ u.commands = r.commands
      /\ u.mustCheck = r.mustCheck
  BY <1>1 DEF Results
<1>3. Grows(u, t) /\ ResultContract(t) /\ t.exitRequested /\ t.helpWasShown
  BY <1>1, <1>2, RequestExitGrows
<1>4. Abstract!Extends(r, t)
  BY <1>2, <1>3 DEF Grows, Results, Abstract!Extends, Abstract!IsPrefixOf
<1>5. t.errorsWereShown = r.errorsWereShown
  BY <1>2, <1>3 DEF Grows
<1>6. t \in Results /\ ResultContract(t)
  BY <1>3 DEF Grows
<1> QED BY <1>4, <1>5, <1>6 DEF Grows

-----------------------------------------------------------------------------
(* The state record, one component at a time.                              *)

LEMMA StateFields ==
  ASSUME NEW s \in States
  PROVE  /\ s.active \in Options \cup {NoOption}
         /\ s.current \in [Params -> Nat]
         /\ s.total \in [Params -> Nat]
         /\ s.assigned \in [Values -> Nat]
         /\ s.target \in [Values -> Targets]
         /\ s.result \in Results
BY DEF States

LEMMA WithResult ==
  ASSUME NEW s \in States, NEW r \in Results,
         NEW t, t = [s EXCEPT !.result = r]
  PROVE  /\ t \in States /\ t.result = r
         /\ t.active = s.active /\ t.current = s.current /\ t.total = s.total
         /\ t.assigned = s.assigned /\ t.target = s.target
BY DEF States

LEMMA WithTarget ==
  ASSUME NEW s \in States, NEW f \in [Values -> Targets],
         NEW t, t = [s EXCEPT !.target = f]
  PROVE  /\ t \in States /\ t.target = f
         /\ t.active = s.active /\ t.current = s.current /\ t.total = s.total
         /\ t.assigned = s.assigned /\ t.result = s.result
BY DEF States

LEMMA WithActive ==
  ASSUME NEW s \in States, NEW o \in Options \cup {NoOption},
         NEW t, t = [s EXCEPT !.active = o]
  PROVE  /\ t \in States /\ t.active = o
         /\ t.result = s.result /\ t.current = s.current /\ t.total = s.total
         /\ t.assigned = s.assigned /\ t.target = s.target
BY DEF States

LEMMA WithCurrent ==
  ASSUME NEW s \in States, NEW f \in [Params -> Nat],
         NEW t, t = [s EXCEPT !.current = f]
  PROVE  /\ t \in States /\ t.current = f
         /\ t.result = s.result /\ t.active = s.active /\ t.total = s.total
         /\ t.assigned = s.assigned /\ t.target = s.target
BY DEF States

LEMMA WithAssigned ==
  ASSUME NEW s \in States, NEW f \in [Values -> Nat],
         NEW t, t = [s EXCEPT !.assigned = f]
  PROVE  /\ t \in States /\ t.assigned = f
         /\ t.result = s.result /\ t.active = s.active /\ t.total = s.total
         /\ t.current = s.current /\ t.target = s.target
BY DEF States

LEMMA DefFields ==
  ASSUME NEW o \in Params
  PROVE  /\ Def[o].value \in Values
         /\ Def[o].minArgs \in Nat
         /\ Def[o].maxArgs \in Nat \cup {-1}
         /\ Def[o].flagValue \in Texts
         /\ Def[o].action \in Actions
BY DefinitionAssumption DEF Attributes

LEMMA ParserErrorCodes ==
  /\ Params \subseteq Subjects /\ Names \subseteq Subjects /\ NoSubject \in Subjects
  /\ {"CONVERSION_ERROR", "ACTION_ERROR", "INVALID_CHOICE", "MISSING_ARGUMENT",
      "FLAG_PARAMETER", "UNKNOWN_OPTION", "INCLUDE_TOO_DEEP"}
        \subseteq ErrorCodes \ {"EXIT_REQUESTED"}
BY DEF Subjects, ErrorCodes

-----------------------------------------------------------------------------
(* Value                                                                   *)

(* t differs from s in the target of v and in a result that has grown.     *)
Executed(s, t) ==
  /\ t \in States
  /\ Grows(s.result, t.result)
  /\ t.active = s.active
  /\ t.current = s.current
  /\ t.total = s.total
  /\ t.assigned = s.assigned

LEMMA ExecutedRefl ==
  ASSUME NEW s \in States
  PROVE  Executed(s, s)
BY GrowsRefl, StateFields DEF Executed

LEMMA AddErrorExecuted ==
  ASSUME NEW s \in States, NEW subject \in Subjects,
         NEW code \in ErrorCodes \ {"EXIT_REQUESTED"}
  PROVE  /\ Executed(s, addError(s, subject, code))
         /\ [subject |-> subject, code |-> code]
              \in addError(s, subject, code).result.errors
<1> DEFINE r == addErrorTo(s.result, subject, code)
<1>1. s.result \in Results
  BY StateFields
<1>2. Grows(s.result, r) /\ [subject |-> subject, code |-> code] \in r.errors
  BY <1>1, AddErrorGrows
<1>3. addError(s, subject, code) = [s EXCEPT !.result = r]
  BY DEF addError
<1> HIDE DEF r
<1>4. r \in Results
  BY <1>2 DEF Grows
<1>5. Executed(s, addError(s, subject, code))
  BY <1>2, <1>3, <1>4, WithResult DEF Executed
<1>6. addError(s, subject, code).result = r
  BY <1>3, <1>4, WithResult
<1> QED BY <1>2, <1>5, <1>6

LEMMA AppendTarget ==
  ASSUME NEW tgt \in Targets, NEW text \in Texts
  PROVE  [has |-> TRUE, items |-> Append(tgt.items, text)] \in Targets
BY DEF Targets

LEMMA SingleTarget ==
  ASSUME NEW text \in Texts
  PROVE  [has |-> TRUE, items |-> <<text>>] \in Targets
BY DEF Targets

LEMMA StoredType ==
  ASSUME NEW v \in Values, NEW tgt \in Targets, NEW text \in Texts
  PROVE  stored(v, tgt, text) \in Targets
BY AppendTarget, SingleTarget DEF stored

LEMMA InitialTargetType ==
  ASSUME NEW v \in Values
  PROVE  initialTarget(v) \in Targets
<1>1. [has |-> FALSE, items |-> <<>>] \in Targets /\ [has |-> TRUE, items |-> <<>>] \in Targets
  BY DEF Targets
<1>2. [has |-> TRUE, items |-> <<Zero>>] \in Targets
  BY SingleTarget, DefinitionAssumption
<1> QED BY <1>1, <1>2 DEF initialTarget

LEMMA ReplaceTarget ==
  ASSUME NEW s \in States, NEW v \in Values, NEW x \in Targets,
         NEW t, t = [s EXCEPT !.target[v] = x]
  PROVE  Executed(s, t)
<1>1. PICK f \in [Values -> Targets] : f = [s.target EXCEPT ![v] = x]
  BY StateFields
<1>2. t = [s EXCEPT !.target = f]
  BY <1>1
<1> QED BY <1>2, WithTarget, GrowsRefl, StateFields DEF Executed

LEMMA AssignExecuted ==
  ASSUME NEW s \in States, NEW o \in Params, NEW text \in Texts
  PROVE  Executed(s, assign(s, o, text))
<1> DEFINE v == Def[o].value
<1>1. v \in Values
  BY DefFields
<1>2. CASE ValueKind[v] = "void" \/ text \in Convertible[v]
  <2>1. stored(v, s.target[v], text) \in Targets
    BY <1>1, StoredType, StateFields
  <2>2. assign(s, o, text) = [s EXCEPT !.target[v] = stored(v, s.target[v], text)]
    BY <1>2 DEF assign
  <2> QED BY <1>1, <2>1, <2>2, ReplaceTarget
<1>3. CASE ~(ValueKind[v] = "void" \/ text \in Convertible[v])
  <2>1. assign(s, o, text) = addError(s, o, "CONVERSION_ERROR")
    BY <1>3 DEF assign
  <2>0. o \in Subjects /\ "CONVERSION_ERROR" \in ErrorCodes \ {"EXIT_REQUESTED"}
    BY ParserErrorCodes
  <2> QED BY <2>0, <2>1, AddErrorExecuted
<1> QED BY <1>2, <1>3

LEMMA RunActionExecuted ==
  ASSUME NEW s \in States, NEW o \in Params, NEW text \in Texts
  PROVE  Executed(s, runAction(s, o, text))
<1>1. CASE Def[o].action = "assign"
  BY <1>1, AssignExecuted DEF runAction
<1>2. CASE Def[o].action = "exit"
  <2>1. runAction(s, o, text) = [s EXCEPT !.result = requestExitIn(s.result)]
    BY <1>2 DEF runAction
  <2>2. Grows(s.result, requestExitIn(s.result))
    BY RequestExitGrows, StateFields
  <2> QED BY <2>1, <2>2, WithResult DEF Executed, Grows
<1>3. CASE Def[o].action = "help"
  <2> DEFINE r == requestExitIn([s.result EXCEPT !.helpWasShown = TRUE])
  <2>1. runAction(s, o, text) = [s EXCEPT !.result = r]
    BY <1>3 DEF runAction
  <2>2. Grows(s.result, r)
    BY ShowHelpGrows, StateFields
  <2> HIDE DEF r
  <2> QED BY <2>1, <2>2, WithResult DEF Executed, Grows
<1>4. CASE Def[o].action \notin {"assign", "exit", "help"}
  <2>1. runAction(s, o, text) = addError(s, o, "ACTION_ERROR")
    BY <1>4 DEF runAction
  <2>0. o \in Subjects /\ "ACTION_ERROR" \in ErrorCodes \ {"EXIT_REQUESTED"}
    BY ParserErrorCodes
  <2> QED BY <2>0, <2>1, AddErrorExecuted
<1> QED BY <1>1, <1>2, <1>3, <1>4

LEMMA AssignMissingExecuted ==
  ASSUME NEW s \in States, NEW o \in Params, NEW text \in Texts
  PROVE  Executed(s, assignMissing(s, o, text))
<1> DEFINE v == Def[o].value
           tgt == s.target[v]
<1>1. v \in Values /\ tgt \in Targets
  BY DefFields, StateFields
<1>2. Executed(s, s) /\ Executed(s, assign(s, o, text))
  BY ExecutedRefl, AssignExecuted
<1>3. CASE ValueKind[v] = "optvector"
  <2>1. [has |-> TRUE, items |-> tgt.items] \in Targets
    BY <1>1 DEF Targets
  <2>2. assignMissing(s, o, text) =
          [s EXCEPT !.target[v] = [has |-> TRUE, items |-> tgt.items]]
    BY <1>3 DEF assignMissing
  <2> QED BY <1>1, <2>1, <2>2, ReplaceTarget
<1>4. CASE ValueKind[v] = "optional"
  <2>1. [has |-> TRUE, items |-> <<Zero>>] \in Targets
    BY SingleTarget, DefinitionAssumption
  <2>2. Executed(s, [s EXCEPT !.target[v] = [has |-> TRUE, items |-> <<Zero>>]])
    BY <1>1, <2>1, ReplaceTarget
  <2> QED BY <1>2, <1>4, <2>2 DEF assignMissing
<1>5. CASE ValueKind[v] \notin {"optvector", "optional"}
  BY <1>2, <1>5 DEF assignMissing
<1> QED BY <1>3, <1>4, <1>5

-----------------------------------------------------------------------------
(* Option                                                                  *)

(* The parameter o has counted one more argument, its Value at most one    *)
(* more assignment.                                                        *)
Offered(s, t, o) ==
  /\ t \in States
  /\ Grows(s.result, t.result)
  /\ t.active = s.active
  /\ t.current = [s.current EXCEPT ![o] = @ + 1]
  /\ t.total = [s.total EXCEPT ![o] = @ + 1]
  /\ \A v \in Values : v # Def[o].value => t.assigned[v] = s.assigned[v]

LEMMA Increment ==
  ASSUME NEW S, NEW f \in [S -> Nat], NEW x \in S
  PROVE  [f EXCEPT ![x] = @ + 1] \in [S -> Nat]
OBVIOUS

LEMMA CountArgumentFrame ==
  ASSUME NEW s \in States, NEW o \in Params,
         NEW t, t = countArgument(s, o)
  PROVE  /\ t \in States
         /\ t.result = s.result /\ t.active = s.active
         /\ t.current = [s.current EXCEPT ![o] = @ + 1]
         /\ t.total = [s.total EXCEPT ![o] = @ + 1]
         /\ t.assigned = s.assigned /\ t.target = s.target
<1>1. PICK c \in [Params -> Nat] : c = [s.current EXCEPT ![o] = @ + 1]
  BY StateFields, Increment
<1>2. PICK d \in [Params -> Nat] : d = [s.total EXCEPT ![o] = @ + 1]
  BY StateFields, Increment
<1>3. t = [s EXCEPT !.current = c, !.total = d]
  BY <1>1, <1>2 DEF countArgument
<1>4. t \in States
  BY <1>3 DEF States
<1>5. /\ t.current = c /\ t.total = d
      /\ t.result = s.result /\ t.active = s.active
      /\ t.assigned = s.assigned /\ t.target = s.target
  BY <1>3 DEF States
<1> QED BY <1>1, <1>2, <1>4, <1>5

LEMMA CountAssignment ==
  ASSUME NEW s \in States, NEW v \in Values,
         NEW t, t = [s EXCEPT !.assigned[v] = @ + 1]
  PROVE  /\ t \in States
         /\ t.result = s.result /\ t.active = s.active
         /\ t.current = s.current /\ t.total = s.total /\ t.target = s.target
         /\ \A w \in Values : w # v => t.assigned[w] = s.assigned[w]
<1>1. PICK f \in [Values -> Nat] : f = [s.assigned EXCEPT ![v] = @ + 1]
  BY StateFields, Increment
<1>2. t = [s EXCEPT !.assigned = f]
  BY <1>1
<1> QED BY <1>1, <1>2, WithAssigned, StateFields

LEMMA SetValueOffered ==
  ASSUME NEW s \in States, NEW o \in Params, NEW text \in Texts
  PROVE  Offered(s, setValue(s, o, text), o)
<1> DEFINE c == countArgument(s, o)
           a == [c EXCEPT !.assigned[Def[o].value] = @ + 1]
<1>1. /\ c \in States
      /\ c.result = s.result /\ c.active = s.active
      /\ c.current = [s.current EXCEPT ![o] = @ + 1]
      /\ c.total = [s.total EXCEPT ![o] = @ + 1]
      /\ c.assigned = s.assigned
  BY CountArgumentFrame
<1>2. CASE isValidChoice(o, text)
  <2>1. setValue(s, o, text) = runAction(a, o, text)
    BY <1>2 DEF setValue
  <2>2. /\ a \in States
        /\ a.result = c.result /\ a.active = c.active
        /\ a.current = c.current /\ a.total = c.total
        /\ \A w \in Values : w # Def[o].value => a.assigned[w] = c.assigned[w]
    BY <1>1, DefFields, CountAssignment
  <2> HIDE DEF c, a
  <2>3. Executed(a, setValue(s, o, text))
    BY <2>1, <2>2, RunActionExecuted
  <2> QED BY <1>1, <2>2, <2>3 DEF Executed, Offered
<1>3. CASE ~isValidChoice(o, text)
  <2>1. setValue(s, o, text) = addError(c, o, "INVALID_CHOICE")
    BY <1>3 DEF setValue
  <2> HIDE DEF c, a
  <2>0. o \in Subjects /\ "INVALID_CHOICE" \in ErrorCodes \ {"EXIT_REQUESTED"}
    BY ParserErrorCodes
  <2>2. Executed(c, addError(c, o, "INVALID_CHOICE"))
    BY <1>1, <2>0, AddErrorExecuted
  <2> QED BY <1>1, <2>1, <2>2 DEF Executed, Offered
<1> QED BY <1>2, <1>3

LEMMA AutoSetMissingValueOffered ==
  ASSUME NEW s \in States, NEW o \in Params
  PROVE  Offered(s, autoSetMissingValue(s, o), o)
<1> DEFINE c == countArgument(s, o)
           a == [c EXCEPT !.assigned[Def[o].value] = @ + 1]
           text == Def[o].flagValue
<1>1. /\ c \in States
      /\ c.result = s.result /\ c.active = s.active
      /\ c.current = [s.current EXCEPT ![o] = @ + 1]
      /\ c.total = [s.total EXCEPT ![o] = @ + 1]
      /\ c.assigned = s.assigned
  BY CountArgumentFrame
<1>2. CASE ValueKind[Def[o].value] = "void"
  <2>1. autoSetMissingValue(s, o) = c
    BY <1>2 DEF autoSetMissingValue, setMissingValue
  <2> QED BY <1>1, <2>1, GrowsRefl, StateFields DEF Offered
<1>3. CASE ValueKind[Def[o].value] # "void"
  <2>1. autoSetMissingValue(s, o) = assignMissing(a, o, text)
    BY <1>3 DEF autoSetMissingValue, setMissingValue
  <2>2. /\ a \in States
        /\ a.result = c.result /\ a.active = c.active
        /\ a.current = c.current /\ a.total = c.total
        /\ \A w \in Values : w # Def[o].value => a.assigned[w] = c.assigned[w]
    BY <1>1, DefFields, CountAssignment
  <2>3. text \in Texts
    BY DefFields
  <2> HIDE DEF c, a, text
  <2>4. Executed(a, autoSetMissingValue(s, o))
    BY <2>1, <2>2, <2>3, AssignMissingExecuted
  <2> QED BY <1>1, <2>2, <2>4 DEF Executed, Offered
<1> QED BY <1>2, <1>3

-----------------------------------------------------------------------------
(* The part of the inductive invariant that speaks of one state record.    *)
(* S is the set of options that occurred in the input.                     *)

Bounded(s) ==
  \A o \in Params :
    (Def[o].maxArgs >= 0 /\ ~isForwarded(o)) => s.current[o] <= Capacity(o)

Accounted(s) ==
  \A v \in Values :
    s.assigned[v] > 0 => \E o \in Params : Def[o].value = v /\ s.total[o] > 0

Reported(s, S) ==
  \A o \in S :
    (o # s.active /\ ~isForwarded(o) /\ s.current[o] < Def[o].minArgs)
      => [subject |-> o, code |-> "MISSING_ARGUMENT"] \in s.result.errors

RecordInv(s, S) ==
  /\ s \in States
  /\ ResultContract(s.result)
  /\ s.active # NoOption => Def[s.active].maxArgs # 0
  /\ Bounded(s)
  /\ Accounted(s)
  /\ Reported(s, S)

SamePositionals(s, t) ==
  \A p \in Positionals : t.current[p] = s.current[p] /\ t.total[p] = s.total[p]

LEMMA CapacityFacts ==
  ASSUME NEW o \in Params
  PROVE  /\ Def[o].maxArgs >= 0 => Def[o].maxArgs <= Capacity(o)
         /\ (o \in Options /\ Def[o].maxArgs = 0) => Capacity(o) = 1
         /\ Def[o].maxArgs >= 0 => Capacity(o) \in Nat
         /\ Def[o].maxArgs = 0 => Def[o].minArgs = 0
BY DefFields, CountAssumption DEF Capacity, CountsShaped

LEMMA OptionsArePositionalFree ==
  ASSUME NEW o \in Options
  PROVE  o \in Params /\ o \notin Positionals /\ o # NoOption
BY DefinitionAssumption DEF Params

LEMMA ErrorsGrow ==
  ASSUME NEW r1, NEW r2, Grows(r1, r2)
  PROVE  r1.errors \subseteq r2.errors
BY DEF Grows, Abstract!Extends

(* Offering a value keeps the invariant if the parameter has room for it.  *)
LEMMA OfferedInv ==
  ASSUME NEW S \in SUBSET Options, NEW s, NEW t, NEW o \in Params,
         RecordInv(s, S), Offered(s, t, o),
         (Def[o].maxArgs >= 0 /\ ~isForwarded(o))
           => s.current[o] + 1 <= Capacity(o)
  PROVE  RecordInv(t, S)
<1>1. s \in States /\ t \in States
  BY DEF RecordInv, Offered
<1>2. /\ s.current \in [Params -> Nat] /\ s.total \in [Params -> Nat]
      /\ s.assigned \in [Values -> Nat]
  BY <1>1, StateFields
<1>3. /\ t.current = [s.current EXCEPT ![o] = @ + 1]
      /\ t.total = [s.total EXCEPT ![o] = @ + 1]
      /\ t.active = s.active
  BY DEF Offered
<1>4. ResultContract(t.result) /\ s.result.errors \subseteq t.result.errors
  BY ErrorsGrow DEF RecordInv, Offered, Grows
<1>5. t.active # NoOption => Def[t.active].maxArgs # 0
  BY <1>3 DEF RecordInv
<1>6. Bounded(t)
  <2> SUFFICES ASSUME NEW p \in Params, Def[p].maxArgs >= 0, ~isForwarded(p)
               PROVE  t.current[p] <= Capacity(p)
    BY DEF Bounded
  <2>1. CASE p = o
    BY <1>2, <1>3, <2>1
  <2>2. CASE p # o
    <3>1. t.current[p] = s.current[p]
      BY <1>2, <1>3, <2>2
    <3>2. s.current[p] <= Capacity(p)
      BY DEF RecordInv, Bounded
    <3> QED BY <3>1, <3>2
  <2> QED BY <2>1, <2>2
<1>7. Accounted(t)
  <2> SUFFICES ASSUME NEW v \in Values, t.assigned[v] > 0
               PROVE  \E p \in Params : Def[p].value = v /\ t.total[p] > 0
    BY DEF Accounted
  <2>1. CASE v = Def[o].value
    <3>1. t.total[o] > 0
      BY <1>2, <1>3
    <3> QED BY <2>1, <3>1
  <2>2. CASE v # Def[o].value
    <3>1. s.assigned[v] > 0
      BY <2>2 DEF Offered
    <3>2. PICK p \in Params : Def[p].value = v /\ s.total[p] > 0
      BY <3>1 DEF RecordInv, Accounted
    <3>3. t.total[p] > 0
      BY <1>2, <1>3, <3>2
    <3> QED BY <3>2, <3>3
  <2> QED BY <2>1, <2>2
<1>8. Reported(t, S)
  <2> SUFFICES ASSUME NEW p \in S, p # t.active, ~isForwarded(p),
                      t.current[p] < Def[p].minArgs
               PROVE  [subject |-> p, code |-> "MISSING_ARGUMENT"] \in t.result.errors
    BY DEF Reported
  <2>1. p \in Params
    BY OptionsArePositionalFree
  <2>2. s.current[p] < Def[p].minArgs
    BY <1>2, <1>3, <2>1, DefFields
  <2>3. [subject |-> p, code |-> "MISSING_ARGUMENT"] \in s.result.errors
    BY <1>3, <2>2 DEF RecordInv, Reported
  <2> QED BY <1>4, <2>3
<1> QED BY <1>1, <1>4, <1>5, <1>6, <1>7, <1>8 DEF RecordInv

LEMMA OfferedPositionals ==
  ASSUME NEW s \in States, NEW t, NEW o \in Options, Offered(s, t, o)
  PROVE  SamePositionals(s, t)
<1>1. s.current \in [Params -> Nat] /\ s.total \in [Params -> Nat]
  BY StateFields
<1>2. \A p \in Positionals : p \in Params /\ p # o
  BY OptionsArePositionalFree DEF Params
<1> QED BY <1>1, <1>2 DEF Offered, SamePositionals

LEMMA ErrorInv ==
  ASSUME NEW S \in SUBSET Options, NEW s, RecordInv(s, S),
         NEW subject \in Subjects, NEW code \in ErrorCodes \ {"EXIT_REQUESTED"},
         NEW t, t = addError(s, subject, code)
  PROVE  /\ RecordInv(t, S) /\ Grows(s.result, t.result)
         /\ t.active = s.active /\ SamePositionals(s, t)
<1>1. s \in States
  BY DEF RecordInv
<1>2. Executed(s, t)
  BY <1>1, AddErrorExecuted
<1>3. s.result.errors \subseteq t.result.errors /\ ResultContract(t.result)
  BY <1>2, ErrorsGrow DEF Executed, Grows, RecordInv
<1>4. Bounded(t) /\ Accounted(t) /\ (t.active # NoOption => Def[t.active].maxArgs # 0)
  BY <1>2 DEF RecordInv, Bounded, Accounted, Executed
<1>5. Reported(t, S)
  BY <1>2, <1>3 DEF RecordInv, Reported, Executed
<1> QED BY <1>2, <1>3, <1>4, <1>5 DEF RecordInv, Executed, SamePositionals

-----------------------------------------------------------------------------
(* Parser::closeOption and Parser::startOption                             *)

(* Removing the active option is sound once it has enough values or has    *)
(* been reported.                                                          *)
Settled(s, o) ==
  \/ s.current[o] >= Def[o].minArgs
  \/ [subject |-> o, code |-> "MISSING_ARGUMENT"] \in s.result.errors

LEMMA DeactivateInv ==
  ASSUME NEW S \in SUBSET Options, NEW s, RecordInv(s, S),
         NEW o \in Options, s.active = o,
         Settled(s, o),
         NEW t, t = [s EXCEPT !.active = NoOption]
  PROVE  /\ RecordInv(t, S) /\ t.result = s.result /\ t.active = NoOption
         /\ t.current = s.current /\ t.total = s.total
<1>1. s \in States
  BY DEF RecordInv
<1>2. /\ t \in States /\ t.active = NoOption
      /\ t.result = s.result /\ t.current = s.current /\ t.total = s.total
      /\ t.assigned = s.assigned
  BY <1>1, WithActive
<1>3. Bounded(t) /\ Accounted(t) /\ ResultContract(t.result)
  BY <1>2 DEF RecordInv, Bounded, Accounted
<1>4. Reported(t, S)
  <2> SUFFICES ASSUME NEW p \in S, ~isForwarded(p), t.current[p] < Def[p].minArgs
               PROVE  [subject |-> p, code |-> "MISSING_ARGUMENT"] \in t.result.errors
    BY DEF Reported
  <2>1. CASE p = s.active
    <3>1. s.current[p] < Def[p].minArgs /\ p \in Params
      BY <1>2, OptionsArePositionalFree
    <3>2. s.current[p] \in Nat /\ Def[p].minArgs \in Nat
      BY <1>1, <3>1, StateFields, DefFields
    <3>3. ~(s.current[p] >= Def[p].minArgs)
      BY <3>1, <3>2
    <3> QED BY <1>2, <2>1, <3>3 DEF Settled
  <2>2. CASE p # s.active
    BY <1>2, <2>2 DEF RecordInv, Reported
  <2> QED BY <2>1, <2>2
<1> QED BY <1>2, <1>3, <1>4 DEF RecordInv

LEMMA CloseOptionInv ==
  ASSUME NEW S \in SUBSET Options, NEW s, RecordInv(s, S),
         NEW t, t = closeOption(s)
  PROVE  /\ RecordInv(t, S) /\ Grows(s.result, t.result)
         /\ t.active = NoOption /\ SamePositionals(s, t)
<1> DEFINE o == s.active
<1>1. s \in States /\ s.result \in Results
  BY StateFields DEF RecordInv
<1>2. CASE o = NoOption
  <2>1. t = s
    BY <1>2 DEF closeOption, haveActiveOption
  <2> QED BY <1>1, <1>2, <2>1, GrowsRefl DEF SamePositionals
<1>3. CASE o # NoOption
  <2>1. o \in Options /\ o \in Params
    BY <1>1, <1>3, StateFields, OptionsArePositionalFree
  <2>2. /\ s.current[o] \in Nat /\ Def[o].minArgs \in Nat
        /\ Def[o].maxArgs \in Nat \cup {-1}
    BY <1>1, <2>1, StateFields, DefFields
  <2>3. CASE needsMoreArguments(s, o)
    <3> DEFINE u == addError(s, o, "MISSING_ARGUMENT")
    <3>1. o \in Subjects /\ "MISSING_ARGUMENT" \in ErrorCodes \ {"EXIT_REQUESTED"}
      BY <2>1, ParserErrorCodes
    <3>2. t = [u EXCEPT !.active = NoOption]
      BY <1>3, <2>3 DEF closeOption, haveActiveOption
    <3>3. /\ RecordInv(u, S) /\ Grows(s.result, u.result)
          /\ u.active = o /\ SamePositionals(s, u)
      BY <3>1, ErrorInv
    <3>4. Settled(u, o)
      BY <1>1, <3>1, AddErrorExecuted DEF Settled
    <3> HIDE DEF u
    <3>5. /\ RecordInv(t, S) /\ t.result = u.result /\ t.active = NoOption
          /\ t.current = u.current /\ t.total = u.total
      BY <2>1, <3>2, <3>3, <3>4, DeactivateInv
    <3> QED BY <3>3, <3>5 DEF SamePositionals
  <2>4. CASE /\ ~needsMoreArguments(s, o)
             /\ willAcceptArgument(s, o) /\ ~wasAssignedThroughThisOption(s, o)
    <3> DEFINE u == autoSetMissingValue(s, o)
    <3>1. t = [u EXCEPT !.active = NoOption]
      BY <1>3, <2>4 DEF closeOption, haveActiveOption
    <3>2. Offered(s, u, o)
      BY <1>1, <2>1, AutoSetMissingValueOffered
    <3>3. (Def[o].maxArgs >= 0 /\ ~isForwarded(o)) => s.current[o] + 1 <= Capacity(o)
      BY <2>1, <2>2, <2>4, CapacityFacts DEF willAcceptArgument
    <3> HIDE DEF u
    <3>4. RecordInv(u, S)
      BY <2>1, <3>2, <3>3, OfferedInv
    <3>5. u.active = o /\ Settled(u, o)
      <4>1. u.active = o /\ u.current = [s.current EXCEPT ![o] = @ + 1]
        BY <3>2 DEF Offered
      <4>2. u.current[o] = s.current[o] + 1
        BY <1>1, <2>1, <4>1, StateFields
      <4>3. ~(s.current[o] < Def[o].minArgs)
        BY <2>4 DEF needsMoreArguments
      <4> QED BY <2>2, <4>1, <4>2, <4>3 DEF Settled
    <3>6. /\ RecordInv(t, S) /\ t.result = u.result /\ t.active = NoOption
          /\ t.current = u.current /\ t.total = u.total
      BY <2>1, <3>1, <3>4, <3>5, DeactivateInv
    <3>7. SamePositionals(s, u)
      BY <1>1, <2>1, <3>2, OfferedPositionals
    <3> QED BY <3>2, <3>6, <3>7 DEF Offered, SamePositionals
  <2>5. CASE /\ ~needsMoreArguments(s, o)
             /\ ~(willAcceptArgument(s, o) /\ ~wasAssignedThroughThisOption(s, o))
    <3>1. t = [s EXCEPT !.active = NoOption]
      BY <1>3, <2>5 DEF closeOption, haveActiveOption
    <3>2. Settled(s, o)
      BY <2>2, <2>5 DEF needsMoreArguments, Settled
    <3>3. /\ RecordInv(t, S) /\ t.result = s.result /\ t.active = NoOption
          /\ t.current = s.current /\ t.total = s.total
      BY <2>1, <3>1, <3>2, DeactivateInv
    <3> QED BY <1>1, <3>3, GrowsRefl DEF SamePositionals
  <2> QED BY <2>3, <2>4, <2>5
<1> QED BY <1>2, <1>3

(* A started option that is not active is a flag or takes forwarded values.*)
LEMMA StartedInv ==
  ASSUME NEW S \in SUBSET Options, NEW s, RecordInv(s, S), s.active = NoOption,
         NEW o \in Options, Def[o].maxArgs = 0 \/ isForwarded(o),
         NEW t, t = onOptionStarted(s, o)
  PROVE  /\ RecordInv(t, S \cup {o}) /\ t.result = s.result
         /\ t.active = NoOption /\ SamePositionals(s, t)
         /\ t.current[o] = 0
<1>1. s \in States /\ o \in Params
  BY OptionsArePositionalFree DEF RecordInv
<1>2. PICK c \in [Params -> Nat] : c = [s.current EXCEPT ![o] = 0]
  BY <1>1, StateFields
<1>3. t = [s EXCEPT !.current = c]
  BY <1>2 DEF onOptionStarted
<1>4. /\ t \in States /\ t.current = c
      /\ t.result = s.result /\ t.active = s.active /\ t.total = s.total
      /\ t.assigned = s.assigned
  BY <1>1, <1>3, WithCurrent
<1>5. /\ c[o] = 0
      /\ \A p \in Params : p # o => c[p] = s.current[p]
  BY <1>1, <1>2, StateFields
<1>6. Bounded(t)
  <2> SUFFICES ASSUME NEW p \in Params, Def[p].maxArgs >= 0, ~isForwarded(p)
               PROVE  t.current[p] <= Capacity(p)
    BY DEF Bounded
  <2>1. CASE p = o
    BY <1>4, <1>5, <2>1, CapacityFacts
  <2>2. CASE p # o
    BY <1>4, <1>5, <2>2 DEF RecordInv, Bounded
  <2> QED BY <2>1, <2>2
<1>7. Reported(t, S \cup {o})
  <2> SUFFICES ASSUME NEW p \in S \cup {o}, p # t.active, ~isForwarded(p),
                      t.current[p] < Def[p].minArgs
               PROVE  [subject |-> p, code |-> "MISSING_ARGUMENT"] \in t.result.errors
    BY DEF Reported
  <2>1. p # o
    BY <1>1, <1>4, <1>5, CapacityFacts
  <2>2. p \in S /\ p \in Params
    BY <2>1, OptionsArePositionalFree
  <2>3. s.current[p] < Def[p].minArgs
    BY <1>4, <1>5, <2>1, <2>2
  <2> QED BY <1>4, <2>2, <2>3 DEF RecordInv, Reported
<1>8. Accounted(t) /\ ResultContract(t.result)
  BY <1>4 DEF RecordInv, Accounted
<1>9. SamePositionals(s, t)
  BY <1>4, <1>5, OptionsArePositionalFree DEF SamePositionals, Params
<1> QED BY <1>4, <1>5, <1>6, <1>7, <1>8, <1>9 DEF RecordInv

(* An option that accepts values is opened with its count reset.           *)
Opened(s, o) == [onOptionStarted(s, o) EXCEPT !.active = o]

LEMMA OpenedInv ==
  ASSUME NEW S \in SUBSET Options, NEW s, RecordInv(s, S), s.active = NoOption,
         NEW o \in Options, Def[o].maxArgs # 0,
         NEW t, t = Opened(s, o)
  PROVE  /\ RecordInv(t, S \cup {o}) /\ t.result = s.result
         /\ t.active = o /\ SamePositionals(s, t)
         /\ t.current[o] = 0
<1>1. s \in States /\ o \in Params
  BY OptionsArePositionalFree DEF RecordInv
<1>2. PICK c \in [Params -> Nat] : c = [s.current EXCEPT ![o] = 0]
  BY <1>1, StateFields
<1>3. PICK u \in States : /\ u = [s EXCEPT !.current = c]
                          /\ onOptionStarted(s, o) = u
  BY <1>1, <1>2, WithCurrent DEF onOptionStarted
<1>4. /\ t \in States /\ t.current = c /\ t.active = o
      /\ t.result = s.result /\ t.total = s.total /\ t.assigned = s.assigned
  <2>1. /\ u.current = c /\ u.result = s.result /\ u.total = s.total
        /\ u.assigned = s.assigned
    BY <1>1, <1>3, WithCurrent
  <2>2. t = [u EXCEPT !.active = o]
    BY <1>3 DEF Opened
  <2>3. u \in States /\ o \in Options \cup {NoOption}
    OBVIOUS
  <2>4. /\ t \in States /\ t.active = o
        /\ t.current = u.current /\ t.total = u.total /\ t.assigned = u.assigned
        /\ t.target = u.target /\ t.result = u.result
    BY <2>2, <2>3 DEF States
  <2> QED BY <2>1, <2>4
<1>5. /\ c[o] = 0
      /\ \A p \in Params : p # o => c[p] = s.current[p]
  BY <1>1, <1>2, StateFields
<1>6. Bounded(t)
  <2> SUFFICES ASSUME NEW p \in Params, Def[p].maxArgs >= 0, ~isForwarded(p)
               PROVE  t.current[p] <= Capacity(p)
    BY DEF Bounded
  <2>1. CASE p = o
    BY <1>4, <1>5, <2>1, CapacityFacts
  <2>2. CASE p # o
    BY <1>4, <1>5, <2>2 DEF RecordInv, Bounded
  <2> QED BY <2>1, <2>2
<1>7. Reported(t, S \cup {o})
  <2> SUFFICES ASSUME NEW p \in S \cup {o}, p # t.active, ~isForwarded(p),
                      t.current[p] < Def[p].minArgs
               PROVE  [subject |-> p, code |-> "MISSING_ARGUMENT"] \in t.result.errors
    BY DEF Reported
  <2>1. p \in S /\ p # o /\ p \in Params
    BY <1>4, OptionsArePositionalFree
  <2>2. s.current[p] < Def[p].minArgs /\ p # s.active
    BY <1>4, <1>5, <2>1, OptionsArePositionalFree
  <2> QED BY <1>4, <2>1, <2>2 DEF RecordInv, Reported
<1>8. Accounted(t) /\ ResultContract(t.result) /\ Def[t.active].maxArgs # 0
  BY <1>4 DEF RecordInv, Accounted
<1>9. SamePositionals(s, t)
  BY <1>4, <1>5, OptionsArePositionalFree DEF SamePositionals, Params
<1> QED BY <1>4, <1>5, <1>6, <1>7, <1>8, <1>9 DEF RecordInv

(* startOption with an option that was found.                              *)
LEMMA BeginOptionInv ==
  ASSUME NEW S \in SUBSET Options, NEW s, RecordInv(s, S), s.active = NoOption,
         NEW o \in Options, NEW value \in Texts \cup {NoText},
         NEW t, t = beginOption(s, o, value)
  PROVE  /\ RecordInv(t, S \cup {o}) /\ Grows(s.result, t.result)
         /\ SamePositionals(s, t)
<1> DEFINE b    == onOptionStarted(s, o)
           flag == setValue(b, o, Def[o].flagValue)
           open == [b EXCEPT !.active = o]
           u    == IF willAcceptArgument(b, o) THEN open ELSE flag
           T    == S \cup {o}
<1>1. /\ s \in States /\ o \in Params /\ o \in Subjects /\ T \in SUBSET Options
      /\ "FLAG_PARAMETER" \in ErrorCodes \ {"EXIT_REQUESTED"}
  BY OptionsArePositionalFree, ParserErrorCodes DEF RecordInv
<1>2. b.current[o] = 0
  <2>1. PICK c \in [Params -> Nat] : c = [s.current EXCEPT ![o] = 0]
    BY <1>1, StateFields
  <2>2. b = [s EXCEPT !.current = c]
    BY <2>1 DEF onOptionStarted
  <2>3. b.current = c
    BY <1>1, <2>2, WithCurrent
  <2> QED BY <1>1, <2>1, <2>3, StateFields
<1>3. CASE Def[o].maxArgs = 0
  <2>1. u = flag
    BY <1>2, <1>3 DEF willAcceptArgument
  <2>2. /\ RecordInv(b, T) /\ b.result = s.result
        /\ b.active = NoOption /\ SamePositionals(s, b)
    BY <1>3, StartedInv
  <2>3. Def[o].flagValue \in Texts
    BY <1>1, DefFields
  <2> HIDE DEF b, T
  <2>4. Offered(b, flag, o)
    BY <1>1, <2>2, <2>3, SetValueOffered DEF RecordInv
  <2>5. b.current[o] + 1 <= Capacity(o)
    BY <1>1, <1>2, <1>3, CapacityFacts
  <2> HIDE DEF flag
  <2>6. RecordInv(flag, T)
    BY <1>1, <2>2, <2>4, <2>5, OfferedInv
  <2>7. SamePositionals(s, flag)
    <3>1. SamePositionals(b, flag)
      BY <2>2, <2>4, OfferedPositionals DEF RecordInv
    <3> QED BY <2>2, <3>1 DEF SamePositionals
  <2>8. Grows(s.result, flag.result)
    BY <2>2, <2>4 DEF Offered
  <2>9. CASE value = NoText
    <3>1. t = flag
      BY <2>1, <2>9 DEF beginOption, b, flag
    <3> QED BY <2>6, <2>7, <2>8, <3>1 DEF T
  <2>10. CASE value # NoText
    <3>1. flag.current[o] = 1
      <4>1. b.current \in [Params -> Nat]
        BY <2>2, StateFields DEF RecordInv
      <4> QED BY <1>1, <1>2, <2>4, <4>1 DEF Offered
    <3>2. ~willAcceptArgument(flag, o)
      BY <1>3, <3>1 DEF willAcceptArgument
    <3>3. t = addError(flag, o, "FLAG_PARAMETER")
      BY <2>1, <2>10, <3>2 DEF beginOption, b, flag
    <3>4. RecordInv(t, T) /\ Grows(flag.result, t.result) /\ SamePositionals(flag, t)
      BY <1>1, <2>6, <3>3, ErrorInv
    <3>5. Grows(s.result, t.result)
      BY <1>1, <2>8, <3>4, GrowsTrans, StateFields
    <3> QED BY <2>7, <3>4, <3>5 DEF SamePositionals, T
  <2> QED BY <2>9, <2>10
<1>4. CASE Def[o].maxArgs # 0
  <2>1. u = open
    BY <1>1, <1>2, <1>4, DefFields DEF willAcceptArgument
  <2>2. /\ RecordInv(open, T) /\ open.result = s.result
        /\ SamePositionals(s, open) /\ open.current[o] = 0
    <3>1. open = Opened(s, o)
      BY DEF Opened
    <3> HIDE DEF open
    <3> QED BY <1>4, <3>1, OpenedInv
  <2> HIDE DEF T
  <2>3. CASE value = NoText
    <3>1. t = open
      BY <2>1, <2>3 DEF beginOption
    <3> QED BY <1>1, <2>2, <3>1, GrowsRefl, StateFields DEF T
  <2>4. CASE value # NoText
    <3>1. willAcceptArgument(open, o)
      BY <1>1, <1>4, <2>2, DefFields DEF willAcceptArgument
    <3>2. t = setValue(open, o, value) /\ value \in Texts
      BY <2>1, <2>4, <3>1 DEF beginOption
    <3> HIDE DEF open
    <3>3. Offered(open, t, o)
      BY <1>1, <2>2, <3>2, SetValueOffered DEF RecordInv
    <3>4. Def[o].maxArgs >= 0 => open.current[o] + 1 <= Capacity(o)
      BY <1>1, <1>4, <2>2, CapacityFacts, DefFields
    <3>5. RecordInv(t, T)
      BY <1>1, <2>2, <3>3, <3>4, OfferedInv
    <3>6. SamePositionals(open, t)
      BY <2>2, <3>3, OfferedPositionals DEF RecordInv
    <3> QED BY <2>2, <3>3, <3>5, <3>6 DEF SamePositionals, Offered, T
  <2> QED BY <2>3, <2>4
<1> QED BY <1>3, <1>4

-----------------------------------------------------------------------------
(* What the targets hold.                                                  *)

ContentKinds == {"vector", "optional", "optvector"}

TargetOK(v, tgt) ==
  /\ \A i \in 1..Len(tgt.items) : tgt.items[i] \in AllowedTexts(v)
  /\ ValueKind[v] \in {"scalar", "vector"} => tgt.has
  /\ (ValueKind[v] = "optional" /\ tgt.has) => tgt.items # <<>>

HasContent(v, tgt) == tgt.has /\ (ValueKind[v] # "optvector" => tgt.items # <<>>)

Failed(o, r) ==
  \/ Def[o].action # "assign"
  \/ [subject |-> o, code |-> "CONVERSION_ERROR"] \in r.errors

(* A pass over a stream never complains about argv.                        *)
NoArgv(r) == \A e \in r.errors : e.code # "INVALID_ARGV"

(* t is s after o assigned its Value, whatever that did to the target.     *)
Stored(s, t, o) ==
  LET v == Def[o].value
  IN  /\ \A w \in Values : w # v => t.target[w] = s.target[w]
      /\ TargetOK(v, t.target[v])
      /\ \/ Failed(o, t.result)
         \/ ValueKind[v] \notin ContentKinds
         \/ HasContent(v, t.target[v])
      /\ NoArgv(s.result) => NoArgv(t.result)

LEMMA FlagValueAllowed ==
  ASSUME NEW o \in Params
  PROVE  Def[o].flagValue \in AllowedTexts(Def[o].value)
BY DEF AllowedTexts

LEMMA DefaultAllowed ==
  ASSUME NEW o \in Params
  PROVE  Def[o].default \in AllowedTexts(Def[o].value)
BY DEF AllowedTexts

LEMMA ChoiceAllowed ==
  ASSUME NEW o \in Params, NEW text \in Convertible[Def[o].value],
         isValidChoice(o, text)
  PROVE  text \in AllowedTexts(Def[o].value)
BY DEF AllowedTexts

LEMMA ZeroAllowed ==
  ASSUME NEW v
  PROVE  Zero \in AllowedTexts(v)
BY DEF AllowedTexts

LEMMA SingleOK ==
  ASSUME NEW v \in Values, NEW text \in AllowedTexts(v),
         NEW tgt, tgt = [has |-> TRUE, items |-> <<text>>]
  PROVE  TargetOK(v, tgt) /\ HasContent(v, tgt)
<1>1. tgt.has /\ tgt.items = <<text>>
  OBVIOUS
<1>2. Len(tgt.items) = 1 /\ tgt.items[1] = text /\ tgt.items # <<>>
  BY <1>1
<1>3. \A i \in 1..Len(tgt.items) : i = 1
  BY <1>2
<1> QED BY <1>1, <1>2, <1>3 DEF TargetOK, HasContent

LEMMA AppendFacts ==
  ASSUME NEW S, NEW q \in Seq(S), NEW x \in S
  PROVE  /\ Len(Append(q, x)) = Len(q) + 1 /\ Len(q) \in Nat
         /\ Append(q, x) # <<>> /\ Append(q, x)[Len(q) + 1] = x
         /\ \A i \in 1..Len(q) : Append(q, x)[i] = q[i]
OBVIOUS

LEMMA AppendOK ==
  ASSUME NEW v \in Values, NEW tgt \in Targets, TargetOK(v, tgt),
         NEW text \in Texts, text \in AllowedTexts(v),
         NEW x, x = [has |-> TRUE, items |-> Append(tgt.items, text)]
  PROVE  TargetOK(v, x) /\ HasContent(v, x)
<1>1. x.has /\ x.items = Append(tgt.items, text) /\ tgt.items \in Seq(Texts)
  BY DEF Targets
<1>2. /\ Len(x.items) = Len(tgt.items) + 1 /\ Len(tgt.items) \in Nat
      /\ x.items # <<>> /\ x.items[Len(tgt.items) + 1] = text
      /\ \A i \in 1..Len(tgt.items) : x.items[i] = tgt.items[i]
  BY <1>1, AppendFacts
<1>3. \A i \in 1..Len(tgt.items) : tgt.items[i] \in AllowedTexts(v)
  BY DEF TargetOK
<1>4. \A i \in 1..Len(x.items) : x.items[i] \in AllowedTexts(v)
  BY <1>2, <1>3
<1> QED BY <1>1, <1>2, <1>4 DEF TargetOK, HasContent

LEMMA StoredOK ==
  ASSUME NEW v \in Values, NEW tgt \in Targets, TargetOK(v, tgt),
         NEW text \in Texts, text \in AllowedTexts(v),
         NEW x, x = stored(v, tgt, text)
  PROVE  TargetOK(v, x) /\ (ValueKind[v] \in ContentKinds => HasContent(v, x))
<1>1. CASE ValueKind[v] \in {"scalar", "optional"}
  <2>1. x = [has |-> TRUE, items |-> <<text>>]
    BY <1>1 DEF stored
  <2> QED BY <2>1, SingleOK
<1>2. CASE ValueKind[v] \in {"vector", "optvector"}
  <2>1. x = [has |-> TRUE, items |-> Append(tgt.items, text)]
    BY <1>2 DEF stored
  <2> QED BY <2>1, AppendOK
<1>3. CASE ValueKind[v] \notin {"scalar", "optional", "vector", "optvector"}
  BY <1>3 DEF stored, ContentKinds
<1> QED BY <1>1, <1>2, <1>3

LEMMA InitialOK ==
  ASSUME NEW v \in Values
  PROVE  TargetOK(v, initialTarget(v))
<1>1. Zero \in AllowedTexts(v)
  BY ZeroAllowed
<1>2. CASE ValueKind[v] = "scalar"
  <2>1. initialTarget(v) = [has |-> TRUE, items |-> <<Zero>>]
    BY <1>2 DEF initialTarget
  <2> QED BY <1>1, <2>1, SingleOK
<1>3. CASE ValueKind[v] # "scalar"
  <2>1. /\ initialTarget(v).items = <<>>
        /\ ValueKind[v] = "vector" => initialTarget(v).has
        /\ ValueKind[v] = "optional" => ~initialTarget(v).has
    BY <1>3 DEF initialTarget
  <2> QED BY <1>3, <2>1 DEF TargetOK
<1> QED BY <1>2, <1>3

LEMMA TargetReplaced ==
  ASSUME NEW s \in States, NEW v \in Values, NEW x \in Targets,
         NEW t, t = [s EXCEPT !.target[v] = x]
  PROVE  /\ t.target[v] = x /\ t.result = s.result
         /\ \A w \in Values : w # v => t.target[w] = s.target[w]
<1>1. PICK f \in [Values -> Targets] : f = [s.target EXCEPT ![v] = x]
  BY StateFields
<1>2. t = [s EXCEPT !.target = f]
  BY <1>1
<1>3. t.target = f /\ t.result = s.result
  BY <1>2 DEF States
<1>4. s.target \in [Values -> Targets]
  BY StateFields
<1> QED BY <1>1, <1>3, <1>4

LEMMA AddErrorFrame ==
  ASSUME NEW s \in States, NEW subject \in Subjects, NEW code \in ErrorCodes,
         NEW t, t = addError(s, subject, code)
  PROVE  /\ t.target = s.target
         /\ t.result.errors = s.result.errors \cup {[subject |-> subject, code |-> code]}
         /\ code # "INVALID_ARGV" /\ NoArgv(s.result) => NoArgv(t.result)
<1> DEFINE r == addErrorTo(s.result, subject, code)
<1>1. /\ r \in Results
      /\ r.errors = s.result.errors \cup {[subject |-> subject, code |-> code]}
  BY StateFields, AddErrorFields
<1>2. t = [s EXCEPT !.result = r]
  BY DEF addError
<1> HIDE DEF r
<1>3. t.target = s.target /\ t.result = r
  BY <1>1, <1>2, WithResult
<1>4. code # "INVALID_ARGV" /\ NoArgv(s.result) => NoArgv(r)
  BY <1>1 DEF NoArgv
<1> QED BY <1>1, <1>3, <1>4

LEMMA AssignStored ==
  ASSUME NEW s \in States, NEW o \in Params, NEW text \in Texts,
         text = Def[o].flagValue \/ isValidChoice(o, text),
         TargetOK(Def[o].value, s.target[Def[o].value]),
         NEW t, t = assign(s, o, text)
  PROVE  Stored(s, t, o)
<1> DEFINE v == Def[o].value
<1>1. v \in Values /\ s.target[v] \in Targets
  BY DefFields, StateFields
<1>2. CASE ValueKind[v] = "void" \/ text \in Convertible[v]
  <2>1. PICK x : x = stored(v, s.target[v], text)
    OBVIOUS
  <2>2. x \in Targets /\ t = [s EXCEPT !.target[v] = x]
    BY <1>1, <1>2, <2>1, StoredType DEF assign
  <2>3. /\ t.target[v] = x /\ t.result = s.result
        /\ \A w \in Values : w # v => t.target[w] = s.target[w]
    BY <1>1, <2>2, TargetReplaced
  <2>4. TargetOK(v, x) /\ (ValueKind[v] \in ContentKinds => HasContent(v, x))
    <3>1. CASE ValueKind[v] = "void"
      BY <2>1, <3>1 DEF stored, ContentKinds
    <3>2. CASE text \in Convertible[v]
      <4>1. text \in AllowedTexts(v)
        BY <3>2, FlagValueAllowed, ChoiceAllowed
      <4> QED BY <1>1, <2>1, <4>1, StoredOK
    <3> QED BY <1>2, <3>1, <3>2
  <2> QED BY <2>3, <2>4 DEF Stored
<1>3. CASE ~(ValueKind[v] = "void" \/ text \in Convertible[v])
  <2>1. t = addError(s, o, "CONVERSION_ERROR")
    BY <1>3 DEF assign
  <2>2. o \in Subjects /\ "CONVERSION_ERROR" \in ErrorCodes
    BY ParserErrorCodes
  <2>3. /\ t.target = s.target
        /\ [subject |-> o, code |-> "CONVERSION_ERROR"] \in t.result.errors
        /\ NoArgv(s.result) => NoArgv(t.result)
    BY <2>1, <2>2, AddErrorFrame
  <2>4. Failed(o, t.result)
    BY <2>3 DEF Failed
  <2> QED BY <2>3, <2>4 DEF Stored
<1> QED BY <1>2, <1>3

LEMMA ExitFrame ==
  ASSUME NEW s \in States, NEW b \in Results, b.errors = s.result.errors,
         NEW t, t = [s EXCEPT !.result = requestExitIn(b)]
  PROVE  t.target = s.target /\ (NoArgv(s.result) => NoArgv(t.result))
<1>1. PICK u \in Results : u = [b EXCEPT !.exitRequested = TRUE]
  BY DEF Results
<1>2. u.errors = s.result.errors /\ requestExitIn(b) = addErrorTo(u, NoSubject, "EXIT_REQUESTED")
  BY <1>1 DEF Results, requestExitIn
<1> DEFINE r == requestExitIn(b)
<1>3. /\ r \in Results
      /\ r.errors = s.result.errors \cup {[subject |-> NoSubject, code |-> "EXIT_REQUESTED"]}
  BY <1>2, AddErrorFields DEF Subjects, ErrorCodes
<1> HIDE DEF r
<1>4. t.target = s.target /\ t.result = r
  BY <1>3, WithResult DEF r
<1>5. NoArgv(s.result) => NoArgv(r)
  BY <1>3 DEF NoArgv
<1> QED BY <1>4, <1>5

LEMMA RunActionStored ==
  ASSUME NEW s \in States, NEW o \in Params, NEW text \in Texts,
         text = Def[o].flagValue \/ isValidChoice(o, text),
         TargetOK(Def[o].value, s.target[Def[o].value]),
         NEW t, t = runAction(s, o, text)
  PROVE  Stored(s, t, o)
<1>1. CASE Def[o].action = "assign"
  BY <1>1, AssignStored DEF runAction
<1>2. CASE Def[o].action # "assign"
  <2>1. Failed(o, t.result) /\ s.result \in Results
    BY <1>2, StateFields DEF Failed
  <2>2. t.target = s.target /\ (NoArgv(s.result) => NoArgv(t.result))
    <3>1. CASE Def[o].action = "exit"
      <4>1. t = [s EXCEPT !.result = requestExitIn(s.result)]
        BY <3>1 DEF runAction
      <4> QED BY <2>1, <4>1, ExitFrame
    <3>2. CASE Def[o].action = "help"
      <4>1. PICK b \in Results : b = [s.result EXCEPT !.helpWasShown = TRUE]
        BY <2>1 DEF Results
      <4>2. t = [s EXCEPT !.result = requestExitIn(b)]
        BY <3>2, <4>1 DEF runAction
      <4>3. b.errors = s.result.errors
        BY <2>1, <4>1 DEF Results
      <4> QED BY <4>2, <4>3, ExitFrame
    <3>3. CASE Def[o].action \notin {"assign", "exit", "help"}
      <4>1. t = addError(s, o, "ACTION_ERROR")
        BY <3>3 DEF runAction
      <4>2. o \in Subjects /\ "ACTION_ERROR" \in ErrorCodes
        BY ParserErrorCodes
      <4> QED BY <4>1, <4>2, AddErrorFrame
    <3> QED BY <1>2, <3>1, <3>2, <3>3
  <2> QED BY <2>1, <2>2 DEF Stored
<1> QED BY <1>1, <1>2

(* setMissingValue has counted the assignment before.                      *)
LEMMA AssignMissingStored ==
  ASSUME NEW s \in States, NEW o \in Params, s.assigned[Def[o].value] > 0,
         TargetOK(Def[o].value, s.target[Def[o].value]),
         NEW t, t = assignMissing(s, o, Def[o].flagValue)
  PROVE  Stored(s, t, o)
<1> DEFINE v == Def[o].value
           tgt == s.target[v]
           u == assign(s, o, Def[o].flagValue)
<1>1. v \in Values /\ tgt \in Targets /\ s.assigned[v] \in Nat
  BY DefFields, StateFields
<1>2. Stored(s, u, o)
  BY AssignStored, DefFields
<1> HIDE DEF u
<1>3. CASE ValueKind[v] = "vector"
  <2>1. CASE tgt.items = <<>>
    BY <1>2, <1>3, <2>1 DEF assignMissing, u
  <2>2. CASE tgt.items # <<>>
    <3>1. t = s
      BY <1>3, <2>2 DEF assignMissing
    <3>2. HasContent(v, tgt)
      BY <1>3, <2>2 DEF TargetOK, HasContent
    <3> QED BY <3>1, <3>2 DEF Stored
  <2> QED BY <2>1, <2>2
<1>4. CASE ValueKind[v] = "optvector"
  <2>1. PICK x \in Targets : x = [has |-> TRUE, items |-> tgt.items]
    BY <1>1 DEF Targets
  <2>2. t = [s EXCEPT !.target[v] = x]
    BY <1>4, <2>1 DEF assignMissing
  <2>3. /\ t.target[v] = x /\ t.result = s.result
        /\ \A w \in Values : w # v => t.target[w] = s.target[w]
    BY <1>1, <2>2, TargetReplaced
  <2>4. TargetOK(v, x) /\ HasContent(v, x)
    BY <1>4, <2>1 DEF TargetOK, HasContent
  <2> QED BY <2>3, <2>4 DEF Stored
<1>5. CASE ValueKind[v] = "optional"
  <2>1. CASE tgt.has
    <3>1. t = s
      BY <1>5, <2>1 DEF assignMissing
    <3>2. HasContent(v, tgt)
      BY <1>5, <2>1 DEF TargetOK, HasContent
    <3> QED BY <3>1, <3>2 DEF Stored
  <2>2. CASE ~tgt.has
    <3>1. PICK x \in Targets : x = [has |-> TRUE, items |-> <<Zero>>]
      BY SingleTarget, DefinitionAssumption
    <3>2. t = [s EXCEPT !.target[v] = x]
      BY <1>5, <2>2, <3>1 DEF assignMissing
    <3>3. /\ t.target[v] = x /\ t.result = s.result
          /\ \A w \in Values : w # v => t.target[w] = s.target[w]
      BY <1>1, <3>2, TargetReplaced
    <3>4. TargetOK(v, x) /\ HasContent(v, x)
      BY <1>1, <3>1, ZeroAllowed, SingleOK
    <3> QED BY <3>3, <3>4 DEF Stored
  <2> QED BY <2>1, <2>2
<1>6. CASE ValueKind[v] \notin {"vector", "optvector", "optional"}
  <2>1. t = s
    BY <1>1, <1>6 DEF assignMissing
  <2> QED BY <1>6, <2>1 DEF Stored, ContentKinds
<1> QED BY <1>3, <1>4, <1>5, <1>6

(* The values of all parameters.  A target without a value is as it was    *)
(* initialised; a target with a value has content, unless a parameter that *)
(* shares it has failed; a parameter that took a value has assigned its    *)
(* Value, unless the choices refused the text or an option without a       *)
(* target closed on its own.                                               *)
ValueOK(s, o) ==
  LET v == Def[o].value
  IN  /\ TargetOK(v, s.target[v])
      /\ s.assigned[v] = 0 => s.target[v] = initialTarget(v)
      /\ (/\ ValueKind[v] \in ContentKinds
          /\ s.assigned[v] > 0
          /\ \A p \in Params : Def[p].value = v => ~Failed(p, s.result))
         => HasContent(v, s.target[v])
      /\ (s.total[o] > 0 /\ (o \in Positionals \/ ValueKind[v] # "void"))
         => \/ s.assigned[v] > 0
            \/ [subject |-> o, code |-> "INVALID_CHOICE"] \in s.result.errors
      /\ s.current[o] <= s.total[o]

ValuesOK(s) == \A o \in Params : ValueOK(s, o)

(* Every option that occurred has a value, or is still active, or has      *)
(* forwarded values in P that are still to be stored, or was reported.     *)
Used(s, S, P) ==
  \A o \in S : \/ s.total[o] > 0
               \/ o = s.active
               \/ o \in P
               \/ [subject |-> o, code |-> "MISSING_ARGUMENT"] \in s.result.errors

Faithful(s, S, P) ==
  /\ ValuesOK(s)
  /\ Used(s, S, P)
  /\ NoArgv(s.result)

(* Whatever only adds errors and resets the count of an occurrence keeps   *)
(* the values.                                                             *)
LEMMA ValuesKept ==
  ASSUME NEW s, NEW t, ValuesOK(s),
         t.target = s.target, t.assigned = s.assigned, t.total = s.total,
         \A p \in Params : t.current[p] <= t.total[p],
         s.result.errors \subseteq t.result.errors
  PROVE  ValuesOK(t)
<1> SUFFICES ASSUME NEW o \in Params PROVE ValueOK(t, o)
  BY DEF ValuesOK
<1> DEFINE v == Def[o].value
<1>1. ValueOK(s, o)
  BY DEF ValuesOK
<1>2. (\A p \in Params : Def[p].value = v => ~Failed(p, t.result))
        => \A p \in Params : Def[p].value = v => ~Failed(p, s.result)
  BY DEF Failed
<1> QED BY <1>1, <1>2 DEF ValueOK

(* The parameter o takes a value: either its Value is assigned, or nothing *)
(* is and there is a reason.                                               *)
Took(s, t, o) ==
  LET v == Def[o].value
  IN  \/ t.assigned[v] > 0 /\ Stored(s, t, o)
      \/ /\ t.assigned = s.assigned /\ t.target = s.target
         /\ NoArgv(s.result) => NoArgv(t.result)
         /\ \/ [subject |-> o, code |-> "INVALID_CHOICE"] \in t.result.errors
            \/ o \in Options /\ ValueKind[v] = "void"

LEMMA OfferedValues ==
  ASSUME NEW s \in States, NEW t, NEW o \in Params,
         ValuesOK(s), Offered(s, t, o), Took(s, t, o)
  PROVE  ValuesOK(t)
<1> SUFFICES ASSUME NEW p \in Params PROVE ValueOK(t, p)
  BY DEF ValuesOK
<1> DEFINE v == Def[o].value
           w == Def[p].value
<1>1. /\ v \in Values /\ w \in Values
      /\ s.current \in [Params -> Nat] /\ s.total \in [Params -> Nat]
      /\ s.assigned \in [Values -> Nat]
  BY DefFields, StateFields
<1>2. /\ t.current = [s.current EXCEPT ![o] = @ + 1]
      /\ t.total = [s.total EXCEPT ![o] = @ + 1]
      /\ s.result.errors \subseteq t.result.errors
      /\ \A x \in Values : x # v => t.assigned[x] = s.assigned[x]
  BY ErrorsGrow DEF Offered
<1>3. ValueOK(s, p)
  BY DEF ValuesOK
<1>4. t.current[p] <= t.total[p]
  BY <1>1, <1>2, <1>3 DEF ValueOK
<1>5. p # o => t.total[p] = s.total[p]
  BY <1>1, <1>2
<1>6. (\A x \in Params : Def[x].value = w => ~Failed(x, t.result))
        => \A x \in Params : Def[x].value = w => ~Failed(x, s.result)
  BY <1>2 DEF Failed
<1>7. ASSUME t.assigned[w] = s.assigned[w], t.target[w] = s.target[w], p # o
      PROVE  ValueOK(t, p)
  BY <1>2, <1>3, <1>4, <1>5, <1>6, <1>7 DEF ValueOK
<1>8. CASE t.assigned[v] > 0 /\ Stored(s, t, o)
  <2>1. CASE w = v
    <3>1. TargetOK(w, t.target[w]) /\ t.assigned[w] > 0 /\ t.assigned[w] # 0
      BY <1>8, <2>1 DEF Stored
    <3>2. (/\ ValueKind[w] \in ContentKinds
           /\ \A x \in Params : Def[x].value = w => ~Failed(x, t.result))
          => HasContent(w, t.target[w])
      BY <1>8, <2>1 DEF Stored
    <3> QED BY <1>4, <3>1, <3>2 DEF ValueOK
  <2>2. CASE w # v
    BY <1>1, <1>2, <1>7, <1>8, <2>2 DEF Stored
  <2> QED BY <2>1, <2>2
<1>9. CASE /\ t.assigned = s.assigned /\ t.target = s.target
           /\ \/ [subject |-> o, code |-> "INVALID_CHOICE"] \in t.result.errors
              \/ o \in Options /\ ValueKind[v] = "void"
  <2>1. CASE p # o
    BY <1>7, <1>9, <2>1
  <2>2. CASE p = o
    <3>1. \/ [subject |-> p, code |-> "INVALID_CHOICE"] \in t.result.errors
          \/ p \notin Positionals /\ ValueKind[w] = "void"
      BY <1>9, <2>2, OptionsArePositionalFree
    <3> QED BY <1>3, <1>4, <1>6, <1>9, <3>1 DEF ValueOK
  <2> QED BY <2>1, <2>2
<1> QED BY <1>8, <1>9 DEF Took

(* The parameter has counted the argument, its Value the assignment.       *)
LEMMA BothCounted ==
  ASSUME NEW s \in States, NEW o \in Params
  PROVE  \E c \in States, a \in States :
           /\ c = countArgument(s, o)
           /\ a = [c EXCEPT !.assigned[Def[o].value] = @ + 1]
           /\ c.result = s.result /\ c.assigned = s.assigned /\ c.target = s.target
           /\ a.result = s.result /\ a.target = s.target
           /\ a.assigned[Def[o].value] > 0
<1> DEFINE v == Def[o].value
           c == countArgument(s, o)
           a == [c EXCEPT !.assigned[v] = @ + 1]
<1>1. /\ c \in States
      /\ c.result = s.result /\ c.active = s.active
      /\ c.current = [s.current EXCEPT ![o] = @ + 1]
      /\ c.total = [s.total EXCEPT ![o] = @ + 1]
      /\ c.assigned = s.assigned /\ c.target = s.target
  BY CountArgumentFrame
<1>2. v \in Values
  BY DefFields
<1> HIDE DEF c, v
<1>3. /\ a \in States /\ a.result = c.result /\ a.target = c.target
      /\ a.assigned[v] > 0
  <2>1. PICK f \in [Values -> Nat] : f = [c.assigned EXCEPT ![v] = @ + 1]
    BY <1>1, <1>2, StateFields, Increment
  <2>2. a = [c EXCEPT !.assigned = f]
    BY <2>1
  <2>3. f[v] > 0
    BY <1>1, <1>2, <2>1, StateFields
  <2> QED BY <1>1, <2>1, <2>2, <2>3, WithAssigned
<1> HIDE DEF a
<1> QED BY <1>1, <1>3 DEF a, c, v

LEMMA SetValueTook ==
  ASSUME NEW s \in States, NEW o \in Params, NEW text \in Texts, ValuesOK(s),
         NEW t, t = setValue(s, o, text)
  PROVE  Took(s, t, o)
<1> DEFINE v == Def[o].value
<1>1. PICK c \in States, a \in States :
        /\ c = countArgument(s, o)
        /\ a = [c EXCEPT !.assigned[v] = @ + 1]
        /\ c.result = s.result /\ c.assigned = s.assigned /\ c.target = s.target
        /\ a.result = s.result /\ a.target = s.target
        /\ a.assigned[v] > 0
  BY BothCounted
<1>2. CASE isValidChoice(o, text)
  <2>1. t = runAction(a, o, text)
    BY <1>1, <1>2 DEF setValue
  <2>2. TargetOK(v, a.target[v])
    BY <1>1 DEF ValuesOK, ValueOK
  <2>3. Stored(a, t, o)
    BY <1>2, <2>1, <2>2, RunActionStored
  <2>4. Executed(a, t)
    BY <2>1, RunActionExecuted
  <2>5. t.assigned[v] > 0
    BY <1>1, <2>4 DEF Executed
  <2>6. Stored(s, t, o)
    BY <1>1, <2>3 DEF Stored
  <2> QED BY <2>5, <2>6 DEF Took
<1>3. CASE ~isValidChoice(o, text)
  <2>1. t = addError(c, o, "INVALID_CHOICE")
    BY <1>1, <1>3 DEF setValue
  <2>2. o \in Subjects /\ "INVALID_CHOICE" \in ErrorCodes \ {"EXIT_REQUESTED"}
    BY ParserErrorCodes
  <2>3. /\ t.target = c.target
        /\ [subject |-> o, code |-> "INVALID_CHOICE"] \in t.result.errors
        /\ NoArgv(c.result) => NoArgv(t.result)
    BY <2>1, <2>2, AddErrorFrame
  <2>4. Executed(c, t)
    BY <2>1, <2>2, AddErrorExecuted
  <2> QED BY <1>1, <2>3, <2>4 DEF Took, Executed
<1> QED BY <1>2, <1>3

LEMMA AutoSetMissingTook ==
  ASSUME NEW s \in States, NEW o \in Options, ValuesOK(s),
         NEW t, t = autoSetMissingValue(s, o)
  PROVE  Took(s, t, o)
<1> DEFINE v == Def[o].value
<1>0. o \in Params
  BY OptionsArePositionalFree
<1>1. PICK c \in States, a \in States :
        /\ c = countArgument(s, o)
        /\ a = [c EXCEPT !.assigned[v] = @ + 1]
        /\ c.result = s.result /\ c.assigned = s.assigned /\ c.target = s.target
        /\ a.result = s.result /\ a.target = s.target
        /\ a.assigned[v] > 0
  BY <1>0, BothCounted
<1>2. CASE ValueKind[v] = "void"
  <2>1. t = c
    BY <1>1, <1>2 DEF autoSetMissingValue, setMissingValue
  <2> QED BY <1>1, <1>2, <2>1 DEF Took
<1>3. CASE ValueKind[v] # "void"
  <2>1. t = assignMissing(a, o, Def[o].flagValue)
    BY <1>1, <1>3 DEF autoSetMissingValue, setMissingValue
  <2>2. TargetOK(v, a.target[v]) /\ Def[o].flagValue \in Texts
    BY <1>0, <1>1, DefFields DEF ValuesOK, ValueOK
  <2>3. Stored(a, t, o)
    BY <1>0, <1>1, <2>1, <2>2, AssignMissingStored
  <2>4. Executed(a, t)
    BY <1>0, <2>1, <2>2, AssignMissingExecuted
  <2>5. t.assigned[v] > 0
    BY <1>1, <2>4 DEF Executed
  <2>6. Stored(s, t, o)
    BY <1>1, <2>3 DEF Stored
  <2> QED BY <2>5, <2>6 DEF Took
<1> QED BY <1>2, <1>3

LEMMA OfferedFaithful ==
  ASSUME NEW S \in SUBSET Options, NEW P, NEW s \in States, Faithful(s, S, P),
         NEW t, NEW o \in Params, Offered(s, t, o), Took(s, t, o)
  PROVE  Faithful(t, S, P \ {o}) /\ t.total[o] > 0
<1>1. /\ s.total \in [Params -> Nat] /\ t.active = s.active
      /\ t.total = [s.total EXCEPT ![o] = @ + 1]
      /\ s.result.errors \subseteq t.result.errors
  BY StateFields, ErrorsGrow DEF Offered
<1>2. t.total[o] > 0 /\ \A p \in S : p # o => t.total[p] = s.total[p]
  BY <1>1, OptionsArePositionalFree
<1>3. Used(t, S, P \ {o})
  <2> SUFFICES ASSUME NEW p \in S, p # o
               PROVE  \/ t.total[p] > 0 \/ p = t.active \/ p \in P \ {o}
                      \/ [subject |-> p, code |-> "MISSING_ARGUMENT"] \in t.result.errors
    BY <1>2 DEF Used
  <2> QED BY <1>1, <1>2 DEF Faithful, Used
<1>4. NoArgv(t.result)
  BY DEF Took, Stored, Faithful
<1>5. ValuesOK(t)
  BY OfferedValues DEF Faithful
<1> QED BY <1>2, <1>3, <1>4, <1>5 DEF Faithful

LEMMA UsedMore ==
  ASSUME NEW S, NEW P, NEW Q, P \subseteq Q, NEW s, Faithful(s, S, P)
  PROVE  Faithful(s, S, Q)
BY DEF Faithful, Used

LEMMA SetValueFaithful ==
  ASSUME NEW S \in SUBSET Options, NEW P, NEW s \in States, Faithful(s, S, P),
         NEW o \in Params, NEW text \in Texts, NEW t, t = setValue(s, o, text)
  PROVE  Faithful(t, S, P \ {o}) /\ t.total[o] > 0
<1>1. Took(s, t, o) /\ Offered(s, t, o)
  BY SetValueTook, SetValueOffered DEF Faithful
<1> QED BY <1>1, OfferedFaithful

LEMMA AddErrorFaithful ==
  ASSUME NEW S, NEW P, NEW s \in States, Faithful(s, S, P),
         NEW subject \in Subjects,
         NEW code \in ErrorCodes \ {"EXIT_REQUESTED", "INVALID_ARGV"},
         NEW t, t = addError(s, subject, code)
  PROVE  Faithful(t, S, P)
<1>1. /\ t.current = s.current /\ t.total = s.total /\ t.assigned = s.assigned
      /\ t.active = s.active
  BY AddErrorExecuted DEF Executed
<1>2. /\ t.target = s.target /\ s.result.errors \subseteq t.result.errors
      /\ NoArgv(s.result) => NoArgv(t.result)
  BY AddErrorFrame
<1>3. ValuesOK(t)
  BY <1>1, <1>2, ValuesKept DEF Faithful, ValuesOK, ValueOK
<1> QED BY <1>1, <1>2, <1>3 DEF Faithful, Used

(* Removing the active option, which has a value or was reported.          *)
LEMMA DeactivateFaithful ==
  ASSUME NEW S \in SUBSET Options, NEW P, NEW s \in States, Faithful(s, S, P),
         s.active \in S =>
           \/ s.total[s.active] > 0
           \/ [subject |-> s.active, code |-> "MISSING_ARGUMENT"] \in s.result.errors,
         NEW t, t = [s EXCEPT !.active = NoOption]
  PROVE  Faithful(t, S, P)
<1>1. /\ t.result = s.result /\ t.current = s.current /\ t.total = s.total
      /\ t.assigned = s.assigned /\ t.target = s.target
  BY WithActive
<1>2. ValuesOK(t)
  BY <1>1, ValuesKept DEF Faithful, ValuesOK, ValueOK
<1>3. Used(t, S, P)
  BY <1>1 DEF Faithful, Used
<1> QED BY <1>1, <1>2, <1>3 DEF Faithful

LEMMA CloseOptionFaithful ==
  ASSUME NEW S \in SUBSET Options, NEW P, NEW s, RecordInv(s, S), Faithful(s, S, P),
         NEW t, t = closeOption(s)
  PROVE  Faithful(t, S, P)
<1> DEFINE o == s.active
<1>1. s \in States
  BY DEF RecordInv
<1>2. CASE o = NoOption
  BY <1>2 DEF closeOption, haveActiveOption
<1>3. CASE o # NoOption
  <2>1. o \in Options /\ o \in Params
    BY <1>1, <1>3, StateFields, OptionsArePositionalFree
  <2>2. /\ s.current[o] \in Nat /\ s.total[o] \in Nat /\ Def[o].minArgs \in Nat
        /\ Def[o].maxArgs \in Nat \cup {-1} /\ Def[o].maxArgs # 0
        /\ s.current[o] <= s.total[o]
    BY <1>1, <1>3, <2>1, StateFields, DefFields
       DEF RecordInv, Faithful, ValuesOK, ValueOK
  <2>3. CASE needsMoreArguments(s, o)
    <3>1. PICK u : u = addError(s, o, "MISSING_ARGUMENT")
      OBVIOUS
    <3>2. /\ o \in Subjects
          /\ "MISSING_ARGUMENT" \in ErrorCodes \ {"EXIT_REQUESTED"}
          /\ "MISSING_ARGUMENT" \in ErrorCodes \ {"EXIT_REQUESTED", "INVALID_ARGV"}
      BY <2>1, ParserErrorCodes
    <3>3. t = [u EXCEPT !.active = NoOption]
      BY <1>3, <2>3, <3>1 DEF closeOption, haveActiveOption
    <3>4. /\ Executed(s, u)
          /\ [subject |-> o, code |-> "MISSING_ARGUMENT"] \in u.result.errors
      BY <1>1, <3>1, <3>2, AddErrorExecuted
    <3>5. Faithful(u, S, P)
      BY <1>1, <3>1, <3>2, AddErrorFaithful
    <3>6. u \in States /\ u.active = o
      BY <3>4 DEF Executed
    <3> QED BY <3>3, <3>4, <3>5, <3>6, DeactivateFaithful
  <2>4. CASE /\ ~needsMoreArguments(s, o)
             /\ willAcceptArgument(s, o) /\ ~wasAssignedThroughThisOption(s, o)
    <3>1. PICK u : u = autoSetMissingValue(s, o)
      OBVIOUS
    <3>2. t = [u EXCEPT !.active = NoOption]
      BY <1>3, <2>4, <3>1 DEF closeOption, haveActiveOption
    <3>3. Offered(s, u, o) /\ Took(s, u, o)
      BY <1>1, <2>1, <3>1, AutoSetMissingValueOffered, AutoSetMissingTook DEF Faithful
    <3>4. Faithful(u, S, P \ {o}) /\ u.total[o] > 0
      BY <1>1, <2>1, <3>3, OfferedFaithful
    <3>5. Faithful(u, S, P)
      BY <3>4, UsedMore
    <3>6. u \in States /\ u.active = o
      BY <3>3 DEF Offered
    <3> QED BY <3>2, <3>4, <3>5, <3>6, DeactivateFaithful
  <2>5. CASE /\ ~needsMoreArguments(s, o)
             /\ ~(willAcceptArgument(s, o) /\ ~wasAssignedThroughThisOption(s, o))
    <3>1. t = [s EXCEPT !.active = NoOption]
      BY <1>3, <2>5 DEF closeOption, haveActiveOption
    <3>2. s.total[o] > 0
      BY <2>2, <2>5 DEF willAcceptArgument, wasAssignedThroughThisOption
    <3> QED BY <1>1, <3>1, <3>2, DeactivateFaithful
  <2> QED BY <2>3, <2>4, <2>5
<1> QED BY <1>2, <1>3

(* A new occurrence has no value yet.                                      *)
LEMMA StartedFaithful ==
  ASSUME NEW S \in SUBSET Options, NEW P, NEW s \in States, Faithful(s, S, P),
         NEW o \in Options, NEW t, t = onOptionStarted(s, o)
  PROVE  t \in States /\ t.active = s.active /\ t.current[o] = 0 /\ Faithful(t, S, P)
<1>0. o \in Params
  BY OptionsArePositionalFree
<1>1. PICK c \in [Params -> Nat] : c = [s.current EXCEPT ![o] = 0]
  BY <1>0, StateFields
<1>2. t = [s EXCEPT !.current = c]
  BY <1>1 DEF onOptionStarted
<1>3. /\ t \in States /\ t.current = c
      /\ t.result = s.result /\ t.active = s.active /\ t.total = s.total
      /\ t.assigned = s.assigned /\ t.target = s.target
  BY <1>2, WithCurrent
<1>4. s.current \in [Params -> Nat] /\ s.total \in [Params -> Nat]
  BY StateFields
<1>5. t.current[o] = 0 /\ \A p \in Params : p # o => t.current[p] = s.current[p]
  BY <1>0, <1>1, <1>3, <1>4
<1>6. \A p \in Params : s.current[p] <= s.total[p]
  BY DEF Faithful, ValuesOK, ValueOK
<1>7. \A p \in Params : t.current[p] <= t.total[p]
  <2> SUFFICES ASSUME NEW p \in Params PROVE t.current[p] <= t.total[p]
    OBVIOUS
  <2>1. CASE p = o
    BY <1>3, <1>4, <1>5, <2>1
  <2>2. CASE p # o
    BY <1>3, <1>5, <1>6, <2>2
  <2> QED BY <2>1, <2>2
<1>8. ValuesOK(t)
  BY <1>3, <1>7, ValuesKept DEF Faithful
<1>9. Used(t, S, P)
  BY <1>3 DEF Faithful, Used
<1> QED BY <1>3, <1>5, <1>8, <1>9 DEF Faithful

(* An option that is still waiting for its value may count as started.      *)
LEMMA WaitingStarted ==
  ASSUME NEW S, NEW P, NEW s, Faithful(s, S, P), NEW o
  PROVE  Faithful(s, S \cup {o}, P \cup {o})
BY DEF Faithful, Used

LEMMA OpenedFaithful ==
  ASSUME NEW S \in SUBSET Options, NEW P, NEW s \in States, Faithful(s, S, P),
         s.active = NoOption, NEW o \in Options, NEW t, t = Opened(s, o)
  PROVE  Faithful(t, S \cup {o}, P)
<1>1. PICK u : u = onOptionStarted(s, o)
  OBVIOUS
<1>2. u \in States /\ u.active = NoOption /\ Faithful(u, S, P)
  <2>1. u \in States /\ u.active = s.active /\ u.current[o] = 0 /\ Faithful(u, S, P)
    BY <1>1, StartedFaithful
  <2> QED BY <2>1
<1>3. t = [u EXCEPT !.active = o]
  BY <1>1 DEF Opened
<1>4. /\ t.active = o
      /\ t.result = u.result /\ t.current = u.current /\ t.total = u.total
      /\ t.assigned = u.assigned /\ t.target = u.target
  BY <1>2, <1>3, WithActive
<1>5. ValuesOK(t)
  BY <1>2, <1>4, ValuesKept DEF Faithful, ValuesOK, ValueOK
<1>6. \A p \in S : p # u.active
  BY <1>2, OptionsArePositionalFree
<1>7. Used(t, S \cup {o}, P)
  BY <1>2, <1>4, <1>6 DEF Faithful, Used
<1> QED BY <1>2, <1>4, <1>5, <1>7 DEF Faithful

LEMMA BeginOptionFaithful ==
  ASSUME NEW S \in SUBSET Options, NEW P, NEW s, RecordInv(s, S), Faithful(s, S, P),
         s.active = NoOption,
         NEW o \in Options, NEW value \in Texts \cup {NoText},
         NEW t, t = beginOption(s, o, value)
  PROVE  Faithful(t, S \cup {o}, P)
<1> DEFINE T == S \cup {o}
<1>0. /\ s \in States /\ o \in Params /\ o \in Subjects /\ T \in SUBSET Options
      /\ "FLAG_PARAMETER" \in ErrorCodes \ {"EXIT_REQUESTED", "INVALID_ARGV"}
      /\ Def[o].flagValue \in Texts
      /\ Def[o].maxArgs \in Nat \cup {-1}
  BY OptionsArePositionalFree, ParserErrorCodes, DefFields DEF RecordInv
<1>1. PICK b : b = onOptionStarted(s, o)
  OBVIOUS
<1>2. b \in States /\ b.active = s.active /\ b.current[o] = 0 /\ Faithful(b, S, P)
  BY <1>0, <1>1, StartedFaithful
<1>3. CASE Def[o].maxArgs = 0
  <2>1. PICK flag : flag = setValue(b, o, Def[o].flagValue)
    OBVIOUS
  <2>2. Offered(b, flag, o)
    BY <1>0, <1>2, <2>1, SetValueOffered
  <2>3. Faithful(flag, T, P)
    <3>1. Faithful(b, T, P \cup {o})
      BY <1>2, WaitingStarted
    <3>2. Faithful(flag, T, (P \cup {o}) \ {o})
      BY <1>0, <1>2, <2>1, <3>1, SetValueFaithful
    <3> QED BY <3>2, UsedMore
  <2>4. flag.current[o] = 1 /\ flag \in States
    <3>1. b.current \in [Params -> Nat]
      BY <1>2, StateFields
    <3> QED BY <1>0, <1>2, <2>2, <3>1 DEF Offered
  <2>5. ~willAcceptArgument(b, o) /\ ~willAcceptArgument(flag, o)
    BY <1>2, <1>3, <2>4 DEF willAcceptArgument
  <2>6. t = IF value = NoText THEN flag ELSE addError(flag, o, "FLAG_PARAMETER")
    BY <1>1, <2>1, <2>5 DEF beginOption
  <2> HIDE DEF T
  <2>7. Faithful(addError(flag, o, "FLAG_PARAMETER"), T, P)
    BY <1>0, <2>3, <2>4, AddErrorFaithful
  <2> QED BY <2>3, <2>6, <2>7 DEF T
<1>4. CASE Def[o].maxArgs # 0
  <2>1. PICK open : open = Opened(s, o)
    OBVIOUS
  <2>2. /\ open \in States /\ open.current[o] = 0
    <3>1. RecordInv(open, S \cup {o}) /\ open.current[o] = 0
      BY <1>0, <1>4, <2>1, OpenedInv
    <3> QED BY <3>1 DEF RecordInv
  <2>3. Faithful(open, T, P)
    BY <1>0, <2>1, OpenedFaithful
  <2>4. willAcceptArgument(b, o) /\ willAcceptArgument(open, o)
    BY <1>0, <1>2, <1>4, <2>2 DEF willAcceptArgument
  <2>5. t = IF value = NoText THEN open ELSE setValue(open, o, value)
    BY <1>1, <2>1, <2>4 DEF beginOption, Opened
  <2> HIDE DEF T
  <2>6. CASE value = NoText
    BY <2>3, <2>5, <2>6 DEF T
  <2>7. CASE value # NoText
    <3>1. Faithful(t, T, P \ {o})
      BY <1>0, <2>2, <2>3, <2>5, <2>7, SetValueFaithful
    <3> QED BY <3>1, UsedMore DEF T
  <2> QED BY <2>6, <2>7
<1> QED BY <1>3, <1>4

(* A step that only rewrites the result.                                   *)
LEMMA ResultFaithful ==
  ASSUME NEW S, NEW P, NEW s \in States, Faithful(s, S, P),
         NEW r \in Results, s.result.errors \subseteq r.errors, NoArgv(r),
         NEW t, t = [s EXCEPT !.result = r]
  PROVE  Faithful(t, S, P)
<1>1. /\ t.result = r
      /\ t.active = s.active /\ t.current = s.current /\ t.total = s.total
      /\ t.assigned = s.assigned /\ t.target = s.target
  BY WithResult
<1>2. ValuesOK(t)
  BY <1>1, ValuesKept DEF Faithful, ValuesOK, ValueOK
<1> QED BY <1>1, <1>2 DEF Faithful, Used

-----------------------------------------------------------------------------
(***************************************************************************)
(* Theorems about Parser for every definition, every set of arguments and  *)
(* every bound.  The invariants are not inductive one by one: a value may  *)
(* be stored only where there is room, which needs the bounds of the       *)
(* active option, the order of the positional parameters and the kind of   *)
(* the option whose forwarded values wait in pieces.  IInv collects them.  *)
(***************************************************************************)
(* The positional parameters before pos are full, those after it unused;   *)
(* their count is never reset.                                             *)
Filled(s, pos) ==
  /\ \A p \in Positionals : s.current[p] = s.total[p]
  /\ \A i \in 1..Len(Positional) : i < pos => ~willAcceptArgument(s, Positional[i])
  /\ \A i \in 1..Len(Positional) : i > pos => s.total[Positional[i]] = 0

Pending == [option : {o \in Options : isForwarded(o)}, text : Texts]

Occurrences == [option : Options \cup {NoOption}, values : Nat]

CursorOK ==
  /\ mIgnoreOptions \in BOOLEAN
  /\ mPosition \in 1..(Len(Positional) + 1)
  /\ depth \in 0..(MaxIncludeDepth + 1)
  /\ letters \in Seq(Names)
  /\ pieces \in Seq(Pending)
  /\ pc \in ProgramCounters
  /\ consumed \in 0..MaxArguments
  /\ started \in SUBSET Options
  /\ latest \in Occurrences

IInv ==
  /\ RecordInv(State, started)
  /\ Filled(State, mPosition)
  /\ CursorOK

(* What a step does to the record, the history and the result.             *)
Advances(t) ==
  /\ Becomes(t)
  /\ RecordInv(t, started')
  /\ Filled(t, mPosition')
  /\ Grows(mResult, t.result)

-----------------------------------------------------------------------------
(* Small facts                                                             *)

LEMMA BecomesState ==
  ASSUME NEW t, t \in States, Becomes(t)
  PROVE  State' = t
BY DEF States, State, Becomes

LEMMA StateParts ==
  /\ State.active = mpActiveOption /\ State.current = mCurrentAssignCount
  /\ State.total = mTotalAssignCount /\ State.assigned = mAssignCount
  /\ State.target = mTarget /\ State.result = mResult
BY DEF State

LEMMA FindOption ==
  ASSUME NEW name
  PROVE  findOption(name) \in Options \cup {NoOption}
BY DEF findOption

LEMMA FilledKept ==
  ASSUME NEW s, NEW t, NEW pos, Filled(s, pos), SamePositionals(s, t)
  PROVE  Filled(t, pos)
<1>1. \A i \in 1..Len(Positional) : Positional[i] \in Positionals
  BY DEF Positionals
<1> QED BY <1>1 DEF Filled, SamePositionals, willAcceptArgument

LEMMA AdvancesRecord ==
  ASSUME NEW t, Advances(t)
  PROVE  /\ RecordInv(State, started)' /\ Filled(State, mPosition)'
         /\ Grows(mResult, mResult')
<1>1. t \in States
  BY DEF Advances, RecordInv
<1>2. State' = t
  BY <1>1, BecomesState DEF Advances
<1>3. mResult' = t.result
  BY DEF Advances, Becomes
<1>4. RecordInv(State', started') /\ Filled(State', mPosition')
  BY <1>2 DEF Advances
<1> QED BY <1>3, <1>4 DEF Advances, RecordInv, Filled, Bounded, Accounted,
             Reported, willAcceptArgument

LEMMA StateUnchanged ==
  ASSUME IInv, Becomes(State), UNCHANGED <<started, mPosition>>
  PROVE  Advances(State)
BY GrowsRefl, StateFields, StateParts DEF Advances, IInv, RecordInv

(* A step of the code that only rewrites the result.                       *)
LEMMA ResultStepInv ==
  ASSUME NEW S \in SUBSET Options, NEW s, RecordInv(s, S),
         NEW r, Grows(s.result, r),
         NEW t, t = [s EXCEPT !.result = r]
  PROVE  RecordInv(t, S) /\ SamePositionals(s, t) /\ t.result = r
<1>1. s \in States /\ r \in Results /\ ResultContract(r)
      /\ s.result.errors \subseteq r.errors
  BY ErrorsGrow DEF RecordInv, Grows
<1>2. /\ t \in States /\ t.result = r
      /\ t.active = s.active /\ t.current = s.current /\ t.total = s.total
      /\ t.assigned = s.assigned
  BY <1>1, WithResult
<1>3. Bounded(t) /\ Accounted(t) /\ Reported(t, S)
      /\ (t.active # NoOption => Def[t.active].maxArgs # 0)
  BY <1>1, <1>2 DEF RecordInv, Bounded, Accounted, Reported
<1> QED BY <1>1, <1>2, <1>3 DEF RecordInv, SamePositionals

LEMMA SetValueInv ==
  ASSUME NEW S \in SUBSET Options, NEW s, RecordInv(s, S),
         NEW o \in Params, NEW text \in Texts,
         (Def[o].maxArgs >= 0 /\ ~isForwarded(o))
           => s.current[o] + 1 <= Capacity(o),
         NEW t, t = setValue(s, o, text)
  PROVE  RecordInv(t, S) /\ Offered(s, t, o) /\ Grows(s.result, t.result)
<1>1. Offered(s, t, o)
  BY SetValueOffered DEF RecordInv
<1>2. RecordInv(t, S)
  BY <1>1, OfferedInv
<1> QED BY <1>1, <1>2 DEF Offered

LEMMA RoomForValue ==
  ASSUME NEW s \in States, NEW o \in Params, willAcceptArgument(s, o),
         Def[o].maxArgs >= 0
  PROVE  s.current[o] + 1 <= Capacity(o)
BY CapacityFacts, StateFields, DefFields DEF willAcceptArgument

-----------------------------------------------------------------------------
(* The loop of parse( argStream, depth )                                   *)

(* The ways out of a turn of the loop.                                     *)
LEMMA TurnsGoOn ==
  ASSUME Leave \/ Continue \/ (\E s : Break(s))
  PROVE  pc' # "done" /\ pc' # "pieces"
BY DEF Leave, Continue, Break

LEMMA LeaveOK ==
  ASSUME CursorOK, Leave
  PROVE  pc' \in ProgramCounters /\ depth' \in 0..(MaxIncludeDepth + 1)
BY StreamAssumption DEF CursorOK, Leave, ProgramCounters

LEMMA BreakOK ==
  ASSUME CursorOK, NEW s, Break(s)
  PROVE  pc' \in ProgramCounters /\ depth' \in 0..(MaxIncludeDepth + 1)
<1>1. CASE s.result.exitRequested
  BY <1>1, LeaveOK DEF Break
<1>2. CASE ~s.result.exitRequested
  BY <1>2 DEF Break, Continue, CursorOK, ProgramCounters
<1> QED BY <1>1, <1>2

LEMMA NextArgumentOK ==
  ASSUME CursorOK, NEW a \in Args, NEW type, NextArgument(a, type)
  PROVE  consumed' \in 0..MaxArguments
BY StreamAssumption DEF CursorOK, NextArgument

LEMMA ArgumentParts ==
  ASSUME NEW a \in Args
  PROVE  /\ a.text \in Texts /\ a.whole \in Names
         /\ a.value \in Texts \cup {NoText}
         /\ a.names \in Seq(Names) /\ a.pieces \in Seq(Texts)
         /\ a.command \in Commands \cup {NoCommand}
BY StreamAssumption DEF ArgForms

LEMMA StartOptionInv ==
  ASSUME IInv, NEW name \in Names, NEW value \in Texts \cup {NoText},
         noteStarted(name, value), mPosition' = mPosition,
         NEW t, t = startOption(name, value), Becomes(t)
  PROVE  Advances(t) /\ started' \in SUBSET Options /\ latest' \in Occurrences
<1> DEFINE o == findOption(name)
           s == closeOption(State)
<1>7. latest' \in Occurrences
  BY FindOption DEF noteStarted, Occurrences
<1>1. o \in Options \cup {NoOption}
  BY FindOption
<1>2. /\ RecordInv(State, started) /\ Filled(State, mPosition)
      /\ started \in SUBSET Options /\ mResult \in Results
      /\ State.result = mResult
  BY StateFields, StateParts DEF IInv, CursorOK, RecordInv
<1>3. /\ RecordInv(s, started) /\ Grows(mResult, s.result)
      /\ s.active = NoOption /\ SamePositionals(State, s)
  BY <1>2, CloseOptionInv
<1>4. s.result \in Results
  BY <1>3 DEF Grows
<1> HIDE DEF s
<1>5. CASE o = NoOption
  <2>1. t = addError(s, name, "UNKNOWN_OPTION") /\ started' = started
    BY <1>5 DEF startOption, noteStarted, s
  <2>2. name \in Subjects /\ "UNKNOWN_OPTION" \in ErrorCodes \ {"EXIT_REQUESTED"}
    BY ParserErrorCodes
  <2>3. RecordInv(t, started) /\ Grows(s.result, t.result) /\ SamePositionals(s, t)
    BY <1>2, <1>3, <2>1, <2>2, ErrorInv
  <2>4. Grows(mResult, t.result)
    BY <1>2, <1>3, <2>3, GrowsTrans
  <2>5. Filled(t, mPosition)
    BY <1>2, <1>3, <2>3, FilledKept
  <2> QED BY <1>2, <1>7, <2>1, <2>3, <2>4, <2>5 DEF Advances
<1>6. CASE o # NoOption
  <2>1. o \in Options /\ t = beginOption(s, o, value) /\ started' = started \cup {o}
    BY <1>1, <1>6 DEF startOption, noteStarted, s
  <2> HIDE DEF o
  <2>2. /\ RecordInv(t, started \cup {o}) /\ Grows(s.result, t.result)
        /\ SamePositionals(s, t)
    BY <1>2, <1>3, <2>1, BeginOptionInv
  <2>3. Grows(mResult, t.result)
    BY <1>2, <1>3, <2>2, GrowsTrans
  <2>4. Filled(t, mPosition)
    BY <1>2, <1>3, <2>2, FilledKept
  <2> QED BY <1>2, <1>7, <2>1, <2>2, <2>3, <2>4 DEF Advances
<1> QED BY <1>5, <1>6

-----------------------------------------------------------------------------
(* One lemma per action.                                                   *)

Preserves == IInv' /\ Grows(mResult, mResult')

LEMMA Assemble ==
  ASSUME NEW t, Advances(t), CursorOK'
  PROVE  Preserves
BY AdvancesRecord DEF Preserves, IInv

LEMMA QuietStep ==
  ASSUME IInv, Becomes(State), UNCHANGED <<started, mPosition>>, CursorOK'
  PROVE  Preserves
BY StateUnchanged, Assemble

LEMMA EndOfStreamInv == ASSUME IInv, EndOfStream PROVE Preserves
<1>1. pc' \in ProgramCounters /\ depth' \in 0..(MaxIncludeDepth + 1)
  BY LeaveOK DEF IInv, EndOfStream
<1>2. CursorOK'
  BY <1>1 DEF IInv, CursorOK, EndOfStream
<1> QED BY <1>2, QuietStep DEF EndOfStream

LEMMA IncludeInv == ASSUME IInv, NEW a \in Args, Include(a) PROVE Preserves
<1>1. consumed' \in 0..MaxArguments
  BY NextArgumentOK DEF IInv, Include
<1>2. CursorOK'
  BY <1>1, StreamAssumption DEF IInv, CursorOK, Include, ProgramCounters
<1> QED BY <1>2, QuietStep DEF Include

LEMMA EndOfOptionsInv == ASSUME IInv, NEW a \in Args, EndOfOptions(a) PROVE Preserves
<1>1. consumed' \in 0..MaxArguments
  BY NextArgumentOK DEF IInv, EndOfOptions
<1>2. CursorOK'
  BY <1>1 DEF IInv, CursorOK, EndOfOptions, Continue, ProgramCounters
<1> QED BY <1>2, QuietStep DEF EndOfOptions

LEMMA DashOptionsInv == ASSUME IInv, NEW a \in Args, DashOptions(a) PROVE Preserves
<1>1. consumed' \in 0..MaxArguments /\ a.names \in Seq(Names)
  BY NextArgumentOK, ArgumentParts DEF IInv, DashOptions
<1>2. CursorOK'
  BY <1>1 DEF IInv, CursorOK, DashOptions, ProgramCounters
<1> QED BY <1>2, QuietStep DEF DashOptions

LEMMA IncludeTooDeepInv ==
  ASSUME IInv, NEW a \in Args, IncludeTooDeep(a)
  PROVE  Preserves
<1> DEFINE t == addError(State, NoSubject, "INCLUDE_TOO_DEEP")
<1>1. consumed' \in 0..MaxArguments
  BY NextArgumentOK DEF IInv, IncludeTooDeep
<1>2. CursorOK'
  BY <1>1, StreamAssumption DEF IInv, CursorOK, IncludeTooDeep, ProgramCounters
<1>3. /\ RecordInv(State, started) /\ started \in SUBSET Options
      /\ NoSubject \in Subjects
      /\ "INCLUDE_TOO_DEEP" \in ErrorCodes \ {"EXIT_REQUESTED"}
  BY ParserErrorCodes DEF IInv, CursorOK
<1>4. RecordInv(t, started) /\ Grows(mResult, t.result) /\ SamePositionals(State, t)
  BY <1>3, ErrorInv, StateParts
<1>5. Becomes(t) /\ started' = started /\ mPosition' = mPosition
  BY DEF IncludeTooDeep
<1> HIDE DEF t
<1>6. Advances(t)
  BY <1>4, <1>5, FilledKept DEF Advances, IInv
<1> QED BY <1>2, <1>6, Assemble

LEMMA LongOptionInv == ASSUME IInv, NEW a \in Args, LongOption(a) PROVE Preserves
<1> DEFINE t == startOption(a.whole, a.value)
<1>1. a.whole \in Names /\ a.value \in Texts \cup {NoText}
  BY ArgumentParts
<1>2. Becomes(t) /\ noteStarted(a.whole, a.value) /\ mPosition' = mPosition /\ Break(t)
  BY DEF LongOption
<1> HIDE DEF t
<1>3. Advances(t) /\ started' \in SUBSET Options /\ latest' \in Occurrences
  BY <1>1, <1>2, StartOptionInv DEF t
<1>4. pc' \in ProgramCounters /\ depth' \in 0..(MaxIncludeDepth + 1)
      /\ consumed' \in 0..MaxArguments
  BY <1>2, BreakOK, NextArgumentOK DEF IInv, LongOption
<1>5. CursorOK'
  BY <1>3, <1>4 DEF IInv, CursorOK, LongOption
<1> QED BY <1>3, <1>5, Assemble

LEMMA StartLetterInv == ASSUME IInv, StartLetter PROVE Preserves
<1> DEFINE t == startOption(Head(letters), NoText)
<1>1. /\ Head(letters) \in Names /\ NoText \in Texts \cup {NoText}
      /\ letters' \in Seq(Names)
  BY DEF IInv, CursorOK, StartLetter
<1>2. Becomes(t) /\ noteStarted(Head(letters), NoText) /\ mPosition' = mPosition
  BY DEF StartLetter
<1>3. Advances(t) /\ started' \in SUBSET Options /\ latest' \in Occurrences
  BY <1>1, <1>2, StartOptionInv
<1>4. pc' \in ProgramCounters /\ depth' \in 0..(MaxIncludeDepth + 1)
  <2>1. CASE Break(t)
    BY <2>1, BreakOK DEF IInv
  <2>2. CASE UNCHANGED <<pc, depth>>
    BY <2>2 DEF IInv, CursorOK
  <2> QED BY <2>1, <2>2 DEF StartLetter
<1> HIDE DEF t
<1>5. CursorOK'
  BY <1>1, <1>3, <1>4 DEF IInv, CursorOK, StartLetter
<1> QED BY <1>3, <1>5, Assemble

LEMMA ForwardOptionInv ==
  ASSUME IInv, NEW a \in Args, ForwardOption(a)
  PROVE  Preserves
<1> DEFINE o == findOption(a.names[1])
           s == closeOption(State)
           t == onOptionStarted(s, o)
<1>1. o \in Options /\ isForwarded(o)
  BY FindOption DEF ForwardOption, IsForwardList, optionWithNameExists
<1>2. /\ RecordInv(State, started) /\ Filled(State, mPosition)
      /\ started \in SUBSET Options
  BY DEF IInv, CursorOK
<1>3. /\ RecordInv(s, started) /\ Grows(mResult, s.result)
      /\ s.active = NoOption /\ SamePositionals(State, s)
  BY <1>2, CloseOptionInv, StateParts
<1>4. Becomes(t) /\ started' = started \cup {o} /\ mPosition' = mPosition
  BY <1>1, OptionsArePositionalFree DEF ForwardOption
<1>5. a.pieces \in Seq(Texts)
  BY ArgumentParts
<1>6. pieces' \in Seq(Pending)
  <2>1. pieces' = [i \in 1..Len(a.pieces) |-> [option |-> o, text |-> a.pieces[i]]]
    BY DEF ForwardOption
  <2> HIDE DEF o
  <2>2. \A i \in 1..Len(a.pieces) : [option |-> o, text |-> a.pieces[i]] \in Pending
    BY <1>1, <1>5 DEF Pending
  <2>3. Len(a.pieces) \in Nat
    BY <1>5
  <2> QED BY <2>1, <2>2, <2>3, SeqDef
<1>7. consumed' \in 0..MaxArguments
  BY NextArgumentOK DEF IInv, ForwardOption
<1> HIDE DEF o, s
<1>8. /\ RecordInv(t, started \cup {o}) /\ t.result = s.result
      /\ SamePositionals(s, t)
  BY <1>1, <1>2, <1>3, StartedInv
<1> HIDE DEF t
<1>9. Filled(t, mPosition)
  BY <1>2, <1>3, <1>8, FilledKept
<1>10. Advances(t)
  BY <1>3, <1>4, <1>8, <1>9 DEF Advances
<1>11. pc' = "pieces" /\ started' \in SUBSET Options /\ latest' \in Occurrences
       /\ UNCHANGED <<mIgnoreOptions, mPosition, letters, depth>>
  BY <1>1, <1>2, <1>4 DEF ForwardOption, nobody, Occurrences
<1>12. CursorOK'
  BY <1>6, <1>7, <1>11 DEF IInv, CursorOK, ProgramCounters
<1> QED BY <1>10, <1>12, Assemble

LEMMA ForwardPieceInv == ASSUME IInv, ForwardPiece PROVE Preserves
<1> DEFINE o == Head(pieces).option
           t == setValue(State, o, Head(pieces).text)
<1>1. /\ Head(pieces) \in Pending /\ pieces' \in Seq(Pending)
  BY DEF IInv, CursorOK, ForwardPiece
<1>2. o \in Options /\ isForwarded(o) /\ Head(pieces).text \in Texts
  BY <1>1 DEF Pending
<1>3. /\ RecordInv(State, started) /\ Filled(State, mPosition)
      /\ started \in SUBSET Options /\ o \in Params
  BY <1>2, OptionsArePositionalFree DEF IInv, CursorOK
<1>4. Becomes(t) /\ started' = started /\ mPosition' = mPosition
  BY DEF ForwardPiece
<1>5. pc' \in ProgramCounters /\ depth' \in 0..(MaxIncludeDepth + 1)
  <2>1. CASE Break(t)
    BY <2>1, BreakOK DEF IInv
  <2>2. CASE UNCHANGED <<pc, depth>>
    BY <2>2 DEF IInv, CursorOK
  <2> QED BY <2>1, <2>2 DEF ForwardPiece
<1>6. CursorOK'
  BY <1>1, <1>5 DEF IInv, CursorOK, ForwardPiece
<1> HIDE DEF o
<1>7. RecordInv(t, started) /\ Offered(State, t, o) /\ Grows(mResult, t.result)
  BY <1>2, <1>3, SetValueInv, StateParts
<1>8. Filled(t, mPosition)
  BY <1>2, <1>3, <1>7, OfferedPositionals, FilledKept DEF RecordInv
<1> HIDE DEF t
<1>9. Advances(t)
  BY <1>4, <1>7, <1>8 DEF Advances
<1> QED BY <1>6, <1>9, Assemble

LEMMA OptionValueInv == ASSUME IInv, NEW a \in Args, OptionValue(a) PROVE Preserves
<1> DEFINE o == mpActiveOption
           s == setValue(State, o, a.text)
           t == IF willAcceptArgument(s, o) THEN s ELSE closeOption(s)
<1>1. o # NoOption /\ willAcceptArgument(State, o)
  BY DEF OptionValue, NextArgument, getNextArgumentType, getNumberType,
         getWordType, ActiveTakesValue
<1>2. /\ RecordInv(State, started) /\ Filled(State, mPosition)
      /\ started \in SUBSET Options /\ State \in States
  BY DEF IInv, CursorOK, RecordInv
<1>3. o \in Options /\ o \in Params /\ a.text \in Texts
  BY <1>1, <1>2, StateFields, StateParts, OptionsArePositionalFree, ArgumentParts
<1>4. Becomes(t) /\ started' = started /\ mPosition' = mPosition /\ Break(t)
  BY DEF OptionValue
<1>5. consumed' \in 0..MaxArguments
      /\ pc' \in ProgramCounters /\ depth' \in 0..(MaxIncludeDepth + 1)
  BY <1>4, NextArgumentOK, BreakOK DEF IInv, OptionValue
<1>6. CursorOK'
  <2>1. latest' \in Occurrences
    BY DEF IInv, CursorOK, OptionValue, Occurrences
  <2> QED BY <1>5, <2>1 DEF IInv, CursorOK, OptionValue
<1> HIDE DEF o
<1>7. RecordInv(s, started) /\ Offered(State, s, o) /\ Grows(mResult, s.result)
  BY <1>1, <1>2, <1>3, RoomForValue, SetValueInv, StateParts
<1>8. SamePositionals(State, s)
  BY <1>2, <1>3, <1>7, OfferedPositionals
<1> HIDE DEF s
<1>9. RecordInv(t, started) /\ Grows(mResult, t.result) /\ SamePositionals(State, t)
  <2>1. CASE willAcceptArgument(s, o)
    BY <1>7, <1>8, <2>1
  <2>2. CASE ~willAcceptArgument(s, o)
    <3>1. t = closeOption(s)
      BY <2>2
    <3>2. RecordInv(t, started) /\ Grows(s.result, t.result) /\ SamePositionals(s, t)
      BY <1>2, <1>7, <3>1, CloseOptionInv
    <3>3. Grows(mResult, t.result)
      BY <1>2, <1>7, <3>2, GrowsTrans, StateFields, StateParts
    <3> QED BY <1>8, <3>2, <3>3 DEF SamePositionals
  <2> QED BY <2>1, <2>2
<1>10. Filled(t, mPosition)
  BY <1>2, <1>9, FilledKept
<1> HIDE DEF t
<1>11. Advances(t)
  BY <1>4, <1>9, <1>10 DEF Advances
<1> QED BY <1>6, <1>11, Assemble

(* The positional parameter that accepts the argument has room; everything *)
(* that addFreeArgument skipped on the way is full.                        *)
LEMMA StorePositionalInv ==
  ASSUME IInv, NEW a \in Args, StorePositional(a)
  PROVE  Preserves
<1>1. PICK p \in mPosition..Len(Positional) :
        /\ willAcceptArgument(State, Positional[p])
        /\ \A q \in mPosition..(p - 1) : ~willAcceptArgument(State, Positional[q])
        /\ mPosition' = p
        /\ Becomes(setValue(State, Positional[p], a.text))
  BY DEF StorePositional
<1> DEFINE o == Positional[p]
           t == setValue(State, o, a.text)
<1>2. /\ RecordInv(State, started) /\ Filled(State, mPosition)
      /\ started \in SUBSET Options /\ State \in States
      /\ mPosition \in 1..(Len(Positional) + 1)
  BY DEF IInv, CursorOK, RecordInv
<1>3. Len(Positional) \in Nat
  BY DefinitionAssumption
<1>4. p \in 1..Len(Positional) /\ p >= mPosition
  BY <1>2, <1>3
<1>5. o \in Positionals /\ o \in Params /\ a.text \in Texts
  BY <1>4, ArgumentParts DEF Positionals, Params
<1>6. \A i \in 1..Len(Positional) : /\ Positional[i] \in Positionals
                                    /\ Positional[i] \in Params
                                    /\ i # p => Positional[i] # o
  BY <1>4, PositionalAssumption DEF Positionals, Params
<1>7. started' = started /\ Becomes(t) /\ mPosition' = p
  BY <1>1 DEF StorePositional
<1>8. consumed' \in 0..MaxArguments
  BY NextArgumentOK DEF IInv, StorePositional
<1>9. CursorOK'
  BY <1>3, <1>4, <1>7, <1>8
     DEF IInv, CursorOK, StorePositional, Continue, ProgramCounters
<1>10. willAcceptArgument(State, o)
  BY <1>1
<1> HIDE DEF o
<1>11. RecordInv(t, started) /\ Offered(State, t, o) /\ Grows(mResult, t.result)
  BY <1>2, <1>5, <1>10, RoomForValue, SetValueInv, StateParts
<1> HIDE DEF t
<1>12. Filled(t, p)
  <2>1. /\ t.current = [State.current EXCEPT ![o] = @ + 1]
        /\ t.total = [State.total EXCEPT ![o] = @ + 1]
        /\ State.current \in [Params -> Nat] /\ State.total \in [Params -> Nat]
    BY <1>2, <1>11, StateFields DEF Offered
  <2>2. \A q \in Positionals : t.current[q] = t.total[q]
    BY <1>2, <1>5, <2>1 DEF Filled, Params
  <2>3. \A i \in 1..Len(Positional) :
          i < p => ~willAcceptArgument(t, Positional[i])
    <3> SUFFICES ASSUME NEW i \in 1..Len(Positional), i < p
                 PROVE  ~willAcceptArgument(t, Positional[i])
      OBVIOUS
    <3>1. ~willAcceptArgument(State, Positional[i])
      <4>1. CASE i < mPosition
        BY <1>2, <4>1 DEF Filled
      <4>2. CASE i >= mPosition
        <5>1. i \in mPosition..(p - 1)
          BY <1>2, <1>4, <4>2
        <5> QED BY <1>1, <5>1
      <4> QED BY <1>2, <4>1, <4>2
    <3>2. t.current[Positional[i]] = State.current[Positional[i]]
      BY <1>6, <2>1
    <3> QED BY <3>1, <3>2 DEF willAcceptArgument
  <2>4. \A i \in 1..Len(Positional) : i > p => t.total[Positional[i]] = 0
    BY <1>2, <1>4, <1>6, <2>1 DEF Filled
  <2> QED BY <2>2, <2>3, <2>4 DEF Filled
<1>13. Advances(t)
  BY <1>7, <1>11, <1>12 DEF Advances
<1> QED BY <1>9, <1>13, Assemble

LEMMA AppendPrefix ==
  ASSUME NEW S, NEW s \in Seq(S), NEW x \in S
  PROVE  Append(s, x) \in Seq(S) /\ Abstract!IsPrefixOf(s, Append(s, x))
BY DEF Abstract!IsPrefixOf

LEMMA ConcatPrefix ==
  ASSUME NEW S, NEW s \in Seq(S), NEW t \in Seq(S)
  PROVE  s \o t \in Seq(S) /\ Abstract!IsPrefixOf(s, s \o t)
BY DEF Abstract!IsPrefixOf

LEMMA AddIgnoredGrows ==
  ASSUME NEW r \in Results, NEW text \in Texts
  PROVE  Grows(r, addIgnoredTo(r, text))
<1> DEFINE q == Append(r.ignoredArguments, text)
           t == addIgnoredTo(r, text)
<1>1. q \in Seq(Texts) /\ Abstract!IsPrefixOf(r.ignoredArguments, q)
  BY AppendPrefix DEF Results
<1>2. t = [r EXCEPT !.ignoredArguments = q]
  BY DEF addIgnoredTo
<1> HIDE DEF q, t
<1>3. /\ t \in Results
      /\ t.ignoredArguments = q /\ t.errors = r.errors /\ t.commands = r.commands
      /\ t.exitRequested = r.exitRequested /\ t.helpWasShown = r.helpWasShown
      /\ t.errorsWereShown = r.errorsWereShown /\ t.mustCheck = r.mustCheck
  BY <1>1, <1>2 DEF Results
<1>4. Abstract!IsPrefixOf(r.commands, t.commands)
  BY <1>3 DEF Abstract!IsPrefixOf, Results
<1>5. Abstract!Extends(r, t)
  BY <1>1, <1>3, <1>4 DEF Abstract!Extends
<1>6. ResultContract(r) => ResultContract(t)
  BY <1>3 DEF ResultContract
<1> QED BY <1>3, <1>5, <1>6 DEF Grows, t

LEMMA AddCommandGrows ==
  ASSUME NEW r \in Results, NEW c \in Commands
  PROVE  Grows(r, addCommandTo(r, c))
<1> DEFINE q == Append(r.commands, c)
           t == addCommandTo(r, c)
<1>1. q \in Seq(Commands) /\ Abstract!IsPrefixOf(r.commands, q)
  BY AppendPrefix DEF Results
<1>2. t = [r EXCEPT !.commands = q]
  BY DEF addCommandTo
<1> HIDE DEF q, t
<1>3. /\ t \in Results
      /\ t.commands = q /\ t.errors = r.errors
      /\ t.ignoredArguments = r.ignoredArguments
      /\ t.exitRequested = r.exitRequested /\ t.helpWasShown = r.helpWasShown
      /\ t.errorsWereShown = r.errorsWereShown /\ t.mustCheck = r.mustCheck
  BY <1>1, <1>2 DEF Results
<1>4. Abstract!IsPrefixOf(r.ignoredArguments, t.ignoredArguments)
  BY <1>3 DEF Abstract!IsPrefixOf, Results
<1>5. Abstract!Extends(r, t)
  BY <1>1, <1>3, <1>4 DEF Abstract!Extends
<1>6. ResultContract(r) => ResultContract(t)
  BY <1>3 DEF ResultContract
<1> QED BY <1>3, <1>5, <1>6 DEF Grows, t

(* addResult keeps the contract because both sides satisfy it, and what it *)
(* merges was not described.                                               *)
LEMMA AddResultGrows ==
  ASSUME NEW r \in Results, NEW sub \in Results, ResultContract(sub),
         ~sub.errorsWereShown
  PROVE  Grows(r, addResultTo(r, sub))
<1> DEFINE q == r.ignoredArguments \o sub.ignoredArguments
           t == addResultTo(r, sub)
<1>1. q \in Seq(Texts) /\ Abstract!IsPrefixOf(r.ignoredArguments, q)
  BY ConcatPrefix DEF Results
<1>2. PICK e, x, h, m :
        /\ e = (r.errors \cup sub.errors) /\ x = (r.exitRequested \/ sub.exitRequested)
        /\ h = (r.helpWasShown \/ sub.helpWasShown)
        /\ m = (r.mustCheck \/ sub.mustCheck)
  BY Zenon
<1> DEFINE d == r.errorsWereShown \/ sub.errorsWereShown
<1>3. t = [r EXCEPT !.exitRequested = x, !.helpWasShown = h, !.errorsWereShown = d,
                    !.mustCheck = m, !.errors = e, !.ignoredArguments = q]
  BY <1>2, Zenon DEF addResultTo
<1>4. e \in SUBSET ParseErrors /\ x \in BOOLEAN /\ h \in BOOLEAN /\ m \in BOOLEAN
  <2>1. r.errors \in SUBSET ParseErrors /\ sub.errors \in SUBSET ParseErrors
    BY DEF Results
  <2>2. e \in SUBSET ParseErrors
    BY <1>2, <2>1
  <2>3. x \in BOOLEAN /\ h \in BOOLEAN /\ m \in BOOLEAN
    BY <1>2, Zenon
  <2> QED BY <2>2, <2>3
<1>9. d \in BOOLEAN /\ d = r.errorsWereShown
  <2>1. r.errorsWereShown \in BOOLEAN
    BY DEF Results
  <2>2. d <=> r.errorsWereShown
    BY Zenon
  <2> QED BY <2>1, <2>2
<1> HIDE DEF q, t, d
<1>5. /\ t \in Results
      /\ t.commands = r.commands /\ t.errors = e /\ t.ignoredArguments = q
      /\ t.exitRequested = x /\ t.helpWasShown = h /\ t.mustCheck = m
      /\ t.errorsWereShown = d
  BY <1>1, <1>3, <1>4, <1>9 DEF Results
<1>6. Abstract!IsPrefixOf(r.commands, t.commands)
  BY <1>5 DEF Abstract!IsPrefixOf, Results
<1>7. Abstract!Extends(r, t)
  BY <1>1, <1>2, <1>5, <1>6, <1>9 DEF Abstract!Extends
<1>8. ResultContract(r) => ResultContract(t)
  BY <1>2, <1>5 DEF ResultContract
<1> QED BY <1>5, <1>7, <1>8, <1>9 DEF Grows, t

LEMMA ResultStepAdvances ==
  ASSUME IInv, NEW r, Grows(mResult, r),
         NEW t, t = [State EXCEPT !.result = r], Becomes(t),
         started' = started, NEW pos, mPosition' = pos, Filled(State, pos)
  PROVE  Advances(t)
<1>1. RecordInv(State, started) /\ started \in SUBSET Options
  BY DEF IInv, CursorOK
<1>2. RecordInv(t, started) /\ SamePositionals(State, t) /\ t.result = r
  BY <1>1, ResultStepInv, StateParts
<1>3. Filled(t, pos)
  BY <1>2, FilledKept
<1> QED BY <1>2, <1>3 DEF Advances

LEMMA IgnoreArgumentInv == ASSUME IInv, NEW a \in Args, IgnoreArgument(a) PROVE Preserves
<1> DEFINE r == addIgnoredTo(mResult, a.text)
           t == [State EXCEPT !.result = r]
           pos == Len(Positional) + 1
<1>1. mResult \in Results /\ a.text \in Texts /\ Len(Positional) \in Nat
  BY StateFields, StateParts, ArgumentParts, DefinitionAssumption DEF IInv, RecordInv
<1>2. Grows(mResult, r)
  BY <1>1, AddIgnoredGrows
<1>3. Becomes(t) /\ started' = started /\ mPosition' = pos
  BY StateParts DEF IgnoreArgument, State
<1>4. Filled(State, pos)
  <2>1. \A i \in 1..Len(Positional) : ~willAcceptArgument(State, Positional[i])
    <3> SUFFICES ASSUME NEW i \in 1..Len(Positional)
                 PROVE  ~willAcceptArgument(State, Positional[i])
      OBVIOUS
    <3>1. CASE i < mPosition
      BY <3>1 DEF IInv, Filled
    <3>2. CASE i >= mPosition
      <4>1. i \in mPosition..Len(Positional)
        BY <1>1, <3>2 DEF IInv, CursorOK
      <4> QED BY <4>1 DEF IgnoreArgument
    <3> QED BY <3>1, <3>2 DEF IInv, CursorOK
  <2> QED BY <1>1, <2>1 DEF IInv, Filled
<1>5. consumed' \in 0..MaxArguments
  BY NextArgumentOK DEF IInv, IgnoreArgument
<1>6. CursorOK'
  BY <1>1, <1>3, <1>5
     DEF IInv, CursorOK, IgnoreArgument, Continue, ProgramCounters
<1> HIDE DEF r
<1>7. Advances(t)
  BY <1>2, <1>3, <1>4, ResultStepAdvances
<1> QED BY <1>6, <1>7, Assemble

LEMMA CommandNameInv == ASSUME IInv, NEW a \in Args, CommandName(a) PROVE Preserves
<1>1. PICK sub \in SubResults :
        Becomes([State EXCEPT !.result =
                   addResultTo(addCommandTo(@, a.command), sub)])
  BY DEF CommandName
<1> DEFINE q == addCommandTo(mResult, a.command)
           r == addResultTo(q, sub)
           t == [State EXCEPT !.result = r]
<1>2. a.command \in Commands
  BY ArgumentParts DEF CommandName, NextArgument, getNextArgumentType,
                       getNumberType, getWordType
<1>3. /\ mResult \in Results /\ sub \in Results /\ ResultContract(sub)
      /\ ~sub.errorsWereShown
  BY StateFields, StateParts, StreamAssumption DEF IInv, RecordInv
<1>4. Grows(mResult, q) /\ q \in Results
  BY <1>2, <1>3, AddCommandGrows DEF Grows
<1> HIDE DEF q
<1>5. Grows(q, r)
  BY <1>3, <1>4, AddResultGrows
<1> HIDE DEF r
<1>6. Grows(mResult, r)
  BY <1>3, <1>4, <1>5, GrowsTrans
<1>7. Becomes(t)
  BY <1>1, StateParts, Zenon DEF q, r
<1>8. started' = started /\ mPosition' = mPosition /\ Filled(State, mPosition)
  BY DEF CommandName, IInv
<1>9. Advances(t)
  BY <1>6, <1>7, <1>8, ResultStepAdvances
<1>10. /\ consumed' \in 0..MaxArguments
       /\ pc' \in ProgramCounters /\ depth' \in 0..(MaxIncludeDepth + 1)
  BY NextArgumentOK, LeaveOK DEF IInv, CommandName
<1>11. CursorOK'
  BY <1>10 DEF IInv, CursorOK, CommandName
<1> QED BY <1>9, <1>11, Assemble

LEMMA CloseInv == ASSUME IInv, Close PROVE Preserves
<1> DEFINE t == closeOption(State)
<1>1. RecordInv(State, started) /\ started \in SUBSET Options /\ Filled(State, mPosition)
  BY DEF IInv, CursorOK
<1>2. RecordInv(t, started) /\ Grows(mResult, t.result) /\ SamePositionals(State, t)
  BY <1>1, CloseOptionInv, StateParts
<1>3. Becomes(t) /\ started' = started /\ mPosition' = mPosition
  BY DEF Close
<1>4. CursorOK'
  BY DEF IInv, CursorOK, Close, ProgramCounters
<1> HIDE DEF t
<1>5. Advances(t)
  BY <1>1, <1>2, <1>3, FilledKept DEF Advances
<1> QED BY <1>4, <1>5, Assemble

-----------------------------------------------------------------------------
(* The inductive invariant                                                 *)

LEMMA InitInv == Init => IInv
<1> SUFFICES ASSUME Init PROVE IInv
  OBVIOUS
<1>1. State \in States
  <2>1. emptyResult \in Results
    <3>1. {} \in SUBSET ParseErrors /\ <<>> \in Seq(Texts) /\ <<>> \in Seq(Commands)
      OBVIOUS
    <3> QED BY <3>1, Zenon DEF emptyResult, Results
  <2>2. [v \in Values |-> initialTarget(v)] \in [Values -> Targets]
    BY InitialTargetType
  <2> QED BY <2>1, <2>2 DEF Init, State, States
<1>2. ResultContract(mResult)
  BY DEF Init, emptyResult, ResultContract
<1>3. RecordInv(State, started)
  <2>1. Bounded(State)
    BY StateParts, CapacityFacts DEF Init, Bounded
  <2>2. Accounted(State) /\ Reported(State, started)
    BY StateParts DEF Init, Accounted, Reported
  <2> QED BY <1>1, <1>2, <2>1, <2>2, StateParts DEF RecordInv, Init
<1>4. Filled(State, mPosition)
  <2>1. \A p \in Positionals : State.current[p] = 0 /\ State.total[p] = 0
    BY StateParts DEF Init, Params
  <2>2. \A i \in 1..Len(Positional) : Positional[i] \in Positionals
    BY DEF Positionals
  <2>3. mPosition = 1
    BY DEF Init
  <2> QED BY <2>1, <2>2, <2>3 DEF Filled
<1>5. CursorOK
  <2>1. Len(Positional) \in Nat
    BY DefinitionAssumption
  <2>2. MaxIncludeDepth \in Nat /\ MaxArguments \in Nat
    BY StreamAssumption
  <2>3. letters \in Seq(Names) /\ pieces \in Seq(Pending)
    BY DEF Init
  <2>4. mPosition \in 1..(Len(Positional) + 1)
    BY <2>1 DEF Init
  <2>5. depth \in 0..(MaxIncludeDepth + 1) /\ consumed \in 0..MaxArguments
    BY <2>2 DEF Init
  <2>6. /\ mIgnoreOptions \in BOOLEAN /\ pc \in ProgramCounters
        /\ started \in SUBSET Options /\ latest \in Occurrences
    BY DEF Init, ProgramCounters, nobody, Occurrences
  <2> QED BY <2>3, <2>4, <2>5, <2>6 DEF CursorOK
<1> QED BY <1>3, <1>4, <1>5 DEF IInv

LEMMA ParseInv == ASSUME IInv, Parse PROVE Preserves
<1>1. CASE EndOfStream
  BY <1>1, EndOfStreamInv
<1>2. CASE ReadArgument
  <2>1. PICK a \in Args : \/ Include(a) \/ IncludeTooDeep(a) \/ EndOfOptions(a)
                          \/ StorePositional(a) \/ IgnoreArgument(a)
                          \/ OptionValue(a) \/ LongOption(a) \/ ForwardOption(a)
                          \/ DashOptions(a) \/ CommandName(a)
    BY <1>2 DEF ReadArgument
  <2> QED BY <2>1, IncludeInv, IncludeTooDeepInv, EndOfOptionsInv,
             StorePositionalInv, IgnoreArgumentInv, OptionValueInv,
             LongOptionInv, ForwardOptionInv, DashOptionsInv, CommandNameInv
<1>3. CASE ForwardPiece
  BY <1>3, ForwardPieceInv
<1>4. CASE StartLetter
  BY <1>4, StartLetterInv
<1>5. CASE Close
  BY <1>5, CloseInv
<1> QED BY <1>1, <1>2, <1>3, <1>4, <1>5 DEF Parse

LEMMA StutterInv == ASSUME IInv, UNCHANGED vars PROVE IInv'
BY DEF IInv, vars, CursorOK, RecordInv, Filled, State, Bounded, Accounted,
       Reported, willAcceptArgument

LEMMA NextInv == IInv /\ [Next]_vars => IInv'
BY ParseInv, StutterInv DEF Next, Terminated, Preserves

(* IInv holds in every reachable state of every parser.                    *)
THEOREM Inductive == Spec => []IInv
BY InitInv, NextInv, PTL DEF Spec

-----------------------------------------------------------------------------
(* The properties                                                          *)

(* The members of the parser, its options, values and result keep their    *)
(* types: no position past the end of mPositional, no active option that   *)
(* was not defined, no nesting beyond max_include_depth plus one.          *)
THEOREM TypeCorrect == Spec => []TypeOK
<1>1. IInv => TypeOK
  <2> SUFFICES ASSUME IInv PROVE TypeOK
    OBVIOUS
  <2>1. pieces \in Seq([option : Options, text : Texts])
    <3>1. pieces \in Seq(Pending)
      BY DEF IInv, CursorOK
    <3>2. Pending \subseteq [option : Options, text : Texts]
      BY DEF Pending
    <3> HIDE DEF Pending
    <3>3. PICK n \in Nat : pieces \in [1..n -> Pending]
      BY <3>1, SeqDef
    <3>4. pieces \in [1..n -> [option : Options, text : Texts]]
      BY <3>2, <3>3
    <3> DEFINE P == [option : Options, text : Texts]
    <3> HIDE DEF P
    <3>5. Seq(P) = UNION {[1..m -> P] : m \in Nat}
      BY SeqDef
    <3>6. pieces \in Seq(P)
      BY <3>4, <3>5, ZenonT(30) DEF P
    <3> QED BY <3>6 DEF P
  <2> QED BY <2>1 DEF IInv, RecordInv, CursorOK, TypeOK, Occurrences
<1> QED BY <1>1, Inductive, PTL

(* mustCheck, exitRequested and helpWasShown agree with the errors of the  *)
(* result at every moment of every parse.                                  *)
THEOREM ResultsKeepContract == Spec => []ResultOK
<1>1. IInv => ResultOK
  BY StateParts DEF IInv, RecordInv, ResultOK
<1> QED BY <1>1, Inductive, PTL

(* No parameter without forwarded values takes more than its maximum.      *)
THEOREM CountsNeverExceeded == Spec => []CountsBounded
<1>1. IInv => CountsBounded
  BY StateParts DEF IInv, RecordInv, Bounded, CountsBounded
<1> QED BY <1>1, Inductive, PTL

(* An occurrence of an option that ended with too few values was reported. *)
THEOREM MissingArgumentsReported == Spec => []MissingArgumentReported
<1>1. IInv => MissingArgumentReported
  BY StateParts DEF IInv, RecordInv, Reported, MissingArgumentReported
<1> QED BY <1>1, Inductive, PTL

(* A Value that counts as assigned was assigned through some parameter.    *)
THEOREM ValuesAccounted == Spec => []ValuesAssignedByParameters
<1>1. IInv => ValuesAssignedByParameters
  BY StateParts DEF IInv, RecordInv, Accounted, ValuesAssignedByParameters
<1> QED BY <1>1, Inductive, PTL

(* A positional parameter is used only when all before it are full.        *)
THEOREM PositionalsInOrder == Spec => []PositionalOrder
<1>1. IInv => PositionalOrder
  <2> SUFFICES ASSUME IInv, NEW i \in 1..Len(Positional),
                      NEW j \in 1..Len(Positional), i < j,
                      mTotalAssignCount[Positional[j]] > 0
               PROVE  ~willAcceptArgument(State, Positional[i])
    BY DEF PositionalOrder
  <2>1. ~(j > mPosition)
    BY StateParts DEF IInv, Filled
  <2>2. i < mPosition
    BY <2>1 DEF IInv, CursorOK
  <2> QED BY <2>2 DEF IInv, Filled
<1> QED BY <1>1, Inductive, PTL

(* Parser implements ParseContract: no step takes back what an earlier one *)
(* reported and nothing changes the result once parse() has returned.      *)
THEOREM ContractImplemented == Spec => ImplementsContract
<1>1. Init => Abstract!Init
  BY DEF Init, Abstract!Init
<1>2. IInv /\ [Next]_vars => [Abstract!Next]_<<mResult, pc = "done">>
  <2> SUFFICES ASSUME IInv, [Next]_vars
               PROVE  [Abstract!Next]_<<mResult, pc = "done">>
    OBVIOUS
  <2>1. CASE Parse
    <3>1. pc # "done"
      BY <2>1 DEF Parse, EndOfStream, ReadArgument, ForwardPiece, StartLetter,
         Close, Include, IncludeTooDeep, EndOfOptions, StorePositional,
         IgnoreArgument, OptionValue, LongOption, ForwardOption, DashOptions,
         CommandName, NextArgument
    <3>2. Grows(mResult, mResult') /\ ResultContract(mResult)
      BY <2>1, ParseInv, StateParts DEF Preserves, IInv, RecordInv
    <3>3. Abstract!Extends(mResult, mResult') /\ ResultContract(mResult')
      BY <3>2 DEF Grows
    <3>4. (pc = "done")' \in BOOLEAN
      OBVIOUS
    <3> QED BY <3>1, <3>3, <3>4 DEF Abstract!Next, Abstract!Grow
  <2>2. CASE UNCHANGED vars
    BY <2>2 DEF vars
  <2> QED BY <2>1, <2>2 DEF Next, Terminated
<1> QED BY <1>1, <1>2, Inductive, PTL DEF Spec, ImplementsContract, Abstract!Spec

-----------------------------------------------------------------------------
(* Which option the next words go to.                                      *)

RoomIn(l) ==
  /\ l.option # NoOption
  /\ Def[l.option].maxArgs < 0 \/ l.values < Def[l.option].maxArgs

(* The option that occurred last is active, and has counted exactly the    *)
(* values of this occurrence, while it has room; otherwise no option       *)
(* accepts a word.                                                         *)
Served(s, l) ==
  IF RoomIn(l)
    THEN s.active = l.option /\ s.current[l.option] = l.values
    ELSE s.active = NoOption \/ ~willAcceptArgument(s, s.active)

LInv ==
  /\ pc # "done" => Served(State, latest)
  /\ pc = "pieces" => mpActiveOption = NoOption

LEMMA AssembleServed ==
  ASSUME NEW t \in States, Becomes(t), Served(t, latest'),
         pc' = "pieces" => t.active = NoOption
  PROVE  LInv'
<1>1. State' = t /\ mpActiveOption' = t.active
  BY BecomesState DEF Becomes
<1>2. Served(State', latest')
  BY <1>1
<1>3. Served(State, latest)' = Served(State', latest')
  BY DEF Served, RoomIn, willAcceptArgument
<1> QED BY <1>1, <1>2, <1>3 DEF LInv

LEMMA ServedKept ==
  ASSUME NEW s, NEW l \in Occurrences, Served(s, l), NEW t,
         t.active = s.active,
         \A o \in Options : t.current[o] = s.current[o],
         s.active \in Options \cup {NoOption}
  PROVE  Served(t, l)
<1>1. l.option \in Options \cup {NoOption}
  BY DEF Occurrences
<1> QED BY <1>1 DEF Served, RoomIn, willAcceptArgument

(* A step that touches no counter of an option.                            *)
LEMMA KeepsServed ==
  ASSUME IInv, LInv, pc # "done", pc' # "pieces", latest' = latest,
         NEW t \in States, Becomes(t), t.active = mpActiveOption,
         \A o \in Options : t.current[o] = mCurrentAssignCount[o]
  PROVE  LInv'
<1>1. Served(State, latest) /\ latest \in Occurrences /\ State \in States
  BY DEF LInv, IInv, CursorOK, RecordInv
<1>2. State.active \in Options \cup {NoOption}
  BY <1>1, StateFields
<1>3. Served(t, latest)
  BY <1>1, <1>2, StateParts, ServedKept
<1> QED BY <1>3, AssembleServed

(* A step that only rewrites the result.                                   *)
LEMMA ResultStepServed ==
  ASSUME IInv, LInv, pc # "done", pc' # "pieces", latest' = latest,
         NEW r \in Results, Becomes([State EXCEPT !.result = r])
  PROVE  LInv'
<1>1. PICK t : t = [State EXCEPT !.result = r]
  OBVIOUS
<1>2. State \in States
  BY DEF IInv, RecordInv
<1>3. t \in States /\ t.active = State.active /\ t.current = State.current
  BY <1>1, <1>2, WithResult
<1> QED BY <1>1, <1>3, StateParts, KeepsServed

LEMMA QuietStepsServed ==
  ASSUME IInv, LInv,
         \/ EndOfStream
         \/ \E a \in Args : Include(a) \/ EndOfOptions(a) \/ DashOptions(a)
  PROVE  LInv'
<1>1. /\ latest' = latest /\ pc = "next" /\ Becomes(State) /\ pc' # "pieces"
  BY TurnsGoOn DEF EndOfStream, Include, EndOfOptions, DashOptions, NextArgument
<1>2. State \in States
  BY DEF IInv, RecordInv
<1> QED BY <1>1, <1>2, StateParts, KeepsServed

LEMMA IncludeTooDeepServed ==
  ASSUME IInv, LInv, NEW a \in Args, IncludeTooDeep(a)
  PROVE  LInv'
<1>1. PICK t : t = addError(State, NoSubject, "INCLUDE_TOO_DEEP")
  OBVIOUS
<1>2. /\ Becomes(t) /\ latest' = latest /\ pc = "next" /\ pc' # "pieces"
  BY <1>1 DEF IncludeTooDeep, NextArgument
<1>3. /\ State \in States /\ NoSubject \in Subjects
      /\ "INCLUDE_TOO_DEEP" \in ErrorCodes \ {"EXIT_REQUESTED"}
  BY ParserErrorCodes DEF IInv, RecordInv
<1>4. Executed(State, t)
  BY <1>1, <1>3, AddErrorExecuted
<1> QED BY <1>2, <1>4, StateParts, KeepsServed DEF Executed

LEMMA IgnoreArgumentServed ==
  ASSUME IInv, LInv, NEW a \in Args, IgnoreArgument(a)
  PROVE  LInv'
<1>1. PICK r : r = addIgnoredTo(mResult, a.text)
  OBVIOUS
<1>2. mResult \in Results /\ a.text \in Texts
  BY StateFields, StateParts, ArgumentParts DEF IInv, RecordInv
<1>3. r \in Results
  BY <1>1, <1>2, AddIgnoredGrows DEF Grows
<1>4. Becomes([State EXCEPT !.result = r])
  BY <1>1, StateParts DEF IgnoreArgument, State
<1>5. latest' = latest /\ pc = "next" /\ pc' # "pieces"
  BY DEF IgnoreArgument, NextArgument, Continue
<1> QED BY <1>3, <1>4, <1>5, ResultStepServed

LEMMA CommandNameServed ==
  ASSUME IInv, LInv, NEW a \in Args, CommandName(a)
  PROVE  LInv'
<1>1. PICK sub \in SubResults :
        Becomes([State EXCEPT !.result =
                   addResultTo(addCommandTo(@, a.command), sub)])
  BY DEF CommandName
<1>2. PICK q : q = addCommandTo(mResult, a.command)
  OBVIOUS
<1>3. PICK r : r = addResultTo(q, sub)
  OBVIOUS
<1>4. /\ mResult \in Results /\ a.command \in Commands
      /\ sub \in Results /\ ResultContract(sub) /\ ~sub.errorsWereShown
  BY StateFields, StateParts, ArgumentParts, StreamAssumption
     DEF IInv, RecordInv, CommandName, NextArgument,
         getNextArgumentType, getNumberType, getWordType
<1>5. q \in Results
  BY <1>2, <1>4, AddCommandGrows DEF Grows
<1>6. r \in Results
  BY <1>3, <1>4, <1>5, AddResultGrows DEF Grows
<1>7. Becomes([State EXCEPT !.result = r])
  BY <1>1, <1>2, <1>3, StateParts, Zenon
<1>8. latest' = latest /\ pc = "next" /\ pc' # "pieces"
  BY TurnsGoOn DEF CommandName, NextArgument
<1> QED BY <1>6, <1>7, <1>8, ResultStepServed

(* A positional parameter takes the argument.                              *)
LEMMA StorePositionalServed ==
  ASSUME IInv, LInv, NEW a \in Args, StorePositional(a)
  PROVE  LInv'
<1>1. PICK p \in mPosition..Len(Positional) :
        Becomes(setValue(State, Positional[p], a.text))
  BY DEF StorePositional
<1>2. PICK q : q = Positional[p]
  OBVIOUS
<1>3. PICK t : t = setValue(State, q, a.text)
  OBVIOUS
<1>4. /\ State \in States /\ mPosition \in 1..(Len(Positional) + 1)
      /\ Len(Positional) \in Nat
  BY DefinitionAssumption DEF IInv, CursorOK, RecordInv
<1>5. q \in Positionals /\ q \in Params /\ a.text \in Texts
  BY <1>2, <1>4, ArgumentParts DEF Positionals, Params
<1>6. Offered(State, t, q)
  BY <1>3, <1>4, <1>5, SetValueOffered
<1>7. \A o \in Options : t.current[o] = mCurrentAssignCount[o]
  <2>1. \A o \in Options : o \in Params /\ o # q
    BY <1>5, OptionsArePositionalFree
  <2> QED BY <1>4, <1>6, <2>1, StateFields, StateParts DEF Offered
<1>8. latest' = latest /\ pc = "next" /\ pc' # "pieces"
  BY DEF StorePositional, NextArgument, Continue
<1> QED BY <1>1, <1>2, <1>3, <1>6, <1>7, <1>8, StateParts, KeepsServed DEF Offered

(* The option that started last has reset its count and counted its value. *)
LEMMA BeginOptionServed ==
  ASSUME NEW S \in SUBSET Options, NEW s, RecordInv(s, S), s.active = NoOption,
         NEW o \in Options, NEW value \in Texts \cup {NoText},
         NEW t, t = beginOption(s, o, value),
         NEW l, l = [option |-> o, values |-> IF value = NoText THEN 0 ELSE 1]
  PROVE  Served(t, l)
<1>1. PICK b : b = onOptionStarted(s, o)
  OBVIOUS
<1>2. /\ s \in States /\ o \in Params /\ o \in Subjects /\ o # NoOption
      /\ "FLAG_PARAMETER" \in ErrorCodes \ {"EXIT_REQUESTED"}
      /\ Def[o].maxArgs \in Nat \cup {-1}
  BY OptionsArePositionalFree, ParserErrorCodes, DefFields DEF RecordInv
<1>3. /\ b \in States /\ b.active = NoOption /\ b.current[o] = 0
  <2>1. PICK c \in [Params -> Nat] : c = [s.current EXCEPT ![o] = 0]
    BY <1>2, StateFields
  <2>2. b = [s EXCEPT !.current = c]
    BY <1>1, <2>1 DEF onOptionStarted
  <2> QED BY <1>2, <2>1, <2>2, WithCurrent, StateFields
<1>4. CASE Def[o].maxArgs = 0
  <2>1. PICK f : f = setValue(b, o, Def[o].flagValue)
    OBVIOUS
  <2>2. Offered(b, f, o)
    BY <1>2, <1>3, <2>1, DefFields, SetValueOffered
  <2>3. f \in States /\ f.active = NoOption
    BY <1>3, <2>2 DEF Offered
  <2>4. f.current[o] = 1
    BY <1>2, <1>3, <2>2, StateFields DEF Offered
  <2>5. ~willAcceptArgument(b, o) /\ ~willAcceptArgument(f, o)
    <3>1. ~(0 < 0) /\ ~(1 < 0)
      OBVIOUS
    <3> QED BY <1>3, <1>4, <2>4, <3>1 DEF willAcceptArgument
  <2>6. t = f \/ t = addError(f, o, "FLAG_PARAMETER")
    BY <1>1, <2>1, <2>5 DEF beginOption
  <2>7. t.active = NoOption
    <3>1. PICK u : u = addError(f, o, "FLAG_PARAMETER")
      OBVIOUS
    <3>2. Executed(f, u)
      BY <1>2, <2>3, <3>1, AddErrorExecuted
    <3>3. u.active = f.active
      BY <3>2 DEF Executed
    <3> QED BY <2>3, <2>6, <3>1, <3>3
  <2>8. ~RoomIn(l)
    BY <1>4 DEF RoomIn
  <2> QED BY <2>7, <2>8 DEF Served
<1>5. CASE Def[o].maxArgs # 0
  <2>1. PICK u : u = [b EXCEPT !.active = o]
    OBVIOUS
  <2>2. u \in States /\ u.active = o /\ u.current[o] = 0
    BY <1>3, <2>1, WithActive
  <2>3. willAcceptArgument(b, o) /\ willAcceptArgument(u, o)
    BY <1>2, <1>3, <1>5, <2>2 DEF willAcceptArgument
  <2>4. CASE value = NoText
    <3>1. t = u
      BY <1>1, <2>1, <2>3, <2>4 DEF beginOption
    <3>2. RoomIn(l) /\ l.option = o /\ l.values = 0
      BY <1>2, <1>5, <2>4 DEF RoomIn
    <3> QED BY <2>2, <3>1, <3>2 DEF Served
  <2>5. CASE value # NoText
    <3>1. t = setValue(u, o, value) /\ value \in Texts
      BY <1>1, <2>1, <2>3, <2>5 DEF beginOption
    <3>2. Offered(u, t, o)
      BY <1>2, <2>2, <3>1, SetValueOffered
    <3>3. t.active = o /\ t.current[o] = 1
      BY <1>2, <2>2, <3>2, StateFields DEF Offered
    <3>4. l.option = o /\ l.values = 1
      BY <2>5
    <3> QED BY <1>2, <3>3, <3>4 DEF Served, RoomIn, willAcceptArgument
  <2> QED BY <2>4, <2>5
<1> QED BY <1>4, <1>5

LEMMA StartOptionServed ==
  ASSUME IInv, NEW name \in Names, NEW value \in Texts \cup {NoText},
         noteStarted(name, value), mPosition' = mPosition,
         Becomes(startOption(name, value)), pc' # "pieces"
  PROVE  LInv'
<1>1. PICK o : o = findOption(name)
  OBVIOUS
<1>2. PICK s : s = closeOption(State)
  OBVIOUS
<1>3. PICK t : t = startOption(name, value)
  OBVIOUS
<1>4. /\ RecordInv(State, started) /\ started \in SUBSET Options
      /\ o \in Options \cup {NoOption}
  BY <1>1, FindOption DEF IInv, CursorOK
<1>5. RecordInv(s, started) /\ s.active = NoOption /\ s \in States
  BY <1>2, <1>4, CloseOptionInv DEF RecordInv
<1>6. Becomes(t) /\ t \in States
  BY <1>3, StartOptionInv DEF Advances, RecordInv
<1>7. latest' = [option |-> o, values |-> IF value = NoText THEN 0 ELSE 1]
  BY <1>1 DEF noteStarted
<1>8. CASE o = NoOption
  <2>1. t = addError(s, name, "UNKNOWN_OPTION")
    BY <1>1, <1>2, <1>3, <1>8 DEF startOption
  <2>2. name \in Subjects /\ "UNKNOWN_OPTION" \in ErrorCodes \ {"EXIT_REQUESTED"}
    BY ParserErrorCodes
  <2>3. t.active = NoOption
    BY <1>5, <2>1, <2>2, AddErrorExecuted DEF Executed
  <2>4. Served(t, latest')
    BY <1>7, <1>8, <2>3 DEF Served, RoomIn
  <2> QED BY <1>6, <2>4, AssembleServed
<1>9. CASE o # NoOption
  <2>1. t = beginOption(s, o, value) /\ o \in Options
    BY <1>1, <1>2, <1>3, <1>4, <1>9 DEF startOption
  <2>2. Served(t, latest')
    BY <1>4, <1>5, <1>7, <2>1, BeginOptionServed
  <2> QED BY <1>6, <2>2, AssembleServed
<1> QED BY <1>8, <1>9

LEMMA LongOptionServed ==
  ASSUME IInv, NEW a \in Args, LongOption(a)
  PROVE  LInv'
<1>1. a.whole \in Names /\ a.value \in Texts \cup {NoText}
  BY ArgumentParts
<1>2. /\ noteStarted(a.whole, a.value) /\ mPosition' = mPosition
      /\ Becomes(startOption(a.whole, a.value))
  BY DEF LongOption
<1>3. pc' # "pieces"
  BY TurnsGoOn DEF LongOption
<1> QED BY <1>1, <1>2, <1>3, StartOptionServed

LEMMA StartLetterServed == ASSUME IInv, StartLetter PROVE LInv'
<1>1. Head(letters) \in Names /\ NoText \in Texts \cup {NoText}
  BY DEF IInv, CursorOK, StartLetter
<1>2. /\ noteStarted(Head(letters), NoText) /\ mPosition' = mPosition
      /\ Becomes(startOption(Head(letters), NoText)) /\ pc = "letters"
  BY DEF StartLetter
<1>3. pc' # "pieces"
  BY <1>2, TurnsGoOn DEF StartLetter
<1> QED BY <1>1, <1>2, <1>3, StartOptionServed

(* The forwarded values are taken by the list, no word is.                 *)
LEMMA ForwardOptionServed ==
  ASSUME IInv, NEW a \in Args, ForwardOption(a)
  PROVE  LInv'
<1>1. PICK o : o = findOption(a.names[1])
  OBVIOUS
<1>2. PICK s : s = closeOption(State)
  OBVIOUS
<1>3. PICK t : t = onOptionStarted(s, o)
  OBVIOUS
<1>4. /\ RecordInv(State, started) /\ started \in SUBSET Options
      /\ o \in Options /\ isForwarded(o)
  BY <1>1, FindOption
     DEF IInv, CursorOK, ForwardOption, IsForwardList, optionWithNameExists
<1>5. RecordInv(s, started) /\ s.active = NoOption
  BY <1>2, <1>4, CloseOptionInv
<1>6. t.active = NoOption /\ t \in States
  <2>1. RecordInv(t, started \cup {o}) /\ t.active = NoOption
    BY <1>3, <1>4, <1>5, StartedInv
  <2> QED BY <2>1 DEF RecordInv
<1>7. Becomes(t) /\ latest' = nobody
  BY <1>1, <1>2, <1>3 DEF ForwardOption
<1>8. Served(t, latest')
  BY <1>6, <1>7 DEF Served, RoomIn, nobody
<1> QED BY <1>6, <1>7, <1>8, AssembleServed

LEMMA ForwardPieceServed == ASSUME IInv, LInv, ForwardPiece PROVE LInv'
<1>1. PICK o : o = Head(pieces).option
  OBVIOUS
<1>2. PICK t : t = setValue(State, o, Head(pieces).text)
  OBVIOUS
<1>3. Head(pieces) \in Pending
  BY DEF IInv, CursorOK, ForwardPiece
<1>4. o \in Params /\ Head(pieces).text \in Texts /\ State \in States
  BY <1>1, <1>3, OptionsArePositionalFree DEF Pending, IInv, RecordInv
<1>5. Offered(State, t, o)
  BY <1>2, <1>4, SetValueOffered
<1>6. t.active = NoOption /\ t \in States
  BY <1>5, StateParts DEF Offered, LInv, ForwardPiece
<1>7. ~RoomIn(latest)
  BY StateParts DEF LInv, ForwardPiece, Served, RoomIn
<1>8. Becomes(t) /\ latest' = latest
  BY <1>1, <1>2 DEF ForwardPiece
<1>9. Served(t, latest')
  BY <1>6, <1>7, <1>8 DEF Served
<1> QED BY <1>6, <1>8, <1>9, AssembleServed

LEMMA OptionValueServed ==
  ASSUME IInv, LInv, NEW a \in Args, OptionValue(a)
  PROVE  LInv'
<1>1. PICK o : o = mpActiveOption
  OBVIOUS
<1>2. PICK s : s = setValue(State, o, a.text)
  OBVIOUS
<1>3. PICK t : t = IF willAcceptArgument(s, o) THEN s ELSE closeOption(s)
  OBVIOUS
<1>4. o # NoOption /\ willAcceptArgument(State, o)
  BY <1>1 DEF OptionValue, NextArgument, getNextArgumentType, getNumberType,
              getWordType, ActiveTakesValue
<1>5. /\ RecordInv(State, started) /\ started \in SUBSET Options /\ State \in States
      /\ a.text \in Texts /\ latest \in Occurrences
  BY ArgumentParts DEF IInv, CursorOK, RecordInv
<1>6. o \in Options /\ o \in Params
  BY <1>1, <1>4, <1>5, StateFields, StateParts, OptionsArePositionalFree
<1>7. RoomIn(latest) /\ latest.option = o /\ State.current[o] = latest.values
  BY <1>1, <1>4, StateParts DEF LInv, Served, OptionValue, NextArgument
<1>8. /\ Becomes(t) /\ pc = "next" /\ Break(t)
      /\ latest' = [latest EXCEPT !.values = @ + 1]
  BY <1>1, <1>2, <1>3 DEF OptionValue, NextArgument
<1>9. latest'.option = o /\ latest'.values = latest.values + 1
  BY <1>5, <1>7, <1>8 DEF Occurrences
<1>10. RecordInv(s, started) /\ Offered(State, s, o) /\ s \in States
  BY <1>2, <1>4, <1>5, <1>6, RoomForValue, SetValueInv DEF RecordInv
<1>11. s.active = o /\ s.current[o] = latest'.values
  BY <1>1, <1>5, <1>6, <1>7, <1>9, <1>10, StateFields, StateParts DEF Offered
<1>12. RoomIn(latest') <=> willAcceptArgument(s, o)
  BY <1>4, <1>9, <1>11 DEF RoomIn, willAcceptArgument
<1>13. t \in States /\ Served(t, latest')
  <2>1. CASE willAcceptArgument(s, o)
    <3>1. t = s
      BY <1>3, <2>1
    <3> QED BY <1>9, <1>10, <1>11, <1>12, <2>1, <3>1 DEF Served
  <2>2. CASE ~willAcceptArgument(s, o)
    <3>1. t = closeOption(s)
      BY <1>3, <2>2
    <3>2. RecordInv(t, started) /\ t.active = NoOption
      BY <1>5, <1>10, <3>1, CloseOptionInv
    <3> QED BY <1>12, <2>2, <3>2 DEF Served, RecordInv
  <2> QED BY <2>1, <2>2
<1>14. pc' # "pieces"
  BY <1>8, TurnsGoOn
<1> QED BY <1>8, <1>13, <1>14, AssembleServed

LEMMA ParseServed == ASSUME IInv, LInv, Parse PROVE LInv'
<1>1. CASE EndOfStream
  BY <1>1, QuietStepsServed
<1>2. CASE ReadArgument
  <2>1. PICK a \in Args : \/ Include(a) \/ IncludeTooDeep(a) \/ EndOfOptions(a)
                          \/ StorePositional(a) \/ IgnoreArgument(a)
                          \/ OptionValue(a) \/ LongOption(a) \/ ForwardOption(a)
                          \/ DashOptions(a) \/ CommandName(a)
    BY <1>2 DEF ReadArgument
  <2> QED BY <2>1, QuietStepsServed, IncludeTooDeepServed,
             StorePositionalServed, IgnoreArgumentServed, OptionValueServed,
             LongOptionServed, ForwardOptionServed, CommandNameServed
<1>3. CASE ForwardPiece
  BY <1>3, ForwardPieceServed
<1>4. CASE StartLetter
  BY <1>4, StartLetterServed
<1>5. CASE Close
  BY <1>5 DEF Close, LInv
<1> QED BY <1>1, <1>2, <1>3, <1>4, <1>5 DEF Parse

LEMMA StutterServed == ASSUME LInv, UNCHANGED vars PROVE LInv'
<1>1. State' = State /\ UNCHANGED <<latest, pc, mpActiveOption>>
  BY DEF vars, State
<1>2. Served(State, latest)' = Served(State', latest')
  BY DEF Served, RoomIn, willAcceptArgument
<1> QED BY <1>1, <1>2 DEF LInv

LEMMA InitServed == Init => LInv
BY StateParts DEF Init, LInv, Served, RoomIn, nobody

(* Words go to the option that occurred last for exactly as long as this   *)
(* occurrence has room, whatever earlier occurrences took.                 *)
THEOREM LastOptionServed == Spec => []LastOptionTakesWords
<1>1. IInv /\ LInv /\ [Next]_vars => LInv'
  BY ParseServed, StutterServed DEF Next, Terminated
<1>2. LInv => LastOptionTakesWords
  <2> SUFFICES ASSUME LInv, pc # "done"
               PROVE  /\ ActiveTakesValue <=> HasRoom
                      /\ HasRoom => mpActiveOption = latest.option
    BY DEF LastOptionTakesWords
  <2>1. Served(State, latest) /\ (HasRoom <=> RoomIn(latest))
    BY DEF LInv, HasRoom, RoomIn
  <2> QED BY <2>1, StateParts
          DEF Served, RoomIn, ActiveTakesValue, willAcceptArgument
<1> QED BY <1>1, <1>2, InitServed, Inductive, PTL DEF Spec

-----------------------------------------------------------------------------
(* What a parameter does not touch: the commands of the result and the     *)
(* targets of the Values that are not its own.                             *)

Within(s, t, v) ==
  /\ t.result.commands = s.result.commands
  /\ \A w \in Values : w # v => t.target[w] = s.target[w]

LEMMA AddErrorWithin ==
  ASSUME NEW s \in States, NEW subject \in Subjects, NEW code \in ErrorCodes,
         NEW v, NEW t, t = addError(s, subject, code)
  PROVE  Within(s, t, v)
<1>1. PICK r : r = addErrorTo(s.result, subject, code)
  OBVIOUS
<1>2. r \in Results /\ r.commands = s.result.commands
  BY <1>1, StateFields, AddErrorFields
<1>3. t = [s EXCEPT !.result = r]
  BY <1>1 DEF addError
<1> QED BY <1>2, <1>3, WithResult DEF Within

LEMMA ExitWithin ==
  ASSUME NEW s \in States, NEW b \in Results, b.commands = s.result.commands,
         NEW v, NEW t, t = [s EXCEPT !.result = requestExitIn(b)]
  PROVE  Within(s, t, v)
<1>1. PICK u \in Results : u = [b EXCEPT !.exitRequested = TRUE]
  BY DEF Results
<1>2. PICK r : r = requestExitIn(b)
  OBVIOUS
<1>3. u.commands = s.result.commands /\ r = addErrorTo(u, NoSubject, "EXIT_REQUESTED")
  BY <1>1, <1>2 DEF Results, requestExitIn
<1>4. r \in Results /\ r.commands = s.result.commands
  BY <1>3, AddErrorFields DEF Subjects, ErrorCodes
<1> QED BY <1>2, <1>4, WithResult DEF Within

LEMMA ReplaceWithin ==
  ASSUME NEW s \in States, NEW v \in Values, NEW x \in Targets,
         NEW t, t = [s EXCEPT !.target[v] = x]
  PROVE  Within(s, t, v)
BY TargetReplaced DEF Within

LEMMA AssignWithin ==
  ASSUME NEW s \in States, NEW o \in Params, NEW text \in Texts
  PROVE  Within(s, assign(s, o, text), Def[o].value)
<1>1. PICK v \in Values : v = Def[o].value
  BY DefFields
<1>2. CASE ValueKind[v] = "void" \/ text \in Convertible[v]
  <2>1. PICK x \in Targets : x = stored(v, s.target[v], text)
    BY StoredType, StateFields
  <2>2. assign(s, o, text) = [s EXCEPT !.target[v] = x]
    BY <1>1, <1>2, <2>1 DEF assign
  <2> QED BY <1>1, <2>2, ReplaceWithin
<1>3. CASE ~(ValueKind[v] = "void" \/ text \in Convertible[v])
  <2>1. assign(s, o, text) = addError(s, o, "CONVERSION_ERROR")
    BY <1>1, <1>3 DEF assign
  <2>2. o \in Subjects /\ "CONVERSION_ERROR" \in ErrorCodes
    BY ParserErrorCodes
  <2> QED BY <2>1, <2>2, AddErrorWithin
<1> QED BY <1>2, <1>3

LEMMA RunActionWithin ==
  ASSUME NEW s \in States, NEW o \in Params, NEW text \in Texts
  PROVE  Within(s, runAction(s, o, text), Def[o].value)
<1>1. CASE Def[o].action = "assign"
  BY <1>1, AssignWithin DEF runAction
<1>2. CASE Def[o].action = "exit"
  <2>1. runAction(s, o, text) = [s EXCEPT !.result = requestExitIn(s.result)]
    BY <1>2 DEF runAction
  <2> QED BY <2>1, ExitWithin, StateFields
<1>3. CASE Def[o].action = "help"
  <2>1. PICK b \in Results : b = [s.result EXCEPT !.helpWasShown = TRUE]
    BY StateFields DEF Results
  <2>2. runAction(s, o, text) = [s EXCEPT !.result = requestExitIn(b)]
    BY <1>3, <2>1 DEF runAction
  <2>3. b.commands = s.result.commands
    BY <2>1, StateFields DEF Results
  <2> QED BY <2>2, <2>3, ExitWithin
<1>4. CASE Def[o].action \notin {"assign", "exit", "help"}
  <2>1. runAction(s, o, text) = addError(s, o, "ACTION_ERROR")
    BY <1>4 DEF runAction
  <2>2. o \in Subjects /\ "ACTION_ERROR" \in ErrorCodes
    BY ParserErrorCodes
  <2> QED BY <2>1, <2>2, AddErrorWithin
<1> QED BY <1>1, <1>2, <1>3, <1>4

LEMMA AssignMissingWithin ==
  ASSUME NEW s \in States, NEW o \in Params, NEW text \in Texts
  PROVE  Within(s, assignMissing(s, o, text), Def[o].value)
<1>1. PICK v \in Values : v = Def[o].value
  BY DefFields
<1>2. Within(s, s, v) /\ Within(s, assign(s, o, text), v)
  BY <1>1, AssignWithin DEF Within
<1>3. s.target[v] \in Targets
  BY StateFields
<1>4. CASE ValueKind[v] = "optvector"
  <2>1. PICK x \in Targets : x = [has |-> TRUE, items |-> s.target[v].items]
    BY <1>3 DEF Targets
  <2>2. assignMissing(s, o, text) = [s EXCEPT !.target[v] = x]
    BY <1>1, <1>4, <2>1 DEF assignMissing
  <2> QED BY <1>1, <2>2, ReplaceWithin
<1>5. CASE ValueKind[v] = "optional"
  <2>1. PICK x \in Targets : x = [has |-> TRUE, items |-> <<Zero>>]
    BY SingleTarget, DefinitionAssumption
  <2>2. assignMissing(s, o, text) = IF s.target[v].has THEN s
                                     ELSE [s EXCEPT !.target[v] = x]
    BY <1>1, <1>5, <2>1 DEF assignMissing
  <2>3. Within(s, [s EXCEPT !.target[v] = x], v)
    BY ReplaceWithin
  <2> QED BY <1>1, <1>2, <2>2, <2>3
<1>6. CASE ValueKind[v] \notin {"optvector", "optional"}
  BY <1>1, <1>2, <1>6 DEF assignMissing
<1> QED BY <1>4, <1>5, <1>6

LEMMA SetValueWithin ==
  ASSUME NEW s \in States, NEW o \in Params, NEW text \in Texts
  PROVE  Within(s, setValue(s, o, text), Def[o].value)
<1>1. PICK c : c = countArgument(s, o)
  OBVIOUS
<1>2. PICK v \in Values : v = Def[o].value
  BY DefFields
<1>3. PICK a : a = [c EXCEPT !.assigned[v] = @ + 1]
  OBVIOUS
<1>4. c \in States /\ c.result = s.result /\ c.target = s.target
  BY <1>1, CountArgumentFrame
<1>5. a \in States /\ a.result = s.result /\ a.target = s.target
  BY <1>3, <1>4, CountAssignment
<1>6. CASE isValidChoice(o, text)
  <2>1. setValue(s, o, text) = runAction(a, o, text)
    BY <1>1, <1>2, <1>3, <1>6 DEF setValue
  <2> QED BY <1>5, <2>1, RunActionWithin DEF Within
<1>7. CASE ~isValidChoice(o, text)
  <2>1. setValue(s, o, text) = addError(c, o, "INVALID_CHOICE")
    BY <1>1, <1>7 DEF setValue
  <2>2. o \in Subjects /\ "INVALID_CHOICE" \in ErrorCodes
    BY ParserErrorCodes
  <2>3. Within(c, setValue(s, o, text), v)
    BY <1>4, <2>1, <2>2, AddErrorWithin
  <2> QED BY <1>2, <1>4, <2>3 DEF Within
<1> QED BY <1>6, <1>7

LEMMA AutoSetMissingValueWithin ==
  ASSUME NEW s \in States, NEW o \in Params
  PROVE  Within(s, autoSetMissingValue(s, o), Def[o].value)
<1>1. PICK c : c = countArgument(s, o)
  OBVIOUS
<1>2. PICK v \in Values : v = Def[o].value
  BY DefFields
<1>3. PICK a : a = [c EXCEPT !.assigned[v] = @ + 1]
  OBVIOUS
<1>4. c \in States /\ c.result = s.result /\ c.target = s.target
  BY <1>1, CountArgumentFrame
<1>5. a \in States /\ a.result = s.result /\ a.target = s.target
  BY <1>3, <1>4, CountAssignment
<1>6. CASE ValueKind[v] = "void"
  <2>1. autoSetMissingValue(s, o) = c
    BY <1>1, <1>2, <1>6 DEF autoSetMissingValue, setMissingValue
  <2> QED BY <1>4, <2>1 DEF Within
<1>7. CASE ValueKind[v] # "void"
  <2>1. autoSetMissingValue(s, o) = assignMissing(a, o, Def[o].flagValue)
    BY <1>1, <1>2, <1>3, <1>7 DEF autoSetMissingValue, setMissingValue
  <2> QED BY <1>5, <2>1, DefFields, AssignMissingWithin DEF Within
<1> QED BY <1>6, <1>7

(* Closing touches nothing but the active option and its target.           *)
LEMMA CloseOptionWithin ==
  ASSUME NEW s \in States, NEW o \in Options, s.active = o,
         NEW t, t = closeOption(s)
  PROVE  /\ Within(s, t, Def[o].value)
         /\ \A p \in Params : p # o => /\ t.current[p] = s.current[p]
                                       /\ t.total[p] = s.total[p]
<1>1. o \in Params /\ o # NoOption /\ o \in Subjects /\ "MISSING_ARGUMENT" \in ErrorCodes
      /\ "MISSING_ARGUMENT" \in ErrorCodes \ {"EXIT_REQUESTED"}
  BY OptionsArePositionalFree, ParserErrorCodes
<1>2. PICK u : /\ t = [u EXCEPT !.active = NoOption]
               /\ \/ u = s
                  \/ u = addError(s, o, "MISSING_ARGUMENT")
                  \/ u = autoSetMissingValue(s, o)
  <2>1. CASE needsMoreArguments(s, o)
    BY <1>1, <2>1 DEF closeOption, haveActiveOption
  <2>2. CASE /\ ~needsMoreArguments(s, o)
             /\ willAcceptArgument(s, o) /\ ~wasAssignedThroughThisOption(s, o)
    BY <1>1, <2>2 DEF closeOption, haveActiveOption
  <2>3. CASE /\ ~needsMoreArguments(s, o)
             /\ ~(willAcceptArgument(s, o) /\ ~wasAssignedThroughThisOption(s, o))
    BY <1>1, <2>3 DEF closeOption, haveActiveOption
  <2> QED BY <2>1, <2>2, <2>3
<1>3. /\ u \in States /\ Within(s, u, Def[o].value)
      /\ \A p \in Params : p # o => /\ u.current[p] = s.current[p]
                                    /\ u.total[p] = s.total[p]
  <2>1. CASE u = s
    BY <2>1 DEF Within
  <2>2. CASE u = addError(s, o, "MISSING_ARGUMENT")
    BY <1>1, <2>2, AddErrorExecuted, AddErrorWithin DEF Executed
  <2>3. CASE u = autoSetMissingValue(s, o)
    <3>1. Offered(s, u, o)
      BY <1>1, <2>3, AutoSetMissingValueOffered
    <3>2. Within(s, u, Def[o].value)
      BY <1>1, <2>3, AutoSetMissingValueWithin
    <3>3. s.current \in [Params -> Nat] /\ s.total \in [Params -> Nat]
      BY StateFields
    <3> QED BY <1>1, <3>1, <3>2, <3>3 DEF Offered
  <2> QED BY <1>2, <2>1, <2>2, <2>3
<1>4. /\ t.result = u.result /\ t.target = u.target
      /\ t.current = u.current /\ t.total = u.total
  BY <1>2, <1>3, WithActive
<1> QED BY <1>3, <1>4 DEF Within

-----------------------------------------------------------------------------
(* The parse after "--".                                                   *)

(* "--" is read between two arguments, and no argument after it starts a   *)
(* list of letters or of forwarded values.                                 *)
PastDashDash == mIgnoreOptions => pc \notin {"letters", "pieces"}

LEMMA FreeArgumentsOnly ==
  ASSUME mIgnoreOptions, NEW a \in Args
  PROVE  ~(\/ Include(a) \/ IncludeTooDeep(a) \/ EndOfOptions(a) \/ OptionValue(a)
           \/ LongOption(a) \/ ForwardOption(a) \/ DashOptions(a) \/ CommandName(a))
<1>1. getNextArgumentType(a) = "freeArgument"
  BY DEF getNextArgumentType
<1> QED BY <1>1 DEF Include, IncludeTooDeep, EndOfOptions, OptionValue,
           LongOption, ForwardOption, DashOptions, CommandName, NextArgument

LEMMA StepsPastDashDash ==
  ASSUME PastDashDash, mIgnoreOptions, Parse
  PROVE  \/ EndOfStream \/ Close
         \/ \E a \in Args : StorePositional(a) \/ IgnoreArgument(a)
<1>1. ~ForwardPiece /\ ~StartLetter
  BY DEF PastDashDash, ForwardPiece, StartLetter
<1> QED BY <1>1, FreeArgumentsOnly DEF Parse, ReadArgument

LEMMA PastDashDashKept == ASSUME PastDashDash, Parse PROVE PastDashDash'
<1>1. CASE mIgnoreOptions
  <2>1. CASE EndOfStream
    BY <2>1 DEF EndOfStream, Leave, PastDashDash
  <2>2. CASE Close
    BY <2>2 DEF Close, PastDashDash
  <2>3. CASE \E a \in Args : StorePositional(a) \/ IgnoreArgument(a)
    BY <2>3 DEF StorePositional, IgnoreArgument, Continue, PastDashDash
  <2> QED BY <1>1, <2>1, <2>2, <2>3, StepsPastDashDash
<1>2. CASE ~mIgnoreOptions
  <2>1. CASE \E a \in Args : EndOfOptions(a)
    BY <2>1 DEF EndOfOptions, Continue, PastDashDash
  <2>2. CASE ~(\E a \in Args : EndOfOptions(a))
    <3>1. mIgnoreOptions' = mIgnoreOptions
      BY <2>2 DEF Parse, EndOfStream, ReadArgument, ForwardPiece, StartLetter,
         Close, Include, IncludeTooDeep, StorePositional, IgnoreArgument,
         OptionValue, LongOption, ForwardOption, DashOptions, CommandName
    <3> QED BY <1>2, <3>1 DEF PastDashDash
  <2> QED BY <2>1, <2>2
<1> QED BY <1>1, <1>2

(* What a step after "--" leaves alone.                                    *)
Frozen ==
  /\ mIgnoreOptions'
  /\ started' = started
  /\ mpActiveOption' \in {mpActiveOption, NoOption}
  /\ mResult'.commands = mResult.commands
  /\ \A o \in Options : ~(pc = "close" /\ o = mpActiveOption) =>
       /\ mCurrentAssignCount'[o] = mCurrentAssignCount[o]
       /\ mTotalAssignCount'[o] = mTotalAssignCount[o]
       /\ Alone(o) => mTarget'[Def[o].value] = mTarget[Def[o].value]

LEMMA EndOfStreamFrozen == ASSUME mIgnoreOptions, EndOfStream PROVE Frozen
BY StateParts DEF EndOfStream, Becomes, Frozen

LEMMA IgnoreArgumentFrozen ==
  ASSUME IInv, mIgnoreOptions, NEW a \in Args, IgnoreArgument(a)
  PROVE  Frozen
<1>1. PICK r : r = addIgnoredTo(mResult, a.text)
  OBVIOUS
<1>2. mResult \in Results
  BY StateFields, StateParts DEF IInv, RecordInv
<1>3. r.commands = mResult.commands
  BY <1>1, <1>2 DEF addIgnoredTo, Results
<1>4. Becomes([State EXCEPT !.result = r])
  BY <1>1, StateParts DEF IgnoreArgument, State
<1>5. /\ mResult' = r /\ mpActiveOption' = mpActiveOption /\ mTarget' = mTarget
      /\ mCurrentAssignCount' = mCurrentAssignCount
      /\ mTotalAssignCount' = mTotalAssignCount
  BY <1>4 DEF Becomes, State
<1>6. mIgnoreOptions' = mIgnoreOptions /\ started' = started
  BY DEF IgnoreArgument
<1> QED BY <1>3, <1>5, <1>6 DEF Frozen

LEMMA StorePositionalFrozen ==
  ASSUME IInv, mIgnoreOptions, NEW a \in Args, StorePositional(a)
  PROVE  Frozen
<1>1. PICK p \in mPosition..Len(Positional) :
        Becomes(setValue(State, Positional[p], a.text))
  BY DEF StorePositional
<1>2. PICK q : q = Positional[p]
  OBVIOUS
<1>3. PICK t : t = setValue(State, q, a.text)
  OBVIOUS
<1>4. /\ State \in States /\ mPosition \in 1..(Len(Positional) + 1)
      /\ Len(Positional) \in Nat
  BY DefinitionAssumption DEF IInv, CursorOK, RecordInv
<1>5. q \in Positionals /\ q \in Params /\ a.text \in Texts
  BY <1>2, <1>4, ArgumentParts DEF Positionals, Params
<1>6. Offered(State, t, q) /\ Within(State, t, Def[q].value)
  BY <1>3, <1>4, <1>5, SetValueOffered, SetValueWithin
<1>7. /\ mResult' = t.result /\ mpActiveOption' = t.active /\ mTarget' = t.target
      /\ mCurrentAssignCount' = t.current /\ mTotalAssignCount' = t.total
  BY <1>1, <1>2, <1>3 DEF Becomes
<1>8. mIgnoreOptions' = mIgnoreOptions /\ started' = started
  BY DEF StorePositional
<1>9. /\ mpActiveOption' = mpActiveOption
      /\ mResult'.commands = mResult.commands
  BY <1>6, <1>7, StateParts DEF Offered, Within
<1>10. ASSUME NEW o \in Options
       PROVE  /\ mCurrentAssignCount'[o] = mCurrentAssignCount[o]
              /\ mTotalAssignCount'[o] = mTotalAssignCount[o]
              /\ Alone(o) => mTarget'[Def[o].value] = mTarget[Def[o].value]
  <2>1. o \in Params /\ o # q /\ Def[o].value \in Values
    BY <1>5, OptionsArePositionalFree, DefFields
  <2>2. /\ mCurrentAssignCount'[o] = mCurrentAssignCount[o]
        /\ mTotalAssignCount'[o] = mTotalAssignCount[o]
    BY <1>4, <1>6, <1>7, <2>1, StateFields, StateParts DEF Offered
  <2>3. Alone(o) => Def[o].value # Def[q].value
    BY <1>5, <2>1 DEF Alone
  <2> QED BY <1>6, <1>7, <2>1, <2>2, <2>3, StateParts DEF Within
<1> QED BY <1>8, <1>9, <1>10 DEF Frozen

LEMMA CloseFrozen == ASSUME IInv, mIgnoreOptions, Close PROVE Frozen
<1>1. PICK t : t = closeOption(State)
  OBVIOUS
<1>2. PICK a : a = mpActiveOption
  OBVIOUS
<1>3. /\ RecordInv(State, started) /\ started \in SUBSET Options /\ State \in States
      /\ State.active = a
  BY <1>2, StateParts DEF IInv, CursorOK, RecordInv
<1>4. t.active = NoOption
  BY <1>1, <1>3, CloseOptionInv
<1>5. /\ mResult' = t.result /\ mpActiveOption' = t.active /\ mTarget' = t.target
      /\ mCurrentAssignCount' = t.current /\ mTotalAssignCount' = t.total
      /\ mIgnoreOptions' = mIgnoreOptions /\ started' = started /\ pc = "close"
  BY <1>1 DEF Close, Becomes
<1>6. CASE a = NoOption
  <2>1. t = State
    BY <1>1, <1>3, <1>6 DEF closeOption, haveActiveOption
  <2> QED BY <1>4, <1>5, <2>1, StateParts DEF Frozen
<1>7. CASE a # NoOption
  <2>1. a \in Options /\ a \in Params
    BY <1>3, <1>7, StateFields, OptionsArePositionalFree
  <2>2. /\ Within(State, t, Def[a].value)
        /\ \A p \in Params : p # a => /\ t.current[p] = State.current[p]
                                      /\ t.total[p] = State.total[p]
    BY <1>1, <1>3, <2>1, CloseOptionWithin
  <2>3. ASSUME NEW o \in Options, o # a
        PROVE  /\ mCurrentAssignCount'[o] = mCurrentAssignCount[o]
               /\ mTotalAssignCount'[o] = mTotalAssignCount[o]
               /\ Alone(o) => mTarget'[Def[o].value] = mTarget[Def[o].value]
    <3>1. o \in Params /\ Def[o].value \in Values
      BY OptionsArePositionalFree, DefFields
    <3>2. Alone(o) => Def[o].value # Def[a].value
      BY <2>1, <2>3 DEF Alone
    <3> QED BY <1>5, <2>2, <2>3, <3>1, <3>2, StateParts DEF Within
  <2>4. mResult'.commands = mResult.commands
    BY <1>5, <2>2, StateParts DEF Within
  <2> QED BY <1>2, <1>4, <1>5, <2>3, <2>4 DEF Frozen
<1> QED BY <1>6, <1>7

(* Once "--" was read no option occurs or receives a value, until the      *)
(* option that was active before it is closed with the parse.              *)
THEOREM OptionsFrozen == Spec => OptionsFrozenAfterDashDash
<1>1. Init => PastDashDash
  BY DEF Init, PastDashDash
<1>2. PastDashDash /\ [Next]_vars => PastDashDash'
  <2>1. PastDashDash /\ UNCHANGED vars => PastDashDash'
    BY DEF PastDashDash, vars
  <2> QED BY <2>1, PastDashDashKept DEF Next, Terminated
<1>3. ASSUME IInv, PastDashDash, mIgnoreOptions, Parse PROVE Frozen
  BY <1>3, StepsPastDashDash, EndOfStreamFrozen, StorePositionalFrozen,
     IgnoreArgumentFrozen, CloseFrozen
<1>4. IInv /\ PastDashDash /\ [Next]_vars => [mIgnoreOptions => Frozen]_vars
  BY <1>3 DEF Next, Terminated
<1>5. Spec => [][mIgnoreOptions => Frozen]_vars
  BY <1>1, <1>2, <1>4, Inductive, PTL DEF Spec
<1> QED BY <1>5 DEF OptionsFrozenAfterDashDash, Frozen

-----------------------------------------------------------------------------
(* What the targets and the parameters hold.  The record keeps Faithful,   *)
(* with one exception that only lasts inside a list of forwarded arguments:*)
(* the option was started and its values still wait in pieces.             *)

Waiting == { pieces[i].option : i \in 1..Len(pieces) }

FInv ==
  /\ Faithful(State, started, Waiting)
  /\ pc = "done" => mpActiveOption = NoOption
  /\ pc # "pieces" => pieces = <<>>

LEMMA AssembleFaithful ==
  ASSUME NEW t \in States, Becomes(t), Faithful(t, started', Waiting'),
         pc' = "done" => t.active = NoOption,
         pc' # "pieces" => pieces' = <<>>
  PROVE  FInv'
<1>1. State' = t
  BY BecomesState
<1>2. mpActiveOption' = t.active
  BY DEF Becomes
<1>3. Faithful(State', started', Waiting')
  BY <1>1
<1>4. (Faithful(State, started, Waiting))' = Faithful(State', started', Waiting')
  BY DEF Faithful, ValuesOK, ValueOK, TargetOK, HasContent, Failed, NoArgv, Used
<1> QED BY <1>2, <1>3, <1>4 DEF FInv

LEMMA NextTurnFaithful ==
  ASSUME FInv, pc # "pieces", pieces' = pieces, pc' # "done", pc' # "pieces",
         NEW t \in States, Becomes(t), Faithful(t, started', Waiting)
  PROVE  FInv'
<1>1. Waiting' = Waiting
  BY DEF Waiting
<1>2. pieces' = <<>>
  BY DEF FInv
<1> QED BY <1>1, <1>2, AssembleFaithful

LEMMA QuietFaithful ==
  ASSUME IInv, FInv, pc # "pieces", pieces' = pieces, started' = started,
         pc' # "done", pc' # "pieces", Becomes(State)
  PROVE  FInv'
BY NextTurnFaithful DEF IInv, RecordInv, FInv

LEMMA StartOptionFaithful ==
  ASSUME IInv, FInv, NEW name \in Names, NEW value \in Texts \cup {NoText},
         noteStarted(name, value), NEW t, t = startOption(name, value)
  PROVE  Faithful(t, started', Waiting)
<1>1. PICK o : o = findOption(name)
  OBVIOUS
<1>2. PICK s : s = closeOption(State)
  OBVIOUS
<1>3. /\ RecordInv(State, started) /\ started \in SUBSET Options
      /\ o \in Options \cup {NoOption} /\ Faithful(State, started, Waiting)
  BY <1>1, FindOption DEF IInv, CursorOK, FInv
<1>4. RecordInv(s, started) /\ s.active = NoOption
  BY <1>2, <1>3, CloseOptionInv
<1>5. Faithful(s, started, Waiting)
  BY <1>2, <1>3, CloseOptionFaithful
<1>6. s \in States
  BY <1>4 DEF RecordInv
<1>7. CASE o = NoOption
  <2>1. t = addError(s, name, "UNKNOWN_OPTION") /\ started' = started
    BY <1>1, <1>2, <1>7 DEF startOption, noteStarted
  <2>2. /\ name \in Subjects
        /\ "UNKNOWN_OPTION" \in ErrorCodes \ {"EXIT_REQUESTED", "INVALID_ARGV"}
    BY ParserErrorCodes
  <2>3. Faithful(t, started, Waiting)
    BY <1>5, <1>6, <2>1, <2>2, AddErrorFaithful
  <2> QED BY <2>1, <2>3
<1>8. CASE o # NoOption
  <2>1. t = beginOption(s, o, value) /\ started' = started \cup {o} /\ o \in Options
    BY <1>1, <1>2, <1>3, <1>8 DEF startOption, noteStarted
  <2>2. Faithful(t, started \cup {o}, Waiting)
    BY <1>3, <1>4, <1>5, <2>1, BeginOptionFaithful
  <2> QED BY <2>1, <2>2
<1> QED BY <1>7, <1>8

(* A handler that starts an option by its name.                            *)
LEMMA StartOptionStep ==
  ASSUME IInv, FInv, NEW name \in Names, NEW value \in Texts \cup {NoText},
         noteStarted(name, value), mPosition' = mPosition,
         Becomes(startOption(name, value)),
         pc # "pieces", pieces' = pieces, pc' # "done", pc' # "pieces"
  PROVE  FInv'
<1>1. PICK t : t = startOption(name, value)
  OBVIOUS
<1>2. Becomes(t)
  BY <1>1
<1>3. t \in States
  BY <1>1, <1>2, StartOptionInv DEF Advances, RecordInv
<1>4. Faithful(t, started', Waiting)
  BY <1>1, StartOptionFaithful
<1> QED BY <1>2, <1>3, <1>4, NextTurnFaithful

LEMMA LongOptionFaithful ==
  ASSUME IInv, FInv, NEW a \in Args, LongOption(a)
  PROVE  FInv'
<1>1. a.whole \in Names /\ a.value \in Texts \cup {NoText}
  BY ArgumentParts
<1>2. /\ noteStarted(a.whole, a.value) /\ mPosition' = mPosition /\ pieces' = pieces
      /\ Becomes(startOption(a.whole, a.value)) /\ pc = "next"
  BY DEF LongOption, NextArgument
<1>3. pc' # "done" /\ pc' # "pieces"
  BY TurnsGoOn DEF LongOption
<1> QED BY <1>1, <1>2, <1>3, StartOptionStep

LEMMA StartLetterFaithful == ASSUME IInv, FInv, StartLetter PROVE FInv'
<1>1. Head(letters) \in Names /\ NoText \in Texts \cup {NoText}
  BY DEF IInv, CursorOK, StartLetter
<1>2. /\ noteStarted(Head(letters), NoText) /\ mPosition' = mPosition /\ pieces' = pieces
      /\ Becomes(startOption(Head(letters), NoText)) /\ pc = "letters"
  BY DEF StartLetter
<1>3. pc' # "done" /\ pc' # "pieces"
  BY <1>2, TurnsGoOn DEF StartLetter
<1> QED BY <1>1, <1>2, <1>3, StartOptionStep

LEMMA ForwardOptionFaithful ==
  ASSUME IInv, FInv, NEW a \in Args, ForwardOption(a)
  PROVE  FInv'
<1>1. PICK o : o = findOption(a.names[1])
  OBVIOUS
<1>2. PICK s : s = closeOption(State)
  OBVIOUS
<1>3. PICK t : t = onOptionStarted(s, o)
  OBVIOUS
<1>4. /\ RecordInv(State, started) /\ started \in SUBSET Options
      /\ Faithful(State, started, Waiting)
      /\ o \in Options /\ a.pieces # <<>> /\ a.pieces \in Seq(Texts)
  BY <1>1, FindOption, ArgumentParts
     DEF IInv, CursorOK, FInv, ForwardOption, IsForwardList, optionWithNameExists
<1>5. /\ Becomes(t) /\ started' = started \cup {o} /\ pc' = "pieces"
      /\ pieces' = [i \in 1..Len(a.pieces) |-> [option |-> o, text |-> a.pieces[i]]]
  BY <1>1, <1>2, <1>3, <1>4, OptionsArePositionalFree DEF ForwardOption
<1>6. RecordInv(s, started)
  BY <1>2, <1>4, CloseOptionInv
<1>7. s \in States /\ Faithful(s, started, Waiting)
  BY <1>2, <1>4, <1>6, CloseOptionFaithful DEF RecordInv
<1>8. t \in States /\ Faithful(t, started, Waiting)
  BY <1>3, <1>4, <1>7, StartedFaithful
<1>9. Waiting \cup {o} \subseteq Waiting'
  <2>1. Waiting = {}
    BY DEF FInv, Waiting, ForwardOption, NextArgument
  <2>2. Len(a.pieces) \in Nat /\ Len(a.pieces) # 0
    BY <1>4
  <2>3. 1 \in 1..Len(pieces') /\ pieces'[1].option = o
    BY <1>5, <2>2
  <2> QED BY <2>1, <2>3 DEF Waiting
<1>10. Faithful(t, started \cup {o}, Waiting')
  <2>1. Faithful(t, started \cup {o}, Waiting \cup {o})
    BY <1>8, WaitingStarted
  <2> QED BY <1>9, <2>1, UsedMore
<1> QED BY <1>5, <1>8, <1>10, AssembleFaithful

(* A piece is stored: the option waits for the others only.                *)
LEMMA ForwardPieceFaithful == ASSUME IInv, FInv, ForwardPiece PROVE FInv'
<1>1. PICK o : o = Head(pieces).option
  OBVIOUS
<1>2. PICK t : t = setValue(State, o, Head(pieces).text)
  OBVIOUS
<1>3. pieces \in Seq(Pending) /\ pieces # <<>>
  BY DEF IInv, CursorOK, ForwardPiece
<1>4. /\ RecordInv(State, started) /\ started \in SUBSET Options /\ State \in States
      /\ Faithful(State, started, Waiting)
      /\ o \in Options /\ o \in Params /\ Head(pieces).text \in Texts
  <2>1. Head(pieces) \in Pending
    BY <1>3
  <2> QED BY <1>1, <2>1, OptionsArePositionalFree
          DEF Pending, IInv, CursorOK, RecordInv, FInv
<1>5. Becomes(t) /\ started' = started /\ pieces' = Tail(pieces) /\ pc = "pieces"
  BY <1>1, <1>2 DEF ForwardPiece
<1>6. t \in States
  <2>1. Offered(State, t, o)
    BY <1>2, <1>4, SetValueOffered
  <2> QED BY <2>1 DEF Offered
<1>7. Faithful(t, started, Waiting \ {o})
  BY <1>2, <1>4, SetValueFaithful
<1>8. Waiting \ {o} \subseteq Waiting'
  <2> SUFFICES ASSUME NEW i \in 1..Len(pieces), pieces[i].option # o
               PROVE  pieces[i].option \in Waiting'
    BY DEF Waiting
  <2>1. i # 1
    BY <1>1, <1>3
  <2>2. /\ i - 1 \in 1..Len(Tail(pieces))
        /\ Tail(pieces)[i - 1] = pieces[i]
    BY <1>3, <2>1
  <2> QED BY <1>5, <2>2 DEF Waiting
<1>9. Faithful(t, started', Waiting')
  BY <1>5, <1>7, <1>8, UsedMore
<1>10. (pc' = "done" => t.active = NoOption) /\ (pc' # "pieces" => pieces' = <<>>)
  <2>1. CASE Tail(pieces) = <<>>
    <3>1. Break(t)
      BY <1>1, <1>2, <2>1 DEF ForwardPiece
    <3> QED BY <1>5, <2>1, <3>1, TurnsGoOn
  <2>2. CASE Tail(pieces) # <<>>
    BY <1>5, <2>2 DEF ForwardPiece
  <2> QED BY <2>1, <2>2
<1> QED BY <1>5, <1>6, <1>9, <1>10, AssembleFaithful

LEMMA StorePositionalFaithful ==
  ASSUME IInv, FInv, NEW a \in Args, StorePositional(a)
  PROVE  FInv'
<1>1. PICK p \in mPosition..Len(Positional) :
        Becomes(setValue(State, Positional[p], a.text))
  BY DEF StorePositional
<1>2. PICK o : o = Positional[p]
  OBVIOUS
<1>3. PICK t : t = setValue(State, o, a.text)
  OBVIOUS
<1>4. /\ Becomes(t) /\ started' = started /\ pieces' = pieces /\ pc = "next"
      /\ pc' # "done" /\ pc' # "pieces"
  BY <1>1, <1>2, <1>3 DEF StorePositional, NextArgument, Continue
<1>5. /\ RecordInv(State, started) /\ started \in SUBSET Options /\ State \in States
      /\ Faithful(State, started, Waiting) /\ a.text \in Texts
      /\ mPosition \in 1..(Len(Positional) + 1) /\ Len(Positional) \in Nat
  BY ArgumentParts, DefinitionAssumption DEF IInv, CursorOK, RecordInv, FInv
<1>6. o \in Params
  BY <1>2, <1>5 DEF Positionals, Params
<1>7. t \in States
  BY <1>3, <1>5, <1>6, SetValueOffered DEF Offered
<1>8. Faithful(t, started, Waiting \ {o})
  BY <1>3, <1>5, <1>6, SetValueFaithful
<1>9. Faithful(t, started', Waiting)
  BY <1>4, <1>8, UsedMore
<1> QED BY <1>4, <1>7, <1>9, NextTurnFaithful

LEMMA OptionValueFaithful ==
  ASSUME IInv, FInv, NEW a \in Args, OptionValue(a)
  PROVE  FInv'
<1>1. PICK o : o = mpActiveOption
  OBVIOUS
<1>2. PICK s : s = setValue(State, o, a.text)
  OBVIOUS
<1>3. PICK t : t = IF willAcceptArgument(s, o) THEN s ELSE closeOption(s)
  OBVIOUS
<1>4. o # NoOption /\ willAcceptArgument(State, o)
  BY <1>1 DEF OptionValue, NextArgument, getNextArgumentType, getNumberType,
              getWordType, ActiveTakesValue
<1>5. /\ RecordInv(State, started) /\ started \in SUBSET Options /\ State \in States
      /\ Faithful(State, started, Waiting) /\ a.text \in Texts
  BY ArgumentParts DEF IInv, CursorOK, RecordInv, FInv
<1>6. o \in Options /\ o \in Params
  BY <1>1, <1>4, <1>5, StateFields, StateParts, OptionsArePositionalFree
<1>7. /\ Becomes(t) /\ started' = started /\ pieces' = pieces /\ pc = "next"
      /\ Break(t)
  BY <1>1, <1>2, <1>3 DEF OptionValue, NextArgument
<1>8. pc' # "done" /\ pc' # "pieces"
  BY <1>7, TurnsGoOn
<1>9. RecordInv(s, started)
  BY <1>2, <1>4, <1>5, <1>6, RoomForValue, SetValueInv
<1>10. Faithful(s, started, Waiting)
  <2>1. Faithful(s, started, Waiting \ {o})
    BY <1>2, <1>5, <1>6, SetValueFaithful
  <2> QED BY <2>1, UsedMore
<1>11. t \in States /\ Faithful(t, started', Waiting)
  <2>1. CASE willAcceptArgument(s, o)
    BY <1>3, <1>7, <1>9, <1>10, <2>1 DEF RecordInv
  <2>2. CASE ~willAcceptArgument(s, o)
    <3>1. t = closeOption(s)
      BY <1>3, <2>2
    <3>2. RecordInv(t, started)
      BY <1>5, <1>9, <3>1, CloseOptionInv
    <3>3. Faithful(t, started, Waiting)
      BY <1>5, <1>9, <1>10, <3>1, CloseOptionFaithful
    <3> QED BY <1>7, <3>2, <3>3 DEF RecordInv
  <2> QED BY <2>1, <2>2
<1> QED BY <1>7, <1>8, <1>11, NextTurnFaithful

LEMMA IncludeTooDeepFaithful ==
  ASSUME IInv, FInv, NEW a \in Args, IncludeTooDeep(a)
  PROVE  FInv'
<1>1. PICK t : t = addError(State, NoSubject, "INCLUDE_TOO_DEEP")
  OBVIOUS
<1>2. /\ Becomes(t) /\ started' = started /\ pieces' = pieces /\ pc = "next"
      /\ pc' # "done" /\ pc' # "pieces"
  BY <1>1 DEF IncludeTooDeep, NextArgument
<1>3. /\ State \in States /\ Faithful(State, started, Waiting)
      /\ NoSubject \in Subjects
      /\ "INCLUDE_TOO_DEEP" \in ErrorCodes \ {"EXIT_REQUESTED", "INVALID_ARGV"}
      /\ "INCLUDE_TOO_DEEP" \in ErrorCodes \ {"EXIT_REQUESTED"}
  BY ParserErrorCodes DEF IInv, RecordInv, FInv
<1>4. t \in States
  BY <1>1, <1>3, AddErrorExecuted DEF Executed
<1>5. Faithful(t, started, Waiting)
  BY <1>1, <1>3, AddErrorFaithful
<1> QED BY <1>2, <1>4, <1>5, NextTurnFaithful

(* A step that only rewrites the result.                                   *)
LEMMA ResultStepFaithful ==
  ASSUME IInv, FInv, NEW r \in Results, mResult.errors \subseteq r.errors, NoArgv(r),
         NEW t, t = [State EXCEPT !.result = r], Becomes(t),
         started' = started, pieces' = pieces, pc # "pieces",
         pc' # "done", pc' # "pieces"
  PROVE  FInv'
<1>1. State \in States /\ Faithful(State, started, Waiting)
  BY DEF IInv, RecordInv, FInv
<1>2. t \in States
  BY <1>1, WithResult
<1>3. Faithful(t, started, Waiting)
  BY <1>1, StateParts, ResultFaithful
<1> QED BY <1>2, <1>3, NextTurnFaithful

LEMMA IgnoreArgumentFaithful ==
  ASSUME IInv, FInv, NEW a \in Args, IgnoreArgument(a)
  PROVE  FInv'
<1>1. PICK r : r = addIgnoredTo(mResult, a.text)
  OBVIOUS
<1>2. mResult \in Results /\ a.text \in Texts /\ NoArgv(mResult)
  BY StateFields, StateParts, ArgumentParts DEF IInv, RecordInv, FInv, Faithful
<1>3. r \in Results
  BY <1>1, <1>2, AddIgnoredGrows DEF Grows
<1>4. r.errors = mResult.errors
  BY <1>1, <1>2 DEF addIgnoredTo, Results
<1>5. Becomes([State EXCEPT !.result = r])
  BY <1>1, StateParts DEF IgnoreArgument, State
<1>6. /\ started' = started /\ pieces' = pieces /\ pc = "next"
      /\ pc' # "done" /\ pc' # "pieces"
  BY DEF IgnoreArgument, NextArgument, Continue
<1>7. NoArgv(r)
  BY <1>2, <1>4 DEF NoArgv
<1> QED BY <1>3, <1>4, <1>5, <1>6, <1>7, ResultStepFaithful

LEMMA CommandNameFaithful ==
  ASSUME IInv, FInv, NEW a \in Args, CommandName(a)
  PROVE  FInv'
<1>1. PICK sub \in SubResults :
        Becomes([State EXCEPT !.result =
                   addResultTo(addCommandTo(@, a.command), sub)])
  BY DEF CommandName
<1>2. PICK q : q = addCommandTo(mResult, a.command)
  OBVIOUS
<1>3. PICK r : r = addResultTo(q, sub)
  OBVIOUS
<1>4. /\ mResult \in Results /\ NoArgv(mResult) /\ a.command \in Commands
      /\ sub \in Results /\ ResultContract(sub) /\ NoArgv(sub)
      /\ ~sub.errorsWereShown
  BY StateFields, StateParts, ArgumentParts, StreamAssumption
     DEF IInv, RecordInv, FInv, Faithful, NoArgv, CommandName, NextArgument,
         getNextArgumentType, getNumberType, getWordType
<1>5. q \in Results
  BY <1>2, <1>4, AddCommandGrows DEF Grows
<1>6. r \in Results
  BY <1>3, <1>4, <1>5, AddResultGrows DEF Grows
<1>7. q.errors = mResult.errors
  BY <1>2, <1>4 DEF addCommandTo, Results
<1>8. r.errors = q.errors \cup sub.errors
  BY <1>3, <1>5 DEF addResultTo, Results
<1>9. mResult.errors \subseteq r.errors /\ NoArgv(r)
  BY <1>4, <1>7, <1>8 DEF NoArgv
<1>10. Becomes([State EXCEPT !.result = r])
  BY <1>1, <1>2, <1>3, StateParts, Zenon
<1>11. /\ started' = started /\ pieces' = pieces /\ pc = "next"
       /\ pc' # "done" /\ pc' # "pieces"
  BY TurnsGoOn DEF CommandName, NextArgument
<1> QED BY <1>6, <1>9, <1>10, <1>11, ResultStepFaithful

LEMMA CloseFaithful == ASSUME IInv, FInv, Close PROVE FInv'
<1>1. PICK t : t = closeOption(State)
  OBVIOUS
<1>2. /\ RecordInv(State, started) /\ started \in SUBSET Options
      /\ Faithful(State, started, Waiting)
  BY DEF IInv, CursorOK, FInv
<1>3. RecordInv(t, started) /\ t.active = NoOption
  BY <1>1, <1>2, CloseOptionInv
<1>4. Faithful(t, started, Waiting)
  BY <1>1, <1>2, CloseOptionFaithful
<1>5. /\ Becomes(t) /\ started' = started /\ pieces' = pieces
      /\ pieces = <<>> /\ Waiting' = Waiting
  BY <1>1 DEF Close, FInv, Waiting
<1> QED BY <1>3, <1>4, <1>5, AssembleFaithful DEF RecordInv

LEMMA QuietStepsFaithful ==
  ASSUME IInv, FInv,
         \/ EndOfStream
         \/ \E a \in Args : Include(a) \/ EndOfOptions(a) \/ DashOptions(a)
  PROVE  FInv'
<1>1. /\ started' = started /\ pieces' = pieces /\ pc = "next" /\ Becomes(State)
      /\ pc' # "done" /\ pc' # "pieces"
  BY TurnsGoOn DEF EndOfStream, Include, EndOfOptions, DashOptions, NextArgument
<1> QED BY <1>1, QuietFaithful

LEMMA ParseFaithful == ASSUME IInv, FInv, Parse PROVE FInv'
<1>1. CASE EndOfStream
  BY <1>1, QuietStepsFaithful
<1>2. CASE ReadArgument
  <2>1. PICK a \in Args : \/ Include(a) \/ IncludeTooDeep(a) \/ EndOfOptions(a)
                          \/ StorePositional(a) \/ IgnoreArgument(a)
                          \/ OptionValue(a) \/ LongOption(a) \/ ForwardOption(a)
                          \/ DashOptions(a) \/ CommandName(a)
    BY <1>2 DEF ReadArgument
  <2> QED BY <2>1, QuietStepsFaithful, IncludeTooDeepFaithful,
             StorePositionalFaithful, IgnoreArgumentFaithful,
             OptionValueFaithful, LongOptionFaithful, ForwardOptionFaithful,
             CommandNameFaithful
<1>3. CASE ForwardPiece
  BY <1>3, ForwardPieceFaithful
<1>4. CASE StartLetter
  BY <1>4, StartLetterFaithful
<1>5. CASE Close
  BY <1>5, CloseFaithful
<1> QED BY <1>1, <1>2, <1>3, <1>4, <1>5 DEF Parse

LEMMA StutterFaithful == ASSUME FInv, UNCHANGED vars PROVE FInv'
<1>1. State' = State /\ UNCHANGED <<started, pieces, pc, mpActiveOption>>
  BY DEF vars, State
<1>2. Waiting' = Waiting
  BY <1>1 DEF Waiting
<1>3. Faithful(State', started', Waiting')
  BY <1>1, <1>2 DEF FInv
<1>4. (Faithful(State, started, Waiting))' = Faithful(State', started', Waiting')
  BY DEF Faithful, ValuesOK, ValueOK, TargetOK, HasContent, Failed, NoArgv, Used
<1> QED BY <1>1, <1>3, <1>4 DEF FInv

(* Before anything was read no target has a value.                         *)
LEMMA FreshFaithful ==
  ASSUME NEW s, NEW P,
         \A o \in Params : s.total[o] = 0 /\ s.current[o] = 0
                           /\ s.assigned[Def[o].value] = 0
                           /\ s.target[Def[o].value] = initialTarget(Def[o].value),
         s.result.errors = {}
  PROVE  Faithful(s, {}, P)
<1>1. ASSUME NEW o \in Params PROVE ValueOK(s, o)
  <2>1. TargetOK(Def[o].value, initialTarget(Def[o].value))
    BY DefFields, InitialOK
  <2> QED BY <2>1 DEF ValueOK
<1> QED BY <1>1 DEF Faithful, ValuesOK, Used, NoArgv

LEMMA InitFaithful == Init => FInv
<1> SUFFICES ASSUME Init PROVE FInv
  OBVIOUS
<1>1. \A o \in Params : Def[o].value \in Values
  BY DefFields
<1>2. \A o \in Params : State.total[o] = 0 /\ State.current[o] = 0
                        /\ State.assigned[Def[o].value] = 0
                        /\ State.target[Def[o].value] = initialTarget(Def[o].value)
  BY <1>1, StateParts DEF Init
<1>3. State.result.errors = {} /\ started = {}
  BY StateParts DEF Init, emptyResult
<1>4. Faithful(State, started, Waiting)
  BY <1>2, <1>3, FreshFaithful
<1> QED BY <1>4 DEF FInv, Init

(* The values stay faithful to the input in every reachable state.         *)
THEOREM FaithfulInductive == Spec => []FInv
<1>1. IInv /\ FInv /\ [Next]_vars => FInv'
  BY ParseFaithful, StutterFaithful DEF Next, Terminated
<1> QED BY <1>1, InitFaithful, Inductive, PTL DEF Spec

(* A vector or optional target that was assigned through default actions   *)
(* without a conversion error has content, whatever shares it.             *)
THEOREM TargetsHaveContent == Spec => []AssignedTargetsHaveContent
<1>1. IInv /\ FInv => AssignedTargetsHaveContent
  <2> SUFFICES ASSUME IInv, FInv, NEW v \in Values,
                      ValueKind[v] \in {"vector", "optional", "optvector"},
                      mAssignCount[v] > 0,
                      \A o \in Params : Def[o].value = v =>
                        /\ Def[o].action = "assign"
                        /\ [subject |-> o, code |-> "CONVERSION_ERROR"]
                             \notin mResult.errors
               PROVE  /\ mTarget[v].has
                      /\ ValueKind[v] # "optvector" => mTarget[v].items # <<>>
    BY DEF AssignedTargetsHaveContent
  <2>1. PICK o \in Params : Def[o].value = v
    BY StateParts DEF IInv, RecordInv, Accounted
  <2>2. \A p \in Params : Def[p].value = v => ~Failed(p, State.result)
    BY StateParts DEF Failed
  <2>3. ValueOK(State, o)
    BY DEF FInv, Faithful, ValuesOK
  <2>4. HasContent(v, mTarget[v])
    BY <2>1, <2>2, <2>3, StateParts DEF ValueOK, ContentKinds
  <2> QED BY <2>4 DEF HasContent
<1> QED BY <1>1, Inductive, FaithfulInductive, PTL

-----------------------------------------------------------------------------
(***************************************************************************)
(* Theorems about parse_args for every definition, any number of calls on  *)
(* one object and anything the client's variables hold before the first    *)
(* one.  CallInv carries what the parser established over the phases of a  *)
(* call: while it parses, the invariants of Parser; while the defaults are *)
(* assigned, that the targets are faithful to the input; after a success,  *)
(* that the validation found nothing.                                      *)
(***************************************************************************)
(* The Value objects outlive the calls.  One that counts as assigned is    *)
(* reached by some parameter, so the next call resets it.                  *)
Clean ==
  /\ mAssignCount \in [Values -> Nat]
  /\ mTarget \in [Values -> Targets]
  /\ \A v \in Values : mAssignCount[v] > 0 => \E o \in Params : Def[o].value = v

(* The input is consumed and what it gave is in the targets.               *)
Consumed(s, S) ==
  /\ S \in SUBSET Options
  /\ s.active = NoOption
  /\ Reported(s, S)
  /\ Faithful(s, S, {})

(* validateParsedOptions has nothing to complain about.                    *)
Validated(s) ==
  /\ \A o \in Options : Def[o].required => wasAssigned(s, o)
  /\ \A p \in Positionals :
       (Def[p].required \/ wasAssigned(s, p)) => ~needsMoreArguments(s, p)
  /\ \A g \in Exclusive : ~(Cardinality(UsedOf(s, g)) > 1)
  /\ \A g \in RequiredGroups :
       InGroup(g) # {} => \E o \in InGroup(g) : wasAssigned(s, o)

CallInv ==
  /\ Clean
  /\ phase = "parsing" => IInv /\ FInv /\ ~mResult.errorsWereShown
  /\ phase = "defaults" => /\ State \in States
                           /\ Consumed(State, started)
                           /\ position \in Nat \ {0}
                           /\ ~mResult.exitRequested
                           /\ ~mResult.errorsWereShown
  /\ Succeeded => Consumed(State, started) /\ Validated(State)
  /\ FailureIsVisible

-----------------------------------------------------------------------------
(* The steps of a call as steps of the state record.                       *)

LEMMA RecordBecomes ==
  ASSUME NEW t,
         t = [ active |-> t.active, current |-> t.current, total |-> t.total,
               assigned |-> t.assigned, target |-> t.target, result |-> t.result ],
         Becomes(t)
  PROVE  State' = t
BY DEF State, Becomes

LEMMA CleanRecord ==
  ASSUME NEW t, Becomes(t),
         t.assigned \in [Values -> Nat], t.target \in [Values -> Targets],
         \A v \in Values : t.assigned[v] > 0 => \E o \in Params : Def[o].value = v
  PROVE  Clean'
BY DEF Becomes, Clean

LEMMA InvClean == IInv => Clean
BY StateParts, StateFields DEF IInv, RecordInv, Accounted, Clean

LEMMA ConsumedStep ==
  ASSUME NEW t, State' = t, Consumed(t, started')
  PROVE  Consumed(State, started)'
<1>1. Consumed(State', started')
  OBVIOUS
<1> QED BY <1>1 DEF Consumed, Reported, Faithful, ValuesOK, ValueOK, TargetOK,
            HasContent, Failed, NoArgv, Used

LEMMA UnchangedConsumed ==
  ASSUME Consumed(State, started), UNCHANGED vars
  PROVE  Consumed(State, started)' /\ State' = State
<1>1. State' = State /\ started' = started
  BY DEF vars, State
<1> QED BY <1>1, ConsumedStep

LEMMA UnchangedClean == Clean /\ UNCHANGED vars => Clean'
BY DEF vars, Clean

(* What the parser leaves to parse_args when it is done.                   *)
LEMMA DoneConsumed ==
  ASSUME IInv, FInv, pc = "done"
  PROVE  Consumed(State, started)
<1>1. Waiting = {}
  BY DEF FInv, Waiting
<1> QED BY <1>1, StateParts DEF Consumed, IInv, CursorOK, RecordInv, FInv

-----------------------------------------------------------------------------
(* Entering a call                                                         *)

LEMMA CallInitInv == CallInit => CallInv
<1> SUFFICES ASSUME CallInit PROVE CallInv
  OBVIOUS
<1>1. mTarget \in [Values -> Targets]
  <2>1. \A v \in Values : InitialTargets[v] \subseteq Targets
    BY VerifiedAssumption
  <2>2. /\ mTarget \in [Values -> UNION {InitialTargets[w] : w \in Values}]
        /\ \A v \in Values : mTarget[v] \in InitialTargets[v]
    BY DEF CallInit
  <2> QED BY <2>1, <2>2
<1>2. Clean
  BY <1>1 DEF CallInit, Clean
<1> QED BY <1>2 DEF CallInit, CallInv, Succeeded, FailureIsVisible

(* parse_args(argc, nullptr) and a call without input only write a result  *)
(* that is no success.                                                     *)
LEMMA RefusedInv ==
  ASSUME CallInv, NEW r, Becomes([State EXCEPT !.result = r]), phase' = "returned",
         ~r.errorsWereShown, ~isSuccess(r),
         r.exitRequested \/ Error(NoSubject, "INVALID_ARGV") \in r.errors
  PROVE  CallInv'
<1>1. mResult' = r /\ mAssignCount' = mAssignCount /\ mTarget' = mTarget
  BY DEF Becomes, State
<1>2. Clean'
  BY <1>1 DEF CallInv, Clean
<1>3. ~Succeeded'
  BY <1>1 DEF Succeeded, isSuccess
<1>4. FailureIsVisible'
  BY <1>1 DEF FailureIsVisible, Error
<1> QED BY <1>2, <1>3, <1>4 DEF CallInv

LEMMA CallNullInv == ASSUME CallInv, CallNull PROVE CallInv'
<1> DEFINE r == addErrorTo(emptyResult, NoSubject, "INVALID_ARGV")
<1>1. r.errors = {Error(NoSubject, "INVALID_ARGV")}
  BY DEF addErrorTo, emptyResult, Error
<1>2. ~isSuccess(r) /\ Error(NoSubject, "INVALID_ARGV") \in r.errors
  BY <1>1 DEF isSuccess
<1>3. /\ Becomes([State EXCEPT !.result = r]) /\ phase' = "returned"
      /\ ~r.errorsWereShown
  BY DEF CallNull, BeginCall, addErrorTo, emptyResult
<1> QED BY <1>2, <1>3, RefusedInv

LEMMA CallEmptyInv == ASSUME CallInv, CallEmpty PROVE CallInv'
<1>1. PICK b : b = [emptyResult EXCEPT !.helpWasShown = TRUE]
  OBVIOUS
<1>2. PICK c : c = [b EXCEPT !.exitRequested = TRUE]
  OBVIOUS
<1>3. PICK r : r = addErrorTo(c, NoSubject, "EXIT_REQUESTED")
  OBVIOUS
<1>4. c.exitRequested
  BY <1>1, <1>2 DEF emptyResult
<1>5. r.exitRequested /\ ~r.errorsWereShown
  BY <1>1, <1>2, <1>3, <1>4 DEF addErrorTo, emptyResult
<1>6. Becomes([State EXCEPT !.result = r]) /\ phase' = "returned"
  BY <1>1, <1>2, <1>3 DEF CallEmpty, BeginCall, requestExitIn
<1> QED BY <1>5, <1>6, RefusedInv DEF isSuccess

(* A new call finds every parameter and every target that a parameter      *)
(* reaches as they were after the definition.                              *)
LEMMA ResetRecord ==
  ASSUME Clean, NEW t,
         t = [resetOptionValues(State) EXCEPT !.active = NoOption,
                                              !.result = emptyResult]
  PROVE  /\ t \in States /\ t.active = NoOption /\ t.result = emptyResult
         /\ t.current = [o \in Params |-> 0] /\ t.total = [o \in Params |-> 0]
         /\ \A v \in Values : t.assigned[v] = 0
         /\ \A o \in Params : t.target[Def[o].value] = initialTarget(Def[o].value)
<1>1. PICK n : n = [o \in Params |-> 0]
  OBVIOUS
<1>2. PICK c : c = [v \in Values |-> IF \E o \in Params : Def[o].value = v
                                       THEN 0 ELSE State.assigned[v]]
  OBVIOUS
<1>3. PICK g : g = [v \in Values |-> IF \E o \in Params : Def[o].value = v
                                       THEN initialTarget(v) ELSE State.target[v]]
  OBVIOUS
<1>4. PICK z : z = resetOptionValues(State)
  OBVIOUS
<1>5. /\ t.active = NoOption /\ t.result = emptyResult /\ t.current = n
      /\ t.total = n /\ t.assigned = c /\ t.target = g
      /\ t = [ active |-> NoOption, current |-> n, total |-> n, assigned |-> c,
               target |-> g, result |-> emptyResult ]
  <2>1. z = [State EXCEPT !.current = n, !.total = n, !.assigned = c, !.target = g]
    BY <1>1, <1>2, <1>3, <1>4, Zenon DEF resetOptionValues
  <2>2. z = [ active |-> mpActiveOption, current |-> n, total |-> n,
              assigned |-> c, target |-> g, result |-> mResult ]
    BY <2>1 DEF State
  <2>3. t = [z EXCEPT !.active = NoOption, !.result = emptyResult]
    BY <1>4
  <2> QED BY <2>2, <2>3
<1>6. n \in [Params -> Nat]
  BY <1>1
<1>7. c \in [Values -> Nat] /\ \A v \in Values : c[v] = 0
  BY <1>2, StateParts DEF Clean
<1>8. g \in [Values -> Targets]
  BY <1>3, InitialTargetType, StateParts DEF Clean
<1>9. \A o \in Params : g[Def[o].value] = initialTarget(Def[o].value)
  BY <1>3, DefFields
<1>10. emptyResult \in Results
  <2>1. {} \in SUBSET ParseErrors /\ <<>> \in Seq(Texts) /\ <<>> \in Seq(Commands)
    OBVIOUS
  <2> QED BY <2>1, Zenon DEF emptyResult, Results
<1>11. t \in States
  BY <1>5, <1>6, <1>7, <1>8, <1>10 DEF States
<1> QED BY <1>1, <1>5, <1>7, <1>9, <1>11

LEMMA FreshRecord ==
  ASSUME NEW t \in States, t.active = NoOption, t.result = emptyResult,
         t.current = [o \in Params |-> 0], t.total = [o \in Params |-> 0],
         \A v \in Values : t.assigned[v] = 0
  PROVE  RecordInv(t, {}) /\ Filled(t, 1)
<1>1. ResultContract(t.result)
  BY DEF emptyResult, ResultContract
<1>2. Bounded(t)
  BY CapacityFacts DEF Bounded
<1>3. Accounted(t) /\ Reported(t, {})
  BY DEF Accounted, Reported
<1>4. \A p \in Positionals : t.current[p] = 0 /\ t.total[p] = 0
  BY DEF Params
<1>5. \A i \in 1..Len(Positional) : Positional[i] \in Positionals
  BY DEF Positionals
<1>6. Filled(t, 1)
  BY <1>4, <1>5 DEF Filled
<1> QED BY <1>1, <1>2, <1>3, <1>6 DEF RecordInv

LEMMA StartedCall ==
  ASSUME NEW t \in States, Becomes(t), RecordInv(t, {}), Filled(t, 1),
         started' = {}, mPosition' = 1, CursorOK'
  PROVE  IInv'
<1>1. State' = t
  BY BecomesState
<1>2. RecordInv(State', started') /\ Filled(State', mPosition')
  BY <1>1
<1> QED BY <1>2 DEF IInv, RecordInv, Filled, Bounded, Accounted, Reported,
            willAcceptArgument

LEMMA CallStarted == ASSUME CallInv, Call PROVE CallInv'
<1>1. PICK t : t = [resetOptionValues(State) EXCEPT !.active = NoOption,
                                                    !.result = emptyResult]
  OBVIOUS
<1>2. /\ t \in States /\ t.active = NoOption /\ t.result = emptyResult
      /\ t.current = [o \in Params |-> 0] /\ t.total = [o \in Params |-> 0]
      /\ \A v \in Values : t.assigned[v] = 0
      /\ \A o \in Params : t.target[Def[o].value] = initialTarget(Def[o].value)
  BY <1>1, ResetRecord DEF CallInv
<1>3. /\ Becomes(t) /\ phase' = "parsing" /\ mResult' = emptyResult
      /\ mIgnoreOptions' = FALSE /\ mPosition' = 1 /\ depth' = 0
      /\ letters' = <<>> /\ pieces' = <<>> /\ pc' = "next" /\ consumed' = 0
      /\ started' = {} /\ latest' = nobody
  BY <1>1, <1>2 DEF Call, BeginCall, Becomes
<1>4. RecordInv(t, {}) /\ Filled(t, 1)
  <2>1. /\ t.active = NoOption /\ t.result = emptyResult
        /\ t.current = [o \in Params |-> 0] /\ t.total = [o \in Params |-> 0]
        /\ \A v \in Values : t.assigned[v] = 0
    BY <1>2
  <2> QED BY <1>2, <2>1, FreshRecord
<1>5. CursorOK'
  <2>1. Len(Positional) \in Nat
    BY DefinitionAssumption
  <2>2. MaxIncludeDepth \in Nat /\ MaxArguments \in Nat
    BY StreamAssumption
  <2>3. letters' \in Seq(Names) /\ pieces' \in Seq(Pending)
    BY <1>3
  <2>4. mPosition' \in 1..(Len(Positional) + 1)
    BY <1>3, <2>1
  <2>5. depth' \in 0..(MaxIncludeDepth + 1) /\ consumed' \in 0..MaxArguments
    BY <1>3, <2>2
  <2>6. /\ mIgnoreOptions' \in BOOLEAN /\ pc' \in ProgramCounters
        /\ started' \in SUBSET Options /\ latest' \in Occurrences
    BY <1>3 DEF ProgramCounters, nobody, Occurrences
  <2> QED BY <2>3, <2>4, <2>5, <2>6 DEF CursorOK
<1>6. IInv'
  BY <1>2, <1>3, <1>4, <1>5, StartedCall
<1>7. Faithful(t, {}, Waiting')
  <2>1. \A o \in Params : t.total[o] = 0 /\ t.current[o] = 0
                          /\ t.assigned[Def[o].value] = 0
    BY <1>2, DefFields
  <2>2. t.result.errors = {}
    BY <1>2 DEF emptyResult
  <2> QED BY <1>2, <2>1, <2>2, FreshFaithful
<1>8. FInv'
  BY <1>2, <1>3, <1>7, AssembleFaithful
<1>9. Clean'
  BY <1>6, InvClean, PTL
<1>10. ~Succeeded' /\ FailureIsVisible' /\ ~mResult'.errorsWereShown
  BY <1>3 DEF Succeeded, FailureIsVisible, emptyResult
<1> QED BY <1>3, <1>6, <1>8, <1>9, <1>10 DEF CallInv

-----------------------------------------------------------------------------
(* The parse and the ways out of it                                        *)

LEMMA ParserStepInv == ASSUME CallInv, ParserStep PROVE CallInv'
<1>1. IInv /\ FInv /\ Parse /\ phase' = "parsing" /\ ~mResult.errorsWereShown
  BY DEF CallInv, ParserStep, callVars
<1>2. IInv' /\ FInv' /\ ~mResult'.errorsWereShown
  BY <1>1, ParseInv, ParseFaithful DEF Preserves, Grows
<1>3. Clean'
  BY <1>2, InvClean, PTL
<1>4. ~Succeeded' /\ FailureIsVisible'
  BY <1>1 DEF Succeeded, FailureIsVisible
<1> QED BY <1>1, <1>2, <1>3, <1>4 DEF CallInv

LEMMA ExitEarlyInv == ASSUME CallInv, ExitEarly PROVE CallInv'
<1>1. Clean' /\ mResult'.exitRequested /\ ~mResult'.errorsWereShown
      /\ phase' = "returned"
  BY UnchangedClean DEF CallInv, ExitEarly, vars
<1>2. ~Succeeded' /\ FailureIsVisible'
  BY <1>1 DEF Succeeded, FailureIsVisible, isSuccess
<1> QED BY <1>1, <1>2 DEF CallInv

LEMMA BeginDefaultsInv == ASSUME CallInv, BeginDefaults PROVE CallInv'
<1>1. IInv /\ FInv /\ pc = "done" /\ UNCHANGED vars
      /\ phase' = "defaults" /\ position' = 1
      /\ ~mResult'.exitRequested /\ ~mResult'.errorsWereShown
  BY DEF CallInv, BeginDefaults, vars
<1>2. Consumed(State, started)' /\ State' = State
  BY <1>1, DoneConsumed, UnchangedConsumed
<1>3. State' \in States
  BY <1>1, <1>2 DEF IInv, RecordInv
<1>4. Clean'
  BY <1>1, UnchangedClean DEF CallInv
<1>5. ~Succeeded' /\ FailureIsVisible'
  BY <1>1 DEF Succeeded, FailureIsVisible
<1> QED BY <1>1, <1>2, <1>3, <1>4, <1>5 DEF CallInv

-----------------------------------------------------------------------------
(* The defaults                                                            *)

LEMMA EverythingIsParameter ==
  ASSUME NEW i \in Nat \ {0}, i <= Len(Everything)
  PROVE  Everything[i] \in Params
<1>1. Defined \in Seq(Params) /\ Positional \in Seq(Params)
  <2>1. Defined \in Seq(Options) /\ Positional \in Seq(Positionals)
    BY VerifiedAssumption, DefinitionAssumption
  <2>2. Options \subseteq Params /\ Positionals \subseteq Params
    BY DEF Params
  <2> QED BY <2>1, <2>2
<1>2. Everything \in Seq(Params)
  BY <1>1 DEF Everything
<1> QED BY <1>2

(* The parameter assigns its default to its Value and counts it there.     *)
LEMMA DefaultRecord ==
  ASSUME NEW s \in States, NEW o \in Params, hasDefault(o),
         NEW t, t = assignDefault(s, o)
  PROVE  /\ t \in States /\ t.active = s.active /\ t.current = s.current
         /\ t.total = s.total /\ t.result = s.result
         /\ t.assigned[Def[o].value] > 0
         /\ \A w \in Values : w # Def[o].value =>
              t.assigned[w] = s.assigned[w] /\ t.target[w] = s.target[w]
         /\ ValueKind[Def[o].value] = "void" =>
              t.target[Def[o].value] = s.target[Def[o].value]
         /\ ValueKind[Def[o].value] # "void" =>
              t.target[Def[o].value] = [has |-> TRUE, items |-> <<Def[o].default>>]
<1>1. PICK v \in Values : v = Def[o].value
  BY DefFields
<1>2. PICK c \in [Values -> Nat] : c = [s.assigned EXCEPT ![v] = @ + 1]
  BY StateFields, Increment
<1>3. PICK x : x = IF ValueKind[v] = "void" THEN s.target[v]
                   ELSE [has |-> TRUE, items |-> <<Def[o].default>>]
  OBVIOUS
<1>4. x \in Targets
  <2>1. Def[o].default \in Texts
    BY DefinitionAssumption DEF hasDefault, Attributes
  <2> QED BY <1>3, <2>1, StateFields, SingleTarget
<1>5. PICK g \in [Values -> Targets] : g = [s.target EXCEPT ![v] = x]
  BY <1>4, StateFields
<1>6. t = [s EXCEPT !.assigned = c, !.target = g]
  BY <1>1, <1>2, <1>3, <1>5, Zenon DEF assignDefault
<1>7. /\ t \in States /\ t.active = s.active /\ t.current = s.current
      /\ t.total = s.total /\ t.result = s.result
      /\ t.assigned = c /\ t.target = g
  BY <1>6 DEF States
<1>8. s.assigned \in [Values -> Nat] /\ s.target \in [Values -> Targets]
  BY StateFields
<1>9. c[v] > 0 /\ \A w \in Values : w # v => c[w] = s.assigned[w]
  BY <1>2, <1>8
<1>10. g[v] = x /\ \A w \in Values : w # v => g[w] = s.target[w]
  BY <1>5, <1>8
<1> QED BY <1>1, <1>3, <1>7, <1>9, <1>10

LEMMA DefaultElsewhere ==
  ASSUME NEW s \in States, NEW o \in Params, hasDefault(o),
         NEW t, t = assignDefault(s, o)
  PROVE  /\ t \in States /\ t.result = s.result
         /\ \A w \in Values : w # Def[o].value => t.assigned[w] = s.assigned[w]
<1>1. PICK v : v = Def[o].value
  OBVIOUS
<1>2. /\ t \in States /\ t.result = s.result
      /\ \A w \in Values : w # v => t.assigned[w] = s.assigned[w]
  BY <1>1, DefaultRecord
<1> QED BY <1>1, <1>2

LEMMA DefaultConsumed ==
  ASSUME NEW S, NEW s \in States, Consumed(s, S), NEW o \in Params, hasDefault(o),
         NEW t, t = assignDefault(s, o)
  PROVE  Consumed(t, S)
<1>1. PICK v \in Values : v = Def[o].value
  BY DefFields
<1>2. /\ t.active = s.active /\ t.current = s.current
      /\ t.total = s.total /\ t.result = s.result
      /\ t.assigned[v] > 0
      /\ \A w \in Values : w # v =>
           t.assigned[w] = s.assigned[w] /\ t.target[w] = s.target[w]
      /\ ValueKind[v] = "void" => t.target[v] = s.target[v]
      /\ ValueKind[v] # "void" =>
           t.target[v] = [has |-> TRUE, items |-> <<Def[o].default>>]
  BY <1>1, DefaultRecord
<1>3. ASSUME NEW p \in Params PROVE ValueOK(t, p)
  <2>1. ValueOK(s, p) /\ Def[p].value \in Values
    BY DefFields DEF Consumed, Faithful, ValuesOK
  <2>2. CASE Def[p].value # v
    BY <1>2, <2>1, <2>2 DEF ValueOK, Failed
  <2>3. CASE Def[p].value = v
    <3>1. TargetOK(v, t.target[v])
          /\ (ValueKind[v] # "void" => HasContent(v, t.target[v]))
      <4>1. CASE ValueKind[v] = "void"
        BY <1>2, <2>1, <2>3, <4>1 DEF ValueOK
      <4>2. CASE ValueKind[v] # "void"
        BY <1>1, <1>2, <4>2, DefaultAllowed, SingleOK
      <4> QED BY <4>1, <4>2
    <3>2. t.assigned[v] # 0
      BY <1>2
    <3> QED BY <1>2, <2>1, <2>3, <3>1, <3>2 DEF ValueOK, ContentKinds
  <2> QED BY <2>2, <2>3
<1>4. Faithful(t, S, {})
  BY <1>2, <1>3 DEF Consumed, Faithful, ValuesOK, Used
<1> QED BY <1>2, <1>4 DEF Consumed, Reported

LEMMA AssignDefaultInv == ASSUME CallInv, AssignDefault PROVE CallInv'
<1>1. PICK o : o = Everything[position]
  OBVIOUS
<1>2. PICK t : t = IF takesDefault(State, o) THEN assignDefault(State, o) ELSE State
  OBVIOUS
<1>3. /\ State \in States /\ Consumed(State, started) /\ position \in Nat \ {0}
      /\ ~mResult.exitRequested /\ ~mResult.errorsWereShown /\ Clean
      /\ o \in Params
  BY <1>1, EverythingIsParameter DEF CallInv, AssignDefault
<1>4. /\ Becomes(t) /\ started' = started /\ phase' = "defaults"
      /\ position' = position + 1
  BY <1>1, <1>2 DEF AssignDefault, cursorVars
<1>5. CASE ~takesDefault(State, o)
  <2>1. t = State
    BY <1>2, <1>5
  <2>2. State' = State /\ mResult' = mResult
    BY <1>3, <1>4, <2>1, BecomesState, StateParts DEF Becomes
  <2>3. Consumed(State, started)'
    BY <1>3, <1>4, <2>2, ConsumedStep
  <2>4. Clean'
    BY <1>3, <1>4, <2>1, StateParts DEF Becomes, Clean
  <2>5. ~Succeeded' /\ FailureIsVisible'
    BY <1>4 DEF Succeeded, FailureIsVisible
  <2> QED BY <1>3, <1>4, <2>2, <2>3, <2>4, <2>5 DEF CallInv
<1>6. CASE takesDefault(State, o)
  <2>1. t = assignDefault(State, o) /\ hasDefault(o)
    BY <1>2, <1>6 DEF takesDefault
  <2>2. /\ t \in States /\ t.result = State.result
        /\ \A w \in Values : w # Def[o].value => t.assigned[w] = State.assigned[w]
    BY <1>3, <2>1, DefaultElsewhere
  <2>3. Consumed(t, started)
    BY <1>3, <2>1, DefaultConsumed
  <2>4. State' = t /\ mResult' = mResult
    BY <1>4, <2>2, BecomesState, StateParts DEF Becomes
  <2>5. Consumed(State, started)'
    BY <1>4, <2>3, <2>4, ConsumedStep
  <2>6. Clean'
    <3>1. /\ t.assigned \in [Values -> Nat] /\ t.target \in [Values -> Targets]
          /\ State.assigned = mAssignCount
      BY <2>2, StateFields, StateParts
    <3>2. ASSUME NEW v \in Values, t.assigned[v] > 0
          PROVE  \E p \in Params : Def[p].value = v
      BY <1>3, <2>2, <3>1, <3>2 DEF Clean
    <3> QED BY <1>4, <3>1, <3>2, CleanRecord
  <2>7. ~Succeeded' /\ FailureIsVisible'
    BY <1>4 DEF Succeeded, FailureIsVisible
  <2> QED BY <1>3, <1>4, <2>2, <2>4, <2>5, <2>6, <2>7 DEF CallInv
<1> QED BY <1>5, <1>6

-----------------------------------------------------------------------------
(* The validation                                                          *)

LEMMA NoErrorsValidated ==
  ASSUME NEW s, missingOptions(s) = {}, exclusiveViolations(s) = {},
         missingGroups(s) = {}
  PROVE  Validated(s)
<1>1. \A o \in Options : Def[o].required => wasAssigned(s, o)
  <2> SUFFICES ASSUME NEW o \in Options, Def[o].required, ~wasAssigned(s, o)
               PROVE  FALSE
    OBVIOUS
  <2>1. Error(o, "MISSING_OPTION") \in missingOptions(s)
    BY DEF missingOptions
  <2> QED BY <2>1
<1>2. \A p \in Positionals :
        (Def[p].required \/ wasAssigned(s, p)) => ~needsMoreArguments(s, p)
  <2> SUFFICES ASSUME NEW p \in Positionals, Def[p].required \/ wasAssigned(s, p),
                      needsMoreArguments(s, p)
               PROVE  FALSE
    OBVIOUS
  <2>1. Error(p, "MISSING_ARGUMENT") \in missingOptions(s)
    BY DEF missingOptions
  <2> QED BY <2>1
<1>3. \A g \in Exclusive : ~(Cardinality(UsedOf(s, g)) > 1)
  <2> SUFFICES ASSUME NEW g \in Exclusive, Cardinality(UsedOf(s, g)) > 1
               PROVE  FALSE
    OBVIOUS
  <2>1. Error(firstDefined(UsedOf(s, g)), "EXCLUSIVE_OPTION") \in exclusiveViolations(s)
    BY DEF exclusiveViolations
  <2> QED BY <2>1
<1>4. \A g \in RequiredGroups :
        InGroup(g) # {} => \E o \in InGroup(g) : wasAssigned(s, o)
  <2> SUFFICES ASSUME NEW g \in RequiredGroups, InGroup(g) # {},
                      \A o \in InGroup(g) : ~wasAssigned(s, o)
               PROVE  FALSE
    OBVIOUS
  <2>1. Error(g, "MISSING_OPTION_GROUP") \in missingGroups(s)
    BY DEF missingGroups
  <2> QED BY <2>1
<1> QED BY <1>1, <1>2, <1>3, <1>4 DEF Validated

LEMMA ValidationErrors ==
  ASSUME NEW s, NEW E,
         E = missingOptions(s) \cup exclusiveViolations(s) \cup missingGroups(s)
  PROVE  Error(NoSubject, "INVALID_ARGV") \notin E
BY DEF missingOptions, exclusiveViolations, missingGroups, Error

(* Only the result changes.                                                *)
LEMMA ResultReplaced ==
  ASSUME NEW S, NEW s, Consumed(s, S), Validated(s), NEW t,
         t.active = s.active, t.current = s.current, t.total = s.total,
         t.assigned = s.assigned, t.target = s.target,
         s.result.errors = {}, t.result.errors = {}
  PROVE  Consumed(t, S) /\ Validated(t)
<1>1. ValuesOK(t)
  BY ValuesKept DEF Consumed, Faithful, ValuesOK, ValueOK
<1>2. Consumed(t, S)
  BY <1>1 DEF Consumed, Reported, Faithful, Used, NoArgv
<1>3. \A g : UsedOf(t, g) = UsedOf(s, g)
  BY DEF UsedOf, wasAssignedThroughThisOption
<1>4. Validated(t)
  BY <1>3 DEF Validated, wasAssigned, needsMoreArguments
<1> QED BY <1>2, <1>4

LEMMA ValidateInv == ASSUME CallInv, Validate PROVE CallInv'
<1>1. PICK E : E = missingOptions(State) \cup exclusiveViolations(State)
                     \cup missingGroups(State)
  OBVIOUS
<1>0. PICK q : q = addErrors(mResult, E)
  OBVIOUS
<1>2. PICK r : r = IF TopLevel /\ hasArgumentProblems(q) THEN signalErrorsShownIn(q)
                                                        ELSE q
  OBVIOUS
<1>3. /\ State \in States /\ Consumed(State, started)
      /\ ~mResult.exitRequested /\ ~mResult.errorsWereShown /\ Clean
      /\ mResult \in Results
  BY StateFields, StateParts DEF CallInv, Validate
<1>4. /\ Becomes([State EXCEPT !.result = r]) /\ started' = started
      /\ phase' = "returned"
  BY <1>0, <1>1, <1>2 DEF Validate, cursorVars
<1>5. /\ mAssignCount' = mAssignCount /\ mTarget' = mTarget /\ mResult' = r
      /\ mpActiveOption' = mpActiveOption
      /\ mCurrentAssignCount' = mCurrentAssignCount
      /\ mTotalAssignCount' = mTotalAssignCount
  BY <1>4 DEF Becomes, State
<1>6. /\ r.errors = mResult.errors \cup E
      /\ r.exitRequested = mResult.exitRequested
      /\ TopLevel => (r.errorsWereShown <=> hasArgumentProblems(r))
  <2>1. /\ q.errors = mResult.errors \cup E
        /\ q.exitRequested = mResult.exitRequested
        /\ q.errorsWereShown = mResult.errorsWereShown
        /\ q = [q EXCEPT !.errorsWereShown = q.errorsWereShown]
    BY <1>0, <1>3 DEF addErrors, Results
  <2>2. CASE TopLevel /\ hasArgumentProblems(q)
    <3>1. r = signalErrorsShownIn(q)
      BY <1>2, <2>2
    <3>2. /\ r.errors = q.errors /\ r.exitRequested = q.exitRequested
          /\ r.ignoredArguments = q.ignoredArguments /\ r.errorsWereShown
      BY <1>0, <1>3, <3>1 DEF signalErrorsShownIn, addErrors, Results
    <3> QED BY <2>1, <2>2, <3>2 DEF hasArgumentProblems
  <2>3. CASE ~(TopLevel /\ hasArgumentProblems(q))
    <3>1. r = q
      BY <1>2, <2>3
    <3> QED BY <1>3, <2>1, <2>3, <3>1
  <2> QED BY <2>2, <2>3
<1>7. Clean'
  BY <1>3, <1>5 DEF Clean
<1>8. Error(NoSubject, "INVALID_ARGV") \notin r.errors
  <2>1. Error(NoSubject, "INVALID_ARGV") \notin mResult.errors
    BY <1>3, StateParts DEF Consumed, Faithful, NoArgv, Error
  <2> QED BY <1>1, <1>6, <2>1, ValidationErrors
<1>9. FailureIsVisible'
  BY <1>3, <1>4, <1>5, <1>6, <1>8 DEF FailureIsVisible, hasArgumentProblems
<1>10. ASSUME Succeeded' PROVE (Consumed(State, started) /\ Validated(State))'
  <2>1. r.errors = {} /\ mResult.errors = {} /\ E = {}
    BY <1>5, <1>6, <1>10 DEF Succeeded, isSuccess
  <2>2. Validated(State)
    BY <1>1, <2>1, NoErrorsValidated
  <2>3. Consumed(State', started) /\ Validated(State')
    <3>1. PICK t : t = State'
      OBVIOUS
    <3>2. /\ t.active = State.active /\ t.current = State.current
          /\ t.total = State.total /\ t.assigned = State.assigned
          /\ t.target = State.target
          /\ State.result.errors = {} /\ t.result.errors = {}
      BY <1>5, <2>1, <3>1 DEF State
    <3> QED BY <1>3, <2>2, <3>1, <3>2, ResultReplaced
  <2>4. Consumed(State, started)'
    BY <1>4, <2>3, ConsumedStep
  <2>5. Validated(State)'
    BY <2>3 DEF Validated, wasAssigned, needsMoreArguments, UsedOf,
                wasAssignedThroughThisOption, InGroup
  <2> QED BY <2>4, <2>5
<1> QED BY <1>4, <1>7, <1>9, <1>10 DEF CallInv

-----------------------------------------------------------------------------
(* The invariant of all calls                                              *)

LEMMA StutterCall == ASSUME CallInv, UNCHANGED allVars PROVE CallInv'
<1>1. UNCHANGED vars /\ UNCHANGED callVars
  BY DEF allVars
<1>2. State' = State /\ started' = started /\ mResult' = mResult
  BY <1>1 DEF vars, State
<1>3. phase' = phase /\ position' = position
  BY <1>1 DEF callVars
<1>4. phase = "parsing" => (IInv /\ FInv)'
  BY <1>1, StutterInv, StutterFaithful DEF CallInv
<1>5. Consumed(State, started) => Consumed(State, started)'
  BY <1>1, UnchangedConsumed
<1>6. Clean'
  BY <1>1, UnchangedClean DEF CallInv
<1>7. Validated(State) => Validated(State)'
  BY <1>2 DEF Validated, wasAssigned, needsMoreArguments, UsedOf,
              wasAssignedThroughThisOption, InGroup
<1>8. (Succeeded' <=> Succeeded) /\ (FailureIsVisible' <=> FailureIsVisible)
  BY <1>2, <1>3 DEF Succeeded, FailureIsVisible
<1> QED BY <1>2, <1>3, <1>4, <1>5, <1>6, <1>7, <1>8 DEF CallInv

LEMMA CallNextInv == CallInv /\ [CallNext]_allVars => CallInv'
<1> SUFFICES ASSUME CallInv, [CallNext]_allVars PROVE CallInv'
  OBVIOUS
<1>1. CASE CallNull \/ CallEmpty \/ Call
  BY <1>1, CallNullInv, CallEmptyInv, CallStarted
<1>2. CASE Run
  BY <1>2, ParserStepInv, ExitEarlyInv, BeginDefaultsInv, AssignDefaultInv,
     ValidateInv DEF Run
<1>3. CASE UNCHANGED allVars
  BY <1>3, StutterCall
<1> QED BY <1>1, <1>2, <1>3 DEF CallNext, Rest

(* CallInv holds in every state of every sequence of calls.                *)
THEOREM CallInductive == CallSpec => []CallInv
BY CallInitInv, CallNextInv, PTL DEF CallSpec

-----------------------------------------------------------------------------
(* The properties                                                          *)

(* After a success no error is left.                                       *)
LEMMA SuccessFacts ==
  ASSUME CallInv, Succeeded
  PROVE  /\ Consumed(State, started) /\ Validated(State)
         /\ State.result.errors = {} /\ Clean
BY StateParts DEF CallInv, Succeeded, isSuccess

(* A successful call is complete, however its values arrived.              *)
THEOREM SuccessCompletes == CallSpec => []SuccessIsComplete
<1>1. CallInv => SuccessIsComplete
  <2> SUFFICES ASSUME CallInv, Succeeded PROVE SuccessIsComplete
    BY DEF SuccessIsComplete
  <2>1. /\ Consumed(State, started) /\ Validated(State)
        /\ State.result.errors = {} /\ Clean
    BY SuccessFacts
  <2>2. \A o \in Options : Def[o].required => wasAssigned(State, o)
    BY <2>1 DEF Validated
  <2>3. ASSUME NEW p \in Positionals, Def[p].required \/ mTotalAssignCount[p] > 0
        PROVE  ~needsMoreArguments(State, p)
    <3>1. ValueOK(State, p)
      BY <2>1 DEF Consumed, Faithful, ValuesOK, Params
    <3>2. Def[p].required \/ wasAssigned(State, p)
      BY <2>1, <2>3, <3>1, StateParts DEF ValueOK, wasAssigned
    <3> QED BY <2>1, <3>2 DEF Validated
  <2>4. \A g \in RequiredGroups :
          InGroup(g) # {} => \E o \in InGroup(g) : wasAssigned(State, o)
    BY <2>1 DEF Validated
  <2>5. ASSUME NEW o \in started, ~isForwarded(o)
        PROVE  ~needsMoreArguments(State, o)
    <3>1. o \in Options /\ o # State.active
      BY <2>1, OptionsArePositionalFree DEF Consumed
    <3> QED BY <2>1, <2>5, <3>1 DEF Consumed, Reported, needsMoreArguments
  <2> QED BY <2>2, <2>3, <2>4, <2>5 DEF SuccessIsComplete
<1> QED BY <1>1, CallInductive, PTL

LEMMA OptionsFinite == IsFiniteSet(Options)
<1>1. Len(Defined) \in Nat /\ Defined \in [1..Len(Defined) -> Options]
  BY VerifiedAssumption
<1>2. Defined \in Surjection(1..Len(Defined), Options)
  BY <1>1, VerifiedAssumption DEF Surjection
<1>3. IsFiniteSet(1..Len(Defined))
  BY <1>1, FS_Interval
<1> QED BY <1>2, <1>3, FS_Surjection

(* A successful input held at most one option of an exclusive group: each  *)
(* option that occurred has counted a value of its own, so it is among the *)
(* options that the validation counts.                                     *)
THEOREM ExclusiveAtMostOnce == CallSpec => []ExclusiveInInput
<1>1. CallInv => ExclusiveInInput
  <2> SUFFICES ASSUME CallInv, Succeeded, NEW g \in Exclusive
               PROVE  Cardinality(started \cap InGroup(g)) <= 1
    BY DEF ExclusiveInInput
  <2>1. /\ Consumed(State, started) /\ Validated(State)
        /\ State.result.errors = {}
    BY SuccessFacts
  <2>2. started \cap InGroup(g) \subseteq UsedOf(State, g)
    <3> SUFFICES ASSUME NEW o \in started, o \in InGroup(g)
                 PROVE  State.total[o] > 0
      BY DEF UsedOf, wasAssignedThroughThisOption
    <3>1. o # State.active
      BY <2>1, OptionsArePositionalFree DEF Consumed
    <3> QED BY <2>1, <3>1 DEF Consumed, Faithful, Used
  <2>3. IsFiniteSet(UsedOf(State, g))
    <3>1. UsedOf(State, g) \in SUBSET Options
      BY DEF UsedOf, InGroup
    <3> QED BY <3>1, OptionsFinite, FS_Subset
  <2>4. /\ IsFiniteSet(started \cap InGroup(g))
        /\ Cardinality(started \cap InGroup(g)) <= Cardinality(UsedOf(State, g))
    BY <2>2, <2>3, FS_Subset
  <2>5. /\ Cardinality(started \cap InGroup(g)) \in Nat
        /\ Cardinality(UsedOf(State, g)) \in Nat
    BY <2>3, <2>4, FS_CardinalityType
  <2>6. ~(Cardinality(UsedOf(State, g)) > 1)
    BY <2>1 DEF Validated
  <2> QED BY <2>4, <2>5, <2>6
<1> QED BY <1>1, CallInductive, PTL

(* Nothing of an earlier call, and nothing the client stored, survives in  *)
(* a target that the successful call did not assign.                       *)
THEOREM TargetsFresh == CallSpec => []NoStaleTargets
<1>1. CallInv => NoStaleTargets
  <2> SUFFICES ASSUME CallInv, Succeeded, NEW o \in Params,
                      mAssignCount[Def[o].value] = 0
               PROVE  mTarget[Def[o].value] = initialTarget(Def[o].value)
    BY DEF NoStaleTargets
  <2>1. ValueOK(State, o)
    BY SuccessFacts DEF Consumed, Faithful, ValuesOK
  <2> QED BY <2>1, StateParts DEF ValueOK
<1> QED BY <1>1, CallInductive, PTL

(* A target never holds a text that no parameter may store in it.          *)
THEOREM TargetsValid == CallSpec => []SuccessTargetsValid
<1>1. CallInv => SuccessTargetsValid
  <2> SUFFICES ASSUME CallInv, Succeeded, NEW o \in Params,
                      NEW i \in 1..Len(mTarget[Def[o].value].items)
               PROVE  mTarget[Def[o].value].items[i] \in AllowedTexts(Def[o].value)
    BY DEF SuccessTargetsValid
  <2>1. ValueOK(State, o)
    BY SuccessFacts DEF Consumed, Faithful, ValuesOK
  <2> QED BY <2>1, StateParts DEF ValueOK, TargetOK
<1> QED BY <1>1, CallInductive, PTL

(* No failure of a call at top level is silent.                            *)
THEOREM FailuresVisible == CallSpec => []FailureIsVisible
<1>1. CallInv => FailureIsVisible
  BY DEF CallInv
<1> QED BY <1>1, CallInductive, PTL

(* A default leaves alone every target that took a value of the input.     *)
THEOREM DefaultsYield == CallSpec => DefaultsYieldToInput
<1> DEFINE Kept == \A v \in Values :
                     (\E o \in Params : Def[o].value = v /\ TookValue(o))
                       => mTarget'[v] = mTarget[v]
<1>1. ASSUME CallInv, phase = "defaults", AssignDefault PROVE Kept
  <2>1. PICK o : o = Everything[position]
    OBVIOUS
  <2>2. /\ State \in States /\ Consumed(State, started) /\ o \in Params
    BY <1>1, <2>1, EverythingIsParameter DEF CallInv, AssignDefault
  <2>3. CASE ~takesDefault(State, o)
    <3>1. mTarget' = mTarget
      BY <1>1, <2>1, <2>3, StateParts DEF AssignDefault, Becomes
    <3> QED BY <3>1
  <2>4. CASE takesDefault(State, o)
    <3>1. PICK t : t = assignDefault(State, o)
      OBVIOUS
    <3>2. mTarget' = t.target /\ hasDefault(o) /\ ~wasAssigned(State, o)
      BY <1>1, <2>1, <2>4, <3>1 DEF AssignDefault, Becomes, takesDefault
    <3>3. /\ \A w \in Values : w # Def[o].value => t.target[w] = State.target[w]
          /\ ValueKind[Def[o].value] = "void" =>
               t.target[Def[o].value] = State.target[Def[o].value]
      BY <2>2, <3>1, <3>2, DefaultRecord
    <3>4. ASSUME NEW p \in Params, Def[p].value = Def[o].value, TookValue(p)
          PROVE  ValueKind[Def[o].value] = "void"
      <4>1. ValueOK(State, p)
        BY <2>2 DEF Consumed, Faithful, ValuesOK
      <4> QED BY <3>2, <3>4, <4>1, StateParts DEF ValueOK, TookValue, Error, wasAssigned
    <3> QED BY <3>2, <3>3, <3>4, StateParts
  <2> QED BY <2>3, <2>4
<1>2. ASSUME CallInv, phase = "defaults", [CallNext]_allVars PROVE Kept
  <2>1. CASE Validate
    <3>1. mTarget' = mTarget
      BY <2>1, StateParts DEF Validate, Becomes, State
    <3> QED BY <3>1
  <2>2. CASE UNCHANGED allVars
    BY <2>2 DEF allVars, vars
  <2>3. ~(\/ CallNull \/ CallEmpty \/ Call \/ ParserStep \/ ExitEarly
          \/ BeginDefaults)
    BY <1>2 DEF CallNull, CallEmpty, Call, BeginCall, ParserStep, ExitEarly,
                BeginDefaults
  <2> HIDE DEF Kept
  <2> QED BY <1>1, <1>2, <2>1, <2>2, <2>3 DEF CallNext, Run, Rest
<1>3. CallInv /\ [CallNext]_allVars => [phase = "defaults" => Kept]_allVars
  BY <1>2
<1> QED BY <1>3, CallInductive, PTL DEF CallSpec, DefaultsYieldToInput
=============================================================================
