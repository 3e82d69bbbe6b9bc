-------------------------- MODULE ParameterConfig --------------------------
(***************************************************************************)
(* The definition of a parser through its fluent interface: class          *)
(* ParameterConfig and the OptionConfig and GroupConfig objects it hands   *)
(* out.  Every call checks its input against what was defined before and   *)
(* either changes the ParserDefinition or throws.  Verify is the check     *)
(* with which parse_args starts.                                           *)
(***************************************************************************)
EXTENDS Integers, Sequences, FiniteSets

CONSTANTS
  ShortNames,   \* a dash and one character
  LongNames,    \* two dashes and a word
  PlainNames,   \* no dash in front
  BareNames,    \* "-" and "--"
  WideNames,    \* one dash and several characters
  SpacedNames,  \* with a space inside
  NameLists,    \* the pairs <<name, altName>> a client passes
  HelpShort,    \* "-h"
  HelpLong,     \* "--help"
  GroupNames,   \* the names of groups a client passes
  lower,        \* tolower of a group name
  CommandNames, \* the names of commands a client passes
  Counts,       \* the counts passed to nargs, minargs and maxargs
  MaxOps,       \* bound: the calls of a client
  NoName, NoGroup

DashNames == ShortNames \cup LongNames \cup BareNames \cup WideNames
AllNames  == DashNames \cup PlainNames \cup SpacedNames
Keys      == { lower[g] : g \in GroupNames \ {NoName} }

ASSUME NamesAssumption ==
  /\ NameLists \subseteq (AllNames \cup {NoName}) \X (AllNames \cup {NoName})
  /\ NoName \notin AllNames
  /\ DashNames \cap PlainNames = {}
  /\ DashNames \cap SpacedNames = {} /\ PlainNames \cap SpacedNames = {}
  /\ ShortNames \cap LongNames = {}
  /\ (BareNames \cup WideNames) \cap (ShortNames \cup LongNames) = {}
  /\ HelpShort \in ShortNames /\ HelpLong \in LongNames
  /\ lower \in [GroupNames -> GroupNames]
  /\ \A g \in GroupNames : lower[g] = NoName <=> g = NoName
  /\ NoGroup \notin GroupNames
  /\ Counts \subseteq Int
  /\ MaxOps \in Nat

Parameters == [ short     : AllNames \cup {NoName},
                long      : AllNames \cup {NoName},
                group     : Keys \cup {NoGroup},
                minArgs   : Nat,
                maxArgs   : Nat \cup {-1},
                required  : BOOLEAN,
                forwarded : BOOLEAN ]

Exceptions == {"invalid_argument", "DuplicateOption", "DuplicateCommand",
               "MixingGroupTypes", "RequiredExclusiveOption"}

VARIABLES
  mOptions, mPositional, mGroups, mCommands, mHelpOptionNames, mpActiveGroup,
  config,    \* the OptionConfig that the client uses
  others,    \* the other ones it holds
  thrown,    \* what the last call threw, "none" if it returned
  verified,  \* history: the last call was a successful Verify
  renamed,   \* history: setShortName or setLongName was called
  ops

definition == <<mOptions, mPositional, mGroups, mCommands, mHelpOptionNames,
                mpActiveGroup>>
vars       == <<definition, config, others, thrown, verified, renamed, ops>>

NoConfig == [kind |-> "none", at |-> 0, countWasSet |-> FALSE]

Init ==
  /\ mOptions = <<>>
  /\ mPositional = <<>>
  /\ mGroups = [g \in Keys |-> [kind |-> "absent", required |-> FALSE]]
  /\ mCommands = {}
  /\ mHelpOptionNames = {}
  /\ mpActiveGroup = NoGroup
  /\ config = NoConfig
  /\ others = {}
  /\ thrown = "none"
  /\ verified = FALSE
  /\ renamed = FALSE
  /\ ops = 0

Operation == ops < MaxOps /\ ops' = ops + 1

Throw(e) ==
  /\ thrown' = e
  /\ verified' = FALSE
  /\ UNCHANGED <<definition, config, others, renamed>>

Return == thrown' = "none" /\ verified' = FALSE

-----------------------------------------------------------------------------
(* Names                                                                   *)

kept(name) == IF name = NoName THEN <<>> ELSE <<name>>

given(list) == kept(list[1]) \o kept(list[2])

Elements(names) == { names[i] : i \in 1..Len(names) }

(* trySetNames: the last name of a kind wins.                              *)
lastOf(names, S) ==
  IF Elements(names) \cap S = {}
    THEN NoName
    ELSE names[CHOOSE i \in 1..Len(names) :
                 names[i] \in S /\ \A j \in (i + 1)..Len(names) : names[j] \notin S]

shortOf(names) == lastOf(names, ShortNames)
longOf(names)  == lastOf(names, LongNames)

hasName(o, name) == name \in {o.short, o.long}

exists(name) == \E i \in 1..Len(mOptions) : hasName(mOptions[i], name)

(* Mutant: only the short name is looked up.                               *)
clashesShort(names) == shortOf(names) # NoName /\ exists(shortOf(names))

clashes(names) ==
  \E n \in {shortOf(names), longOf(names)} \ {NoName} : exists(n)

arePositional(names) == Elements(names) \subseteq PlainNames
areOption(names)     == Elements(names) \subseteq DashNames

(* Bare dashes are skipped.                                                *)
wellFormed(names) ==
  Elements(names) \cap WideNames = {} /\ {shortOf(names), longOf(names)} # {NoName}

-----------------------------------------------------------------------------
(* tryAddParameter                                                         *)

refusal(names) ==
  CASE names = <<>> -> "invalid_argument"
    [] names # <<>> /\ arePositional(names) -> "none"
    [] names # <<>> /\ areOption(names) /\ ~wellFormed(names) -> "invalid_argument"
    [] names # <<>> /\ areOption(names) /\ wellFormed(names) ->
         IF clashes(names) THEN "DuplicateOption" ELSE "none"
    [] OTHER -> "invalid_argument"

(* OptionFactory::createOption tells the targets that hold several values. *)
VectorArities == {"vector", "optvector"}

newOption(names, arity, group) ==
  [ short |-> shortOf(names), long |-> longOf(names), group |-> group,
    minArgs   |-> IF arity = "vector" THEN 1 ELSE 0,
    maxArgs   |-> IF arity \in VectorArities THEN -1 ELSE 0,
    required  |-> FALSE,
    forwarded |-> FALSE ]

(* addPositional: a positional parameter never joins an exclusive group.   *)
newPositional(names, arity) ==
  [ short |-> NoName, long |-> names[1],
    group |-> IF mpActiveGroup # NoGroup /\ mGroups[mpActiveGroup].kind # "exclusive"
                THEN mpActiveGroup ELSE NoGroup,
    minArgs   |-> IF arity \in VectorArities THEN 0 ELSE 1,
    maxArgs   |-> IF arity \in VectorArities THEN -1 ELSE 1,
    required  |-> TRUE,
    forwarded |-> FALSE ]

Accept(names, arity) ==
  /\ others' = others \cup ({config} \ {NoConfig})
  /\ IF arePositional(names)
       THEN /\ mPositional' = Append(mPositional, newPositional(names, arity))
            /\ config' = [kind |-> "positional", at |-> Len(mPositional) + 1,
                          countWasSet |-> FALSE]
            /\ UNCHANGED mOptions
       ELSE /\ mOptions' = Append(mOptions, newOption(names, arity, mpActiveGroup))
            /\ config' = [kind |-> "option", at |-> Len(mOptions) + 1,
                          countWasSet |-> FALSE]
            /\ UNCHANGED mPositional

AddParameter(list, arity) ==
  LET names == given(list)
  IN  /\ Operation
      /\ \/ refusal(names) # "none" /\ Throw(refusal(names))
         \/ /\ refusal(names) = "none"
            /\ Accept(names, arity)
            /\ Return
            /\ UNCHANGED <<mGroups, mCommands, mHelpOptionNames, mpActiveGroup,
                           renamed>>

-----------------------------------------------------------------------------
(* Help options                                                            *)

AddHelpOption(list) ==
  LET names == given(list)
  IN  /\ Operation
      /\ \/ ~areOption(names) /\ Throw("invalid_argument")
         \/ areOption(names) /\ refusal(names) # "none" /\ Throw(refusal(names))
         \/ /\ areOption(names) /\ refusal(names) = "none"
            /\ Accept(names, "void")
            /\ mHelpOptionNames' = mHelpOptionNames \cup Elements(names)
            /\ Return
            /\ UNCHANGED <<mGroups, mCommands, mpActiveGroup, renamed>>

unlessDefined(name) == IF exists(name) THEN <<>> ELSE <<name>>

defaultHelpNames == unlessDefined(HelpShort) \o unlessDefined(HelpLong)

(* add_default_help_option takes the names that are still free.            *)
AddDefaultHelpOption ==
  LET names == defaultHelpNames
  IN  /\ Operation
      /\ \/ names = <<>> /\ Throw("invalid_argument")
         \/ /\ names # <<>>
            /\ Accept(names, "void")
            /\ mHelpOptionNames' = mHelpOptionNames \cup Elements(names)
            /\ Return
            /\ UNCHANGED <<mGroups, mCommands, mpActiveGroup, renamed>>

(* verifyDefinedOptions, with which every parse begins.  It ends the group *)
(* that is being defined when it looks for a help option.                  *)
Verify ==
  LET names   == defaultHelpNames
      adds    == mHelpOptionNames = {} /\ names # <<>>
      options == IF adds THEN Append(mOptions, newOption(names, "void", NoGroup))
                         ELSE mOptions
      broken  == \E i \in 1..Len(options) :
                   /\ options[i].required
                   /\ options[i].group # NoGroup
                   /\ mGroups[options[i].group].kind = "exclusive"
  IN  /\ Operation
      /\ mOptions' = options
      /\ mHelpOptionNames' =
           IF adds THEN Elements(names) ELSE mHelpOptionNames
      /\ mpActiveGroup' = IF mHelpOptionNames = {} THEN NoGroup ELSE mpActiveGroup
      /\ thrown' = IF broken THEN "RequiredExclusiveOption" ELSE "none"
      /\ verified' = ~broken
      /\ UNCHANGED <<mPositional, mGroups, mCommands, config, others, renamed>>

-----------------------------------------------------------------------------
(* OptionConfig                                                            *)

(* The parameter that the config at hand refers to.                        *)
Current == IF config.kind = "option" THEN mOptions[config.at]
                                     ELSE mPositional[config.at]

Configure(changed) ==
  /\ Return
  /\ IF config.kind = "option"
       THEN mOptions' = [mOptions EXCEPT ![config.at] = changed] /\ UNCHANGED mPositional
       ELSE mPositional' = [mPositional EXCEPT ![config.at] = changed] /\ UNCHANGED mOptions
  /\ UNCHANGED <<mGroups, mCommands, mHelpOptionNames, mpActiveGroup>>

NotNegative(n) == IF n < 0 THEN 0 ELSE n

setNArgs(o, n)   == [o EXCEPT !.minArgs = NotNegative(n), !.maxArgs = NotNegative(n)]
setMinArgs(o, n) == [o EXCEPT !.minArgs = NotNegative(n), !.maxArgs = -1]
setMaxArgs(o, n) == [o EXCEPT !.minArgs = 0, !.maxArgs = NotNegative(n)]

(* nargs, minargs and maxargs: only one of them, once.                     *)
SetCount(n) ==
  /\ Operation
  /\ config.kind # "none"
  /\ \/ config.countWasSet /\ Throw("invalid_argument")
     \/ /\ ~config.countWasSet
        /\ \/ Configure(setNArgs(Current, n))
           \/ Configure(setMinArgs(Current, n))
           \/ Configure(setMaxArgs(Current, n))
        /\ config' = [config EXCEPT !.countWasSet = TRUE]
        /\ UNCHANGED <<others, renamed>>

Require(isRequired) ==
  /\ Operation
  /\ config.kind # "none"
  /\ Configure([Current EXCEPT !.required = isRequired])
  /\ UNCHANGED <<config, others, renamed>>

(* Mutant: an option with a short name may forward.                        *)
ForwardAny(isForwarded) ==
  /\ Operation
  /\ config.kind # "none"
  /\ Configure([Current EXCEPT !.forwarded = isForwarded])
  /\ UNCHANGED <<config, others, renamed>>

(* forward: only of an option without a short name, also when forwarding   *)
(* is taken back.                                                          *)
Forward(isForwarded) ==
  /\ Operation
  /\ config.kind # "none"
  /\ \/ Current.short # NoName /\ Throw("invalid_argument")
     \/ /\ Current.short = NoName
        /\ Configure([Current EXCEPT !.forwarded = isForwarded])
        /\ UNCHANGED <<config, others, renamed>>

(* setShortName and setLongName of OptionConfigBaseT check nothing.        *)
Rename(name) ==
  /\ Operation
  /\ config.kind # "none"
  /\ \/ Configure([Current EXCEPT !.short = name])
     \/ Configure([Current EXCEPT !.long = name])
  /\ renamed' = TRUE
  /\ UNCHANGED <<config, others>>

(* An OptionConfig can be kept and used after another one was returned;    *)
(* each remembers whether its count was set.                               *)
TurnTo(c) ==
  /\ config' = c
  /\ others' = (others \ {c}) \cup {config}
  /\ UNCHANGED <<definition, thrown, verified, renamed, ops>>

-----------------------------------------------------------------------------
(* Groups.  findGroup and addGroup compare names in lower case.            *)

BeginGroup(name, kind) ==
  LET g == lower[name]
  IN  /\ Operation
      /\ \/ name = NoName /\ Throw("invalid_argument")
         \/ /\ name # NoName /\ mGroups[g].kind \notin {"absent", kind}
            /\ Throw("MixingGroupTypes")
         \/ /\ name # NoName /\ mGroups[g].kind \in {"absent", kind}
            /\ mGroups' = [mGroups EXCEPT ![g].kind = kind]
            /\ mpActiveGroup' = g
            /\ Return
            /\ UNCHANGED <<mOptions, mPositional, mCommands, mHelpOptionNames,
                           config, others, renamed>>

AddGroup(name)          == BeginGroup(name, "plain")
AddExclusiveGroup(name) == BeginGroup(name, "exclusive")

EndGroup ==
  /\ Operation
  /\ mpActiveGroup' = NoGroup
  /\ Return
  /\ UNCHANGED <<mOptions, mPositional, mGroups, mCommands, mHelpOptionNames,
                 config, others, renamed>>

(* Mutant: required( false ) takes the requirement back.                   *)
RequireGroupSet(g, isRequired) ==
  /\ Operation
  /\ mGroups[g].kind # "absent"
  /\ mGroups' = [mGroups EXCEPT ![g].required = isRequired]
  /\ Return
  /\ UNCHANGED <<mOptions, mPositional, mCommands, mHelpOptionNames,
                 mpActiveGroup, config, others, renamed>>

(* OptionGroup::setRequired can not be taken back.                         *)
RequireGroup(g, isRequired) ==
  /\ Operation
  /\ mGroups[g].kind # "absent"
  /\ mGroups' = [mGroups EXCEPT ![g].required = @ \/ isRequired]
  /\ Return
  /\ UNCHANGED <<mOptions, mPositional, mCommands, mHelpOptionNames,
                 mpActiveGroup, config, others, renamed>>

-----------------------------------------------------------------------------
(* tryAddCommand, for a command with a factory or with options.            *)

AddCommand(name) ==
  /\ Operation
  /\ \/ name \in DashNames \cup {NoName} /\ Throw("invalid_argument")
     \/ name \in mCommands /\ Throw("DuplicateCommand")
     \/ /\ name \notin DashNames \cup {NoName} \cup mCommands
        /\ mCommands' = mCommands \cup {name}
        /\ Return
        /\ UNCHANGED <<mOptions, mPositional, mGroups, mHelpOptionNames,
                       mpActiveGroup, config, others, renamed>>

Next ==
  \/ \E list \in NameLists : \/ \E a \in {"single"} \cup VectorArities : AddParameter(list, a)
                             \/ AddHelpOption(list)
  \/ AddDefaultHelpOption
  \/ Verify
  \/ \E n \in Counts : SetCount(n)
  \/ \E b \in BOOLEAN : Require(b) \/ Forward(b)
  \/ \E n \in ShortNames \cup LongNames : Rename(n)
  \/ \E c \in others : TurnTo(c)
  \/ \E g \in GroupNames : AddGroup(g) \/ AddExclusiveGroup(g)
  \/ EndGroup
  \/ \E g \in Keys, b \in BOOLEAN : RequireGroup(g, b)
  \/ \E c \in CommandNames : AddCommand(c)

Spec == Init /\ [][Next]_vars

=============================================================================
