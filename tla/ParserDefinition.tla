-------------------------- MODULE ParserDefinition --------------------------
(***************************************************************************)
(* What an argumentum parser knows before it reads its first argument: the *)
(* options, the positional parameters, the Value objects behind them and   *)
(* the commands (class ParserDefinition and the immutable part of class    *)
(* Option).  Names, argument texts and commands are opaque; an option is   *)
(* identified with its Option object.                                      *)
(***************************************************************************)
EXTENDS Integers, Sequences, FiniteSets

CONSTANTS
  Options,      \* mOptions
  Positional,   \* mPositional, in the order of definition
  Values,       \* the Value objects shared by the parameters
  Names,        \* option names that may appear in an argument
  Texts,        \* texts that may be offered to a parameter as a value
  Commands,     \* mCommands
  Groups,       \* mGroups
  Def,          \* the attributes of every parameter
  ValueKind,    \* the type of target behind every Value
  Convertible,  \* the texts that from_string<T> accepts for every Value
  Exclusive,    \* the groups created by add_exclusive_group
  RequiredGroups, \* the groups on which required() was called
  Zero,         \* the text of a value-initialised target, T{}
  NoOption, NoCommand, NoGroup, NoText

Positionals == { Positional[i] : i \in 1..Len(Positional) }

Params == Options \cup Positionals

Kinds == {"scalar", "vector", "optional", "optvector", "void"}

(* What the assign action of a parameter does: the default conversion, or  *)
(* a user action that calls exit_parser, add_error or prints the help.     *)
Actions == {"assign", "exit", "help", "error"}

Attributes == [ names     : SUBSET Names,
                minArgs   : Nat,
                maxArgs   : Nat \cup {-1},
                required  : BOOLEAN,
                forwarded : BOOLEAN,
                choices   : SUBSET Texts,
                flagValue : Texts,
                default   : Texts \cup {NoText},
                group     : Groups \cup {NoGroup},
                action    : Actions,
                value     : Values ]

ASSUME DefinitionAssumption ==
  /\ Positional \in Seq(Positionals)
  /\ Options \cap Positionals = {}
  /\ NoOption \notin Params
  /\ NoText \notin Texts
  /\ Zero \in Texts
  /\ NoCommand \notin Commands
  /\ NoGroup \notin Groups
  /\ Exclusive \subseteq Groups
  /\ RequiredGroups \subseteq Groups
  /\ Def \in [Params -> Attributes]
  /\ ValueKind \in [Values -> Kinds]
  /\ Convertible \in [Values -> SUBSET Texts]

(* Every parameter is one object: a position occurs once.                  *)
ASSUME PositionalAssumption ==
  \A i, j \in 1..Len(Positional) : Positional[i] = Positional[j] => i = j

(* setNArgs, setMinArgs and setMaxArgs are the only writers of the bounds. *)
CountsShaped ==
  \A o \in Params : \/ Def[o].minArgs = Def[o].maxArgs
                    \/ Def[o].maxArgs = -1
                    \/ Def[o].minArgs = 0

ASSUME CountAssumption == CountsShaped

(* ensureIsNewOption: two options never have a name in common; positional  *)
(* parameters are not found by name.                                       *)
NamesDistinct ==
  /\ \A o \in Options : Def[o].names # {}
  /\ \A o \in Positionals : Def[o].names = {}
  /\ \A o1, o2 \in Options : Def[o1].names \cap Def[o2].names # {} => o1 = o2

ASSUME NameAssumption == NamesDistinct

(* What verifyDefinedOptions requires of a definition before a parse.      *)
RequiredNotExclusive ==
  \A o \in Options : Def[o].required => Def[o].group \notin Exclusive

findOption(name) ==
  IF \E o \in Options : name \in Def[o].names
    THEN CHOOSE o \in Options : name \in Def[o].names
    ELSE NoOption

optionWithNameExists(name) == findOption(name) # NoOption

isPositional(o) == Def[o].names = {}

isForwarded(o) == Def[o].forwarded

hasDefault(o) == Def[o].default # NoText

=============================================================================
