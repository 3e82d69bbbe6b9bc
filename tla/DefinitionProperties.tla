------------------------ MODULE DefinitionProperties ------------------------
(***************************************************************************)
(* What every sequence of calls of the definition interface establishes.   *)
(***************************************************************************)
EXTENDS ParameterConfig

namesOf(o) == {o.short, o.long} \ {NoName}

(* No call of add_parameter, add_help_option or add_default_help_option    *)
(* and no parse gives two options a name in common, in whatever order and  *)
(* with whatever pair of names they are defined (ensureIsNewOption).  Only *)
(* the setters of OptionConfigBaseT can.                                   *)
NamesUnique ==
  ~renamed =>
    \A i, j \in 1..Len(mOptions) :
      i # j => namesOf(mOptions[i]) \cap namesOf(mOptions[j]) = {}

InKind(o, kind) == o.group # NoGroup /\ mGroups[o.group].kind = kind

(* What a parse may take for granted once verifyDefinedOptions let the     *)
(* definition pass: every option is found by a name of its own and never   *)
(* taken for a positional parameter, the bounds of every parameter are one *)
(* of three shapes, forwarding options have no letter, no required option  *)
(* and no positional parameter is in an exclusive group, every group of a  *)
(* parameter exists, and the help can be asked for unless the client took  *)
(* both of its names.                                                      *)
ParsableDefinition ==
  (verified /\ ~renamed) =>
    /\ \A i \in 1..Len(mOptions) :
         LET o == mOptions[i]
         IN  /\ namesOf(o) # {} /\ namesOf(o) \subseteq DashNames
             /\ o.forwarded => o.short = NoName
             /\ o.required => ~InKind(o, "exclusive")
    /\ \A i \in 1..Len(mPositional) :
         /\ namesOf(mPositional[i]) \cap DashNames = {}
         /\ ~InKind(mPositional[i], "exclusive")
    /\ \A o \in Elements(mOptions) \cup Elements(mPositional) :
         /\ o.minArgs >= 0 /\ o.maxArgs >= -1
         /\ o.minArgs = o.maxArgs \/ o.maxArgs = -1 \/ o.minArgs = 0
         /\ ~InKind(o, "absent")
    /\ \/ \E n \in mHelpOptionNames : exists(n)
       \/ exists(HelpShort) /\ exists(HelpLong)

(* A group is exclusive or not from its first definition on, also when it  *)
(* is reopened with different capitals; it does not stop being required;   *)
(* no parameter is removed or changes its group.                           *)
GroupsSettled ==
  [][ /\ \A g \in Keys :
           mGroups[g].kind # "absent" =>
             /\ mGroups'[g].kind = mGroups[g].kind
             /\ mGroups[g].required => mGroups'[g].required
      /\ Len(mOptions') >= Len(mOptions)
      /\ Len(mPositional') >= Len(mPositional)
      /\ \A i \in 1..Len(mOptions) : mOptions'[i].group = mOptions[i].group
      /\ \A i \in 1..Len(mPositional) :
           mPositional'[i].group = mPositional[i].group ]_vars

=============================================================================
