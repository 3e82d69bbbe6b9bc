--------------------------- MODULE DefinitionProofs ---------------------------
(***************************************************************************)
(* Theorems about ParameterConfig for every set of names, every pair of    *)
(* names in a call and any number of calls.  What a parse may take for     *)
(* granted (the assumptions of ParserDefinition) is here established from  *)
(* the calls that define the parser.                                       *)
(***************************************************************************)
EXTENDS DefinitionProperties, TLAPS

GroupRecords == [kind : {"absent", "plain", "exclusive"}, required : BOOLEAN]

Configs == [kind : {"none", "option", "positional"}, at : Nat, countWasSet : BOOLEAN]

(* What one parameter is, given the groups.                                *)
CountShape(o) == o.minArgs = o.maxArgs \/ o.maxArgs = -1 \/ o.minArgs = 0

Grouped(o, groups) == o.group # NoGroup => groups[o.group].kind # "absent"

Inclusive(o, groups) == o.group # NoGroup => groups[o.group].kind # "exclusive"

(* What the names of one parameter are, as long as the client sets none    *)
(* directly.                                                               *)
OptionNames(o) ==
  /\ o.short \in ShortNames \cup {NoName}
  /\ o.long \in LongNames \cup {NoName}
  /\ o.short # NoName \/ o.long # NoName
  /\ o.forwarded => o.short = NoName

PositionalNames(o) == o.short = NoName /\ o.long \in PlainNames

Disjoint(o, q) == \A n : ~(n # NoName /\ hasName(o, n) /\ hasName(q, n))

Has(options, name) == \E i \in 1..Len(options) : hasName(options[i], name)

NamesOK(options, positional, helpNames) ==
  /\ \A i \in 1..Len(options) : OptionNames(options[i])
  /\ \A i, j \in 1..Len(options) : i # j => Disjoint(options[i], options[j])
  /\ \A i \in 1..Len(positional) : PositionalNames(positional[i])
  /\ helpNames # {} => \E n \in helpNames : Has(options, n)

ParametersOK(options, positional, groups) ==
  /\ options \in Seq(Parameters)
  /\ positional \in Seq(Parameters)
  /\ \A i \in 1..Len(options) : CountShape(options[i]) /\ Grouped(options[i], groups)
  /\ \A i \in 1..Len(positional) :
       /\ CountShape(positional[i]) /\ Grouped(positional[i], groups)
       /\ Inclusive(positional[i], groups)

GroupsOK(groups, active) ==
  /\ groups \in [Keys -> GroupRecords]
  /\ active \in Keys \cup {NoGroup}
  /\ active # NoGroup => groups[active].kind # "absent"

ConfigOK(c, options, positional) ==
  /\ c \in Configs
  /\ c.kind = "option" => c.at \in 1..Len(options)
  /\ c.kind = "positional" => c.at \in 1..Len(positional)

HelpOffered(options, helpNames) ==
  \/ \E n \in helpNames : Has(options, n)
  \/ Has(options, HelpShort) /\ Has(options, HelpLong)

VerifiedOK(options, groups, helpNames) ==
  /\ \A i \in 1..Len(options) :
       options[i].required => Inclusive(options[i], groups)
  /\ renamed \/ HelpOffered(options, helpNames)

IInv ==
  /\ ParametersOK(mOptions, mPositional, mGroups)
  /\ GroupsOK(mGroups, mpActiveGroup)
  /\ ConfigOK(config, mOptions, mPositional)
  /\ renamed \/ NamesOK(mOptions, mPositional, mHelpOptionNames)
  /\ verified => VerifiedOK(mOptions, mGroups, mHelpOptionNames)


-----------------------------------------------------------------------------
(* The names of a call.                                                    *)

(* A call gives at most two names, and none of them is NoName.             *)
LEMMA GivenNames ==
  ASSUME NEW list \in NameLists
  PROVE  /\ given(list) \in Seq(AllNames)
         /\ Len(given(list)) \in 0..2
<1>1. PICK a \in AllNames \cup {NoName}, b \in AllNames \cup {NoName} : list = <<a, b>>
  BY NamesAssumption
<1>2. given(list) = kept(a) \o kept(b)
  BY <1>1 DEF given
<1>3. CASE a = NoName /\ b = NoName
  <2>1. given(list) = <<>>
    BY <1>2, <1>3 DEF kept
  <2> QED BY <2>1
<1>4. CASE a = NoName /\ b # NoName
  <2>1. given(list) = <<b>>
    BY <1>2, <1>4 DEF kept
  <2> QED BY <2>1, <1>4
<1>5. CASE a # NoName /\ b = NoName
  <2>1. given(list) = <<a>>
    BY <1>2, <1>5 DEF kept
  <2> QED BY <2>1, <1>5
<1>6. CASE a # NoName /\ b # NoName
  <2>1. given(list) = <<a>> \o <<b>>
    BY <1>2, <1>6 DEF kept
  <2>2. <<a>> \in Seq(AllNames) /\ <<b>> \in Seq(AllNames)
    BY <1>6
  <2>3. Len(<<a>>) = 1 /\ Len(<<b>>) = 1
    OBVIOUS
  <2> QED BY <2>1, <2>2, <2>3
<1> QED BY <1>3, <1>4, <1>5, <1>6

LEMMA ElementsAreNames ==
  ASSUME NEW names \in Seq(AllNames)
  PROVE  Elements(names) \subseteq AllNames /\ NoName \notin Elements(names)
BY NamesAssumption DEF Elements

(* The last name of a kind is one of the names, or there is none.          *)
LEMMA LastOfFacts ==
  ASSUME NEW names \in Seq(AllNames), Len(names) \in 0..2, NEW S
  PROVE  /\ Elements(names) \cap S = {} => lastOf(names, S) = NoName
         /\ Elements(names) \cap S # {} => lastOf(names, S) \in Elements(names) \cap S
<1> DEFINE Last(i) == names[i] \in S /\ \A j \in (i + 1)..Len(names) : names[j] \notin S
<1>1. ASSUME Elements(names) \cap S # {}
      PROVE  lastOf(names, S) \in Elements(names) \cap S
  <2>1. PICK k \in 1..Len(names) : names[k] \in S
    BY <1>1 DEF Elements
  <2>2. \E i \in 1..Len(names) : Last(i)
    <3>1. CASE names[Len(names)] \in S
      <4>1. Last(Len(names)) /\ Len(names) \in 1..Len(names)
        BY <2>1, <3>1
      <4> QED BY <4>1
    <3>2. CASE names[Len(names)] \notin S
      <4>1. k = 1 /\ Len(names) = 2
        BY <2>1, <3>2
      <4>2. Last(1)
        BY <2>1, <3>2, <4>1
      <4> QED BY <4>1, <4>2
    <3> QED BY <3>1, <3>2
  <2>3. PICK c : c = CHOOSE i \in 1..Len(names) : Last(i)
    OBVIOUS
  <2>4. c \in 1..Len(names) /\ Last(c)
    BY <2>2, <2>3
  <2>5. lastOf(names, S) = names[c]
    BY <1>1, <2>3 DEF lastOf
  <2> QED BY <2>4, <2>5 DEF Elements
<1>2. Elements(names) \cap S = {} => lastOf(names, S) = NoName
  BY DEF lastOf
<1> QED BY <1>1, <1>2


-----------------------------------------------------------------------------
(* The parameter that an accepted call adds.                               *)

(* A name that the new option is found by is the last short or the last    *)
(* long name of the call.                                                  *)
LEMMA OptionOfCall ==
  ASSUME NEW names \in Seq(AllNames), Len(names) \in 0..2, wellFormed(names),
         NEW arity, NEW group \in Keys \cup {NoGroup}
  PROVE  LET o == newOption(names, arity, group)
         IN  /\ o \in Parameters /\ o.group = group /\ ~o.required
             /\ CountShape(o) /\ OptionNames(o)
             /\ \A n : n # NoName =>
                  (hasName(o, n) <=> n \in {shortOf(names), longOf(names)})
             /\ \E n \in Elements(names) : n # NoName /\ hasName(o, n)
<1> DEFINE s == shortOf(names)
           l == longOf(names)
<1>1. /\ s = NoName \/ s \in Elements(names) \cap ShortNames
      /\ l = NoName \/ l \in Elements(names) \cap LongNames
  BY LastOfFacts DEF shortOf, longOf
<1>2. s # NoName \/ l # NoName
  BY DEF wellFormed
<1>3. NoName \notin Elements(names) /\ Elements(names) \subseteq AllNames
  BY ElementsAreNames
<1>4. PICK lo, hi : /\ lo = IF arity = "vector" THEN 1 ELSE 0
                    /\ hi = IF arity \in VectorArities THEN -1 ELSE 0
  OBVIOUS
<1>5. lo \in Nat /\ hi \in Nat \cup {-1} /\ (lo = hi \/ hi = -1 \/ lo = 0)
  BY <1>4 DEF VectorArities
<1>6. PICK o : o = newOption(names, arity, group)
  OBVIOUS
<1>7. o = [ short |-> s, long |-> l, group |-> group, minArgs |-> lo, maxArgs |-> hi,
            required |-> FALSE, forwarded |-> FALSE ]
  BY <1>4, <1>6 DEF newOption
<1> HIDE DEF s, l
<1>8. o \in Parameters
  BY <1>1, <1>3, <1>5, <1>7 DEF Parameters
<1>9. o.group = group /\ ~o.required /\ CountShape(o)
  BY <1>5, <1>7 DEF CountShape
<1>10. OptionNames(o)
  BY <1>1, <1>2, <1>7 DEF OptionNames
<1>11. \A n : hasName(o, n) <=> n \in {s, l}
  BY <1>7 DEF hasName
<1>12. \E n \in Elements(names) : n # NoName /\ hasName(o, n)
  BY <1>1, <1>2, <1>3, <1>11
<1> QED BY <1>6, <1>8, <1>9, <1>10, <1>11, <1>12 DEF s, l

LEMMA PositionalOfCall ==
  ASSUME NEW names \in Seq(AllNames), names # <<>>, arePositional(names),
         GroupsOK(mGroups, mpActiveGroup), NEW arity
  PROVE  LET o == newPositional(names, arity)
         IN  /\ o \in Parameters /\ CountShape(o) /\ PositionalNames(o)
             /\ Grouped(o, mGroups) /\ Inclusive(o, mGroups)
<1>1. names[1] \in PlainNames /\ names[1] \in AllNames
  BY DEF arePositional, Elements
<1>2. PICK lo, hi : /\ lo = IF arity \in VectorArities THEN 0 ELSE 1
                    /\ hi = IF arity \in VectorArities THEN -1 ELSE 1
  OBVIOUS
<1>3. lo \in Nat /\ hi \in Nat \cup {-1} /\ (lo = hi \/ hi = -1 \/ lo = 0)
  BY <1>2
<1>4. PICK g : g = IF mpActiveGroup # NoGroup /\ mGroups[mpActiveGroup].kind # "exclusive"
                     THEN mpActiveGroup ELSE NoGroup
  OBVIOUS
<1>5. /\ g \in Keys \cup {NoGroup}
      /\ g # NoGroup => mGroups[g].kind # "absent" /\ mGroups[g].kind # "exclusive"
  BY <1>4 DEF GroupsOK
<1>6. PICK o : o = newPositional(names, arity)
  OBVIOUS
<1>7. o = [ short |-> NoName, long |-> names[1], group |-> g, minArgs |-> lo,
            maxArgs |-> hi, required |-> TRUE, forwarded |-> FALSE ]
  BY <1>2, <1>4, <1>6 DEF newPositional
<1>8. o \in Parameters
  BY <1>1, <1>3, <1>5, <1>7 DEF Parameters
<1>9. CountShape(o) /\ PositionalNames(o)
  BY <1>1, <1>3, <1>7 DEF CountShape, PositionalNames
<1>10. Grouped(o, mGroups) /\ Inclusive(o, mGroups)
  BY <1>5, <1>7 DEF Grouped, Inclusive
<1> QED BY <1>6, <1>8, <1>9, <1>10


-----------------------------------------------------------------------------
(* What adding and replacing a parameter keeps.                            *)

LEMMA AppendOptionKeeps ==
  ASSUME NEW options, NEW positional, NEW groups,
         ParametersOK(options, positional, groups),
         NEW o \in Parameters, CountShape(o), Grouped(o, groups)
  PROVE  ParametersOK(Append(options, o), positional, groups)
<1>1. PICK opts : opts = Append(options, o)
  OBVIOUS
<1>2. /\ opts \in Seq(Parameters) /\ Len(opts) = Len(options) + 1
      /\ Len(options) \in Nat
      /\ \A i \in 1..Len(opts) : i \in 1..Len(options) \/ i = Len(options) + 1
      /\ \A i \in 1..Len(options) : opts[i] = options[i]
      /\ opts[Len(options) + 1] = o
  BY <1>1 DEF ParametersOK
<1>3. \A i \in 1..Len(opts) : CountShape(opts[i]) /\ Grouped(opts[i], groups)
  BY <1>2 DEF ParametersOK
<1> QED BY <1>1, <1>2, <1>3 DEF ParametersOK

LEMMA AppendPositionalKeeps ==
  ASSUME NEW options, NEW positional, NEW groups,
         ParametersOK(options, positional, groups),
         NEW o \in Parameters, CountShape(o), Grouped(o, groups), Inclusive(o, groups)
  PROVE  ParametersOK(options, Append(positional, o), groups)
<1>1. PICK pos : pos = Append(positional, o)
  OBVIOUS
<1>2. /\ pos \in Seq(Parameters) /\ Len(pos) = Len(positional) + 1
      /\ Len(positional) \in Nat
      /\ \A i \in 1..Len(pos) : i \in 1..Len(positional) \/ i = Len(positional) + 1
      /\ \A i \in 1..Len(positional) : pos[i] = positional[i]
      /\ pos[Len(positional) + 1] = o
  BY <1>1 DEF ParametersOK
<1>3. \A i \in 1..Len(pos) : /\ CountShape(pos[i]) /\ Grouped(pos[i], groups)
                             /\ Inclusive(pos[i], groups)
  BY <1>2 DEF ParametersOK
<1> QED BY <1>1, <1>2, <1>3 DEF ParametersOK

(* A new option whose names nobody has.                                    *)
LEMMA AppendOptionNames ==
  ASSUME NEW options \in Seq(Parameters), NEW positional, NEW helpNames, NEW help,
         NamesOK(options, positional, helpNames),
         NEW o \in Parameters, OptionNames(o),
         \A n : n # NoName /\ hasName(o, n) => ~Has(options, n),
         help = helpNames \/ \E n \in help : hasName(o, n)
  PROVE  /\ NamesOK(Append(options, o), positional, help)
         /\ \A n : Has(Append(options, o), n) <=> (Has(options, n) \/ hasName(o, n))
<1>1. PICK opts : opts = Append(options, o)
  OBVIOUS
<1>2. /\ opts \in Seq(Parameters) /\ Len(opts) = Len(options) + 1
      /\ Len(options) \in Nat
      /\ \A i \in 1..Len(opts) : i \in 1..Len(options) \/ i = Len(options) + 1
      /\ \A i \in 1..Len(options) : opts[i] = options[i] /\ i \in 1..Len(opts)
      /\ opts[Len(options) + 1] = o /\ Len(options) + 1 \in 1..Len(opts)
  BY <1>1
<1>3. \A i \in 1..Len(opts) : OptionNames(opts[i])
  BY <1>2 DEF NamesOK
<1>4. \A i \in 1..Len(options) : Disjoint(options[i], o) /\ Disjoint(o, options[i])
  BY DEF Disjoint, Has
<1>5. ASSUME NEW i \in 1..Len(opts), NEW j \in 1..Len(opts), i # j
      PROVE  Disjoint(opts[i], opts[j])
  <2>1. CASE i \in 1..Len(options) /\ j \in 1..Len(options)
    BY <1>2, <1>5, <2>1 DEF NamesOK
  <2>2. CASE i \in 1..Len(options) /\ j = Len(options) + 1
    BY <1>2, <1>4, <2>2
  <2>3. CASE i = Len(options) + 1 /\ j \in 1..Len(options)
    BY <1>2, <1>4, <2>3
  <2> QED BY <1>2, <1>5, <2>1, <2>2, <2>3
<1>6. \A n : Has(opts, n) <=> (Has(options, n) \/ hasName(o, n))
  BY <1>2 DEF Has
<1>7. help # {} => \E n \in help : Has(opts, n)
  BY <1>6 DEF NamesOK
<1>8. NamesOK(opts, positional, help)
  BY <1>3, <1>5, <1>7 DEF NamesOK
<1> QED BY <1>1, <1>6, <1>8

LEMMA AppendPositionalNames ==
  ASSUME NEW options, NEW positional \in Seq(Parameters), NEW helpNames,
         NamesOK(options, positional, helpNames),
         NEW o \in Parameters, PositionalNames(o)
  PROVE  NamesOK(options, Append(positional, o), helpNames)
<1>1. PICK pos : pos = Append(positional, o)
  OBVIOUS
<1>2. /\ pos \in Seq(Parameters) /\ Len(pos) = Len(positional) + 1
      /\ Len(positional) \in Nat
      /\ \A i \in 1..Len(pos) : i \in 1..Len(positional) \/ i = Len(positional) + 1
      /\ \A i \in 1..Len(positional) : pos[i] = positional[i]
      /\ pos[Len(positional) + 1] = o
  BY <1>1
<1>3. \A i \in 1..Len(pos) : PositionalNames(pos[i])
  BY <1>2 DEF NamesOK
<1> QED BY <1>1, <1>3 DEF NamesOK

(* A setter of OptionConfig keeps the group and one of the three shapes.   *)
LEMMA ReplaceOptionKeeps ==
  ASSUME NEW options, NEW positional, NEW groups,
         ParametersOK(options, positional, groups),
         NEW k \in 1..Len(options), NEW q \in Parameters,
         q.group = options[k].group, CountShape(q)
  PROVE  /\ ParametersOK([options EXCEPT ![k] = q], positional, groups)
         /\ Len([options EXCEPT ![k] = q]) = Len(options)
<1>1. PICK opts : opts = [options EXCEPT ![k] = q]
  OBVIOUS
<1>2. /\ opts \in Seq(Parameters) /\ Len(opts) = Len(options)
      /\ \A i \in 1..Len(options) : opts[i] = IF i = k THEN q ELSE options[i]
  BY <1>1 DEF ParametersOK
<1>3. \A i \in 1..Len(opts) : CountShape(opts[i]) /\ Grouped(opts[i], groups)
  BY <1>2 DEF ParametersOK, Grouped
<1> QED BY <1>1, <1>2, <1>3 DEF ParametersOK

LEMMA ReplacePositionalKeeps ==
  ASSUME NEW options, NEW positional, NEW groups,
         ParametersOK(options, positional, groups),
         NEW k \in 1..Len(positional), NEW q \in Parameters,
         q.group = positional[k].group, CountShape(q)
  PROVE  /\ ParametersOK(options, [positional EXCEPT ![k] = q], groups)
         /\ Len([positional EXCEPT ![k] = q]) = Len(positional)
<1>1. PICK pos : pos = [positional EXCEPT ![k] = q]
  OBVIOUS
<1>2. /\ pos \in Seq(Parameters) /\ Len(pos) = Len(positional)
      /\ \A i \in 1..Len(positional) : pos[i] = IF i = k THEN q ELSE positional[i]
  BY <1>1 DEF ParametersOK
<1>3. \A i \in 1..Len(pos) : /\ CountShape(pos[i]) /\ Grouped(pos[i], groups)
                             /\ Inclusive(pos[i], groups)
  BY <1>2 DEF ParametersOK, Grouped, Inclusive
<1> QED BY <1>1, <1>2, <1>3 DEF ParametersOK

LEMMA ReplaceNames ==
  ASSUME NEW options \in Seq(Parameters), NEW positional \in Seq(Parameters),
         NEW helpNames, NamesOK(options, positional, helpNames), NEW q
  PROVE  /\ \A k \in 1..Len(options) :
              /\ q.short = options[k].short /\ q.long = options[k].long
              /\ q.forwarded => q.short = NoName
              => NamesOK([options EXCEPT ![k] = q], positional, helpNames)
         /\ \A k \in 1..Len(positional) :
              q.short = positional[k].short /\ q.long = positional[k].long
              => NamesOK(options, [positional EXCEPT ![k] = q], helpNames)
<1>1. ASSUME NEW k \in 1..Len(options),
             q.short = options[k].short, q.long = options[k].long,
             q.forwarded => q.short = NoName
      PROVE  NamesOK([options EXCEPT ![k] = q], positional, helpNames)
  <2>1. PICK opts : opts = [options EXCEPT ![k] = q]
    OBVIOUS
  <2>2. /\ Len(opts) = Len(options)
        /\ \A i \in 1..Len(options) : opts[i] = IF i = k THEN q ELSE options[i]
    BY <2>1
  <2>3. \A i \in 1..Len(options) : \A n : hasName(opts[i], n) <=> hasName(options[i], n)
    BY <1>1, <2>2 DEF hasName
  <2>4. \A i \in 1..Len(options) : OptionNames(opts[i])
    BY <1>1, <2>2 DEF NamesOK, OptionNames
  <2>5. \A i, j \in 1..Len(options) : i # j => Disjoint(opts[i], opts[j])
    BY <2>3 DEF NamesOK, Disjoint
  <2>6. \A n : Has(opts, n) <=> Has(options, n)
    BY <2>2, <2>3 DEF Has
  <2> QED BY <2>1, <2>2, <2>4, <2>5, <2>6 DEF NamesOK
<1>2. ASSUME NEW k \in 1..Len(positional),
             q.short = positional[k].short, q.long = positional[k].long
      PROVE  NamesOK(options, [positional EXCEPT ![k] = q], helpNames)
  <2>1. PICK pos : pos = [positional EXCEPT ![k] = q]
    OBVIOUS
  <2>2. /\ Len(pos) = Len(positional)
        /\ \A i \in 1..Len(positional) : pos[i] = IF i = k THEN q ELSE positional[i]
    BY <2>1
  <2>3. \A i \in 1..Len(pos) : PositionalNames(pos[i])
    BY <1>2, <2>2 DEF NamesOK, PositionalNames
  <2> QED BY <2>1, <2>3 DEF NamesOK
<1> QED BY <1>1, <1>2


-----------------------------------------------------------------------------
(* The calls that add a parameter.                                         *)

LEMMA ThrowKeeps ==
  ASSUME IInv, NEW e, Throw(e)
  PROVE  IInv'
BY DEF IInv, Throw, definition, GroupsOK, ConfigOK

(* What tryAddParameter did not refuse.                                    *)
LEMMA NotRefused ==
  ASSUME NEW names, refusal(names) = "none"
  PROVE  /\ names # <<>>
         /\ arePositional(names) \/ (wellFormed(names) /\ ~clashes(names))
BY DEF refusal

(* The new parameter meets the others: whichever it is, the definition     *)
(* stays one.                                                              *)
LEMMA AcceptKeeps ==
  ASSUME IInv, NEW names \in Seq(AllNames), Len(names) \in 0..2, names # <<>>,
         arePositional(names) \/ (wellFormed(names) /\ ~clashes(names)),
         NEW arity, Accept(names, arity), Return,
         UNCHANGED <<mGroups, mpActiveGroup, renamed>>,
         \/ mHelpOptionNames' = mHelpOptionNames
         \/ ~arePositional(names)
            /\ mHelpOptionNames' = mHelpOptionNames \cup Elements(names)
  PROVE  IInv'
<1>1. /\ ParametersOK(mOptions, mPositional, mGroups) /\ GroupsOK(mGroups, mpActiveGroup)
      /\ renamed \/ NamesOK(mOptions, mPositional, mHelpOptionNames)
      /\ mOptions \in Seq(Parameters) /\ mPositional \in Seq(Parameters)
  BY DEF IInv, ParametersOK
<1>2. /\ verified' = FALSE /\ GroupsOK(mGroups', mpActiveGroup')
      /\ mGroups' = mGroups /\ renamed' = renamed
  BY <1>1 DEF Return
<1>3. CASE arePositional(names)
  <2>1. PICK o : o = newPositional(names, arity)
    OBVIOUS
  <2>2. /\ o \in Parameters /\ CountShape(o) /\ PositionalNames(o)
        /\ Grouped(o, mGroups) /\ Inclusive(o, mGroups)
    BY <1>1, <1>3, <2>1, PositionalOfCall
  <2>3. /\ mPositional' = Append(mPositional, o) /\ mOptions' = mOptions
        /\ mHelpOptionNames' = mHelpOptionNames
        /\ config' = [kind |-> "positional", at |-> Len(mPositional) + 1,
                      countWasSet |-> FALSE]
    BY <1>3, <2>1 DEF Accept
  <2>4. ParametersOK(mOptions', mPositional', mGroups')
    BY <1>1, <1>2, <2>2, <2>3, AppendPositionalKeeps
  <2>5. renamed' \/ NamesOK(mOptions', mPositional', mHelpOptionNames')
    BY <1>1, <1>2, <2>2, <2>3, AppendPositionalNames
  <2>6. Len(mPositional') = Len(mPositional) + 1 /\ Len(mPositional) \in Nat
    BY <1>1, <2>3
  <2>7. ConfigOK(config', mOptions', mPositional')
    BY <2>3, <2>6 DEF ConfigOK, Configs
  <2> QED BY <1>2, <2>4, <2>5, <2>7 DEF IInv
<1>4. CASE ~arePositional(names)
  <2>1. PICK o : o = newOption(names, arity, mpActiveGroup)
    OBVIOUS
  <2>2. mpActiveGroup \in Keys \cup {NoGroup} /\ wellFormed(names) /\ ~clashes(names)
    BY <1>1, <1>4 DEF GroupsOK
  <2>3. /\ o \in Parameters /\ o.group = mpActiveGroup /\ CountShape(o) /\ OptionNames(o)
        /\ \A n : n # NoName => (hasName(o, n) <=> n \in {shortOf(names), longOf(names)})
        /\ \E n \in Elements(names) : n # NoName /\ hasName(o, n)
    BY <2>1, <2>2, OptionOfCall
  <2>4. Grouped(o, mGroups)
    BY <1>1, <2>3 DEF Grouped, GroupsOK
  <2>5. /\ mOptions' = Append(mOptions, o) /\ mPositional' = mPositional
        /\ config' = [kind |-> "option", at |-> Len(mOptions) + 1, countWasSet |-> FALSE]
    BY <1>4, <2>1 DEF Accept
  <2>6. ParametersOK(mOptions', mPositional', mGroups')
    BY <1>1, <1>2, <2>3, <2>4, <2>5, AppendOptionKeeps
  <2>7. \A n : n # NoName /\ hasName(o, n) => ~Has(mOptions, n)
    BY <2>2, <2>3 DEF clashes, exists, Has
  <2>8. \/ mHelpOptionNames' = mHelpOptionNames
        \/ \E n \in mHelpOptionNames' : hasName(o, n)
    BY <2>3
  <2>9. renamed' \/ NamesOK(mOptions', mPositional', mHelpOptionNames')
    BY <1>1, <1>2, <2>3, <2>5, <2>7, <2>8, AppendOptionNames
  <2>10. Len(mOptions') = Len(mOptions) + 1 /\ Len(mOptions) \in Nat
    BY <1>1, <2>5
  <2>11. ConfigOK(config', mOptions', mPositional')
    BY <2>5, <2>10 DEF ConfigOK, Configs
  <2> QED BY <1>2, <2>6, <2>9, <2>11 DEF IInv
<1> QED BY <1>3, <1>4

LEMMA AddParameterKeeps ==
  ASSUME IInv, NEW list \in NameLists, NEW arity, AddParameter(list, arity)
  PROVE  IInv'
<1>1. PICK names : names = given(list)
  OBVIOUS
<1>2. names \in Seq(AllNames) /\ Len(names) \in 0..2
  BY <1>1, GivenNames
<1>3. CASE Throw(refusal(names))
  BY <1>3, ThrowKeeps
<1>4. CASE /\ refusal(names) = "none" /\ Accept(names, arity) /\ Return
           /\ UNCHANGED <<mGroups, mCommands, mHelpOptionNames, mpActiveGroup, renamed>>
  BY <1>2, <1>4, NotRefused, AcceptKeeps
<1> QED BY <1>1, <1>3, <1>4 DEF AddParameter

(* A call with names of options only is not one of positional parameters.  *)
LEMMA OptionCall ==
  ASSUME NEW names \in Seq(AllNames), names # <<>>, areOption(names)
  PROVE  ~arePositional(names)
<1>1. names[1] \in Elements(names)
  BY DEF Elements
<1> QED BY <1>1, NamesAssumption DEF areOption, arePositional

LEMMA AddHelpOptionKeeps ==
  ASSUME IInv, NEW list \in NameLists, AddHelpOption(list)
  PROVE  IInv'
<1>1. PICK names : names = given(list)
  OBVIOUS
<1>2. names \in Seq(AllNames) /\ Len(names) \in 0..2
  BY <1>1, GivenNames
<1>3. CASE Throw("invalid_argument") \/ Throw(refusal(names))
  BY <1>3, ThrowKeeps
<1>4. CASE /\ areOption(names) /\ refusal(names) = "none" /\ Accept(names, "void")
           /\ mHelpOptionNames' = mHelpOptionNames \cup Elements(names)
           /\ Return /\ UNCHANGED <<mGroups, mCommands, mpActiveGroup, renamed>>
  <2>1. names # <<>> /\ wellFormed(names) /\ ~clashes(names) /\ ~arePositional(names)
    BY <1>2, <1>4, NotRefused, OptionCall
  <2> QED BY <1>2, <1>4, <2>1, AcceptKeeps
<1> QED BY <1>1, <1>3, <1>4 DEF AddHelpOption

LEMMA AtMostOne == \A m \in {0, 1} : \A j \in 1..m : m # 0 /\ j = 1
OBVIOUS

LEMMA AtMostTwo == \A m, n \in {0, 1} : m + n \in 0..2
OBVIOUS

(* The default names that are left: they are a call's names, and nobody    *)
(* has them.                                                               *)
LEMMA DefaultNames ==
  ASSUME mOptions \in Seq(Parameters)
  PROVE  LET names == defaultHelpNames
         IN  /\ names \in Seq(AllNames) /\ Len(names) \in 0..2
             /\ names = <<>> => exists(HelpShort) /\ exists(HelpLong)
             /\ names # <<>> =>
                  wellFormed(names) /\ ~clashes(names) /\ ~arePositional(names)
<1>1. PICK s, l : s = unlessDefined(HelpShort) /\ l = unlessDefined(HelpLong)
  OBVIOUS
<1>2. PICK names : names = defaultHelpNames
  OBVIOUS
<1>3. /\ HelpShort \in ShortNames /\ HelpLong \in LongNames
      /\ HelpShort \in AllNames /\ HelpLong \in AllNames
      /\ HelpShort \in DashNames /\ HelpLong \in DashNames
  BY NamesAssumption DEF AllNames, DashNames
<1>4. /\ (s = <<>> /\ exists(HelpShort)) \/ (s = <<HelpShort>> /\ ~exists(HelpShort))
      /\ (l = <<>> /\ exists(HelpLong)) \/ (l = <<HelpLong>> /\ ~exists(HelpLong))
  BY <1>1 DEF unlessDefined
<1>5. /\ s \in Seq(AllNames) /\ Len(s) \in 0..1 /\ (Len(s) = 0 <=> s = <<>>)
      /\ l \in Seq(AllNames) /\ Len(l) \in 0..1 /\ (Len(l) = 0 <=> l = <<>>)
  <2>1. ASSUME NEW x \in AllNames, NEW t, t = <<>> \/ t = <<x>>
        PROVE  t \in Seq(AllNames) /\ Len(t) \in 0..1 /\ (Len(t) = 0 <=> t = <<>>)
    <3>1. CASE t = <<>>
      BY <3>1
    <3>2. CASE t = <<x>>
      BY <3>2
    <3> QED BY <2>1, <3>1, <3>2
  <2> QED BY <1>3, <1>4, <2>1
<1>6. s \in Seq(AllNames) /\ l \in Seq(AllNames)
  BY <1>5
<1>7. Len(s) \in {0, 1} /\ Len(l) \in {0, 1}
  BY <1>5
<1>8. Len(s) = 0 <=> s = <<>>
  BY <1>5
<1>9. Len(l) = 0 <=> l = <<>>
  BY <1>5
<1>10. names = s \o l
  BY <1>1, <1>2 DEF defaultHelpNames
<1>11. names \in Seq(AllNames) /\ Len(names) = Len(s) + Len(l)
  BY <1>6, <1>10
<1>12. names = <<>> => exists(HelpShort) /\ exists(HelpLong)
  <2> SUFFICES ASSUME names = <<>> PROVE exists(HelpShort) /\ exists(HelpLong)
    OBVIOUS
  <2>1. Len(s) = 0 /\ Len(l) = 0
    BY <1>11, <1>7
  <2>2. <<HelpShort>> # <<>> /\ <<HelpLong>> # <<>>
    OBVIOUS
  <2> QED BY <1>4, <1>8, <1>9, <2>1, <2>2
<1>13. \A n \in Elements(names) : n \in {HelpShort, HelpLong} /\ ~exists(n)
  <2> SUFFICES ASSUME NEW i \in 1..Len(names)
               PROVE  names[i] \in {HelpShort, HelpLong} /\ ~exists(names[i])
    BY DEF Elements
  <2>1. /\ i \in 1..Len(s) => names[i] = s[i]
        /\ i \notin 1..Len(s) => names[i] = l[i - Len(s)] /\ i - Len(s) \in 1..Len(l)
    BY <1>6, <1>7, <1>10
  <2>2. ASSUME NEW j \in 1..Len(s)
        PROVE  s[j] = HelpShort /\ ~exists(HelpShort)
    <3>1. Len(s) # 0 /\ j = 1
      BY <1>7, AtMostOne, Zenon
    <3>2. s = <<HelpShort>> /\ ~exists(HelpShort)
      BY <1>4, <1>8, <3>1
    <3>3. s[1] = HelpShort
      BY <3>2
    <3> QED BY <3>1, <3>2, <3>3
  <2>3. ASSUME NEW j \in 1..Len(l)
        PROVE  l[j] = HelpLong /\ ~exists(HelpLong)
    <3>1. Len(l) # 0 /\ j = 1
      BY <1>7, AtMostOne, Zenon
    <3>2. l = <<HelpLong>> /\ ~exists(HelpLong)
      BY <1>4, <1>9, <3>1
    <3>3. l[1] = HelpLong
      BY <3>2
    <3> QED BY <3>1, <3>2, <3>3
  <2> QED BY <2>1, <2>2, <2>3
<1>14. ASSUME names # <<>>
       PROVE  wellFormed(names) /\ ~clashes(names) /\ ~arePositional(names)
  <2>1. names[1] \in Elements(names)
    BY <1>11, <1>14 DEF Elements
  <2>2. /\ shortOf(names) = NoName \/ shortOf(names) \in Elements(names) \cap ShortNames
        /\ longOf(names) = NoName \/ longOf(names) \in Elements(names) \cap LongNames
        /\ Elements(names) \cap ShortNames # {} => shortOf(names) \in Elements(names)
        /\ Elements(names) \cap LongNames # {} => longOf(names) \in Elements(names)
    <3>1. Len(names) \in 0..2
      BY <1>11, <1>7, AtMostTwo, Zenon
    <3>2. /\ Elements(names) \cap ShortNames = {} => shortOf(names) = NoName
          /\ Elements(names) \cap ShortNames # {} =>
               shortOf(names) \in Elements(names) \cap ShortNames
      BY <1>11, <3>1, LastOfFacts DEF shortOf
    <3>3. /\ Elements(names) \cap LongNames = {} => longOf(names) = NoName
          /\ Elements(names) \cap LongNames # {} =>
               longOf(names) \in Elements(names) \cap LongNames
      BY <1>11, <3>1, LastOfFacts DEF longOf
    <3> QED BY <3>2, <3>3
  <2>3. ~clashes(names)
    BY <1>13, <2>2 DEF clashes
  <2>4. Elements(names) \cap ShortNames # {} \/ Elements(names) \cap LongNames # {}
    BY <1>3, <1>13, <2>1
  <2>5. {shortOf(names), longOf(names)} # {NoName}
    <3>1. NoName \notin Elements(names)
      BY <1>11, ElementsAreNames
    <3> QED BY <2>2, <2>4, <3>1
  <2>6. Elements(names) \cap WideNames = {}
    <3>1. HelpShort \notin WideNames /\ HelpLong \notin WideNames
      BY <1>3, NamesAssumption
    <3> QED BY <1>13, <3>1
  <2>7. ~arePositional(names)
    <3>1. HelpShort \notin PlainNames /\ HelpLong \notin PlainNames
      BY <1>3, NamesAssumption
    <3>2. names[1] \in {HelpShort, HelpLong}
      BY <1>13, <2>1
    <3> QED BY <2>1, <3>1, <3>2 DEF arePositional
  <2> QED BY <2>3, <2>5, <2>6, <2>7 DEF wellFormed
<1>15. Len(names) \in 0..2
  BY <1>11, <1>7, AtMostTwo, Zenon
<1> QED BY <1>2, <1>15, <1>11, <1>12, <1>14

LEMMA AddDefaultHelpOptionKeeps ==
  ASSUME IInv, AddDefaultHelpOption
  PROVE  IInv'
<1>1. PICK names : names = defaultHelpNames
  OBVIOUS
<1>2. mOptions \in Seq(Parameters)
  BY DEF IInv, ParametersOK
<1>3. /\ names \in Seq(AllNames) /\ Len(names) \in 0..2
      /\ names # <<>> => wellFormed(names) /\ ~clashes(names) /\ ~arePositional(names)
  BY <1>1, <1>2, DefaultNames
<1>4. CASE Throw("invalid_argument")
  BY <1>4, ThrowKeeps
<1>5. CASE /\ names # <<>> /\ Accept(names, "void")
           /\ mHelpOptionNames' = mHelpOptionNames \cup Elements(names)
           /\ Return /\ UNCHANGED <<mGroups, mCommands, mpActiveGroup, renamed>>
  BY <1>3, <1>5, AcceptKeeps
<1> QED BY <1>1, <1>4, <1>5 DEF AddDefaultHelpOption


-----------------------------------------------------------------------------
(* verifyDefinedOptions                                                    *)

(* NamesOK makes a nonempty set of help names one that is found.           *)
LEMMA VerifyKeeps ==
  ASSUME IInv, Verify
  PROVE  IInv'
<1>1. /\ ParametersOK(mOptions, mPositional, mGroups) /\ GroupsOK(mGroups, mpActiveGroup)
      /\ renamed \/ NamesOK(mOptions, mPositional, mHelpOptionNames)
      /\ ConfigOK(config, mOptions, mPositional)
      /\ mOptions \in Seq(Parameters) /\ mPositional \in Seq(Parameters)
  BY DEF IInv, ParametersOK
<1>2. PICK names : names = defaultHelpNames
  OBVIOUS
<1>3. /\ names \in Seq(AllNames) /\ Len(names) \in 0..2
      /\ names = <<>> => exists(HelpShort) /\ exists(HelpLong)
      /\ names # <<>> => wellFormed(names) /\ ~clashes(names) /\ ~arePositional(names)
  BY <1>1, <1>2, DefaultNames
<1>4. PICK adds : adds = (mHelpOptionNames = {} /\ names # <<>>)
  OBVIOUS
<1>5. PICK options : options = IF adds THEN Append(mOptions, newOption(names, "void", NoGroup))
                                       ELSE mOptions
  OBVIOUS
<1>6. PICK broken : broken = \E i \in 1..Len(options) :
                               /\ options[i].required
                               /\ options[i].group # NoGroup
                               /\ mGroups[options[i].group].kind = "exclusive"
  OBVIOUS
<1>7. /\ mOptions' = options
      /\ mHelpOptionNames' = IF adds THEN Elements(names) ELSE mHelpOptionNames
      /\ mpActiveGroup' = IF mHelpOptionNames = {} THEN NoGroup ELSE mpActiveGroup
      /\ verified' = ~broken
      /\ UNCHANGED <<mPositional, mGroups, mCommands, config, renamed>>
  BY <1>2, <1>4, <1>5, <1>6 DEF Verify
<1>8. GroupsOK(mGroups', mpActiveGroup')
  BY <1>1, <1>7 DEF GroupsOK
<1>9. verified' => \A i \in 1..Len(mOptions') :
                     mOptions'[i].required => Inclusive(mOptions'[i], mGroups')
  BY <1>6, <1>7 DEF Inclusive
<1>10. CASE adds
  <2>1. PICK o : o = newOption(names, "void", NoGroup)
    OBVIOUS
  <2>2. names # <<>> /\ wellFormed(names) /\ ~clashes(names)
    BY <1>3, <1>4, <1>10
  <2>3. /\ o \in Parameters /\ o.group = NoGroup /\ CountShape(o) /\ OptionNames(o)
        /\ \A n : n # NoName => (hasName(o, n) <=> n \in {shortOf(names), longOf(names)})
        /\ \E n \in Elements(names) : n # NoName /\ hasName(o, n)
    BY <1>3, <2>1, <2>2, OptionOfCall
  <2>4. mOptions' = Append(mOptions, o) /\ mHelpOptionNames' = Elements(names)
    BY <1>5, <1>7, <1>10, <2>1
  <2>5. Grouped(o, mGroups)
    BY <2>3 DEF Grouped
  <2>6. ParametersOK(mOptions', mPositional', mGroups')
    BY <1>1, <1>7, <2>3, <2>4, <2>5, AppendOptionKeeps
  <2>7. \A n : n # NoName /\ hasName(o, n) => ~Has(mOptions, n)
    BY <2>2, <2>3 DEF clashes, exists, Has
  <2>8. \E n \in mHelpOptionNames' : hasName(o, n)
    BY <2>3, <2>4
  <2>9. ~renamed => /\ NamesOK(mOptions', mPositional, mHelpOptionNames')
                    /\ \A n : Has(mOptions', n) <=> (Has(mOptions, n) \/ hasName(o, n))
    BY <1>1, <2>3, <2>4, <2>7, <2>8, AppendOptionNames
  <2>10. renamed' \/ NamesOK(mOptions', mPositional', mHelpOptionNames')
    BY <1>7, <2>9
  <2>11. renamed' \/ HelpOffered(mOptions', mHelpOptionNames')
    BY <1>7, <2>8, <2>9 DEF HelpOffered
  <2>12. Len(mOptions') = Len(mOptions) + 1 /\ Len(mOptions) \in Nat
    BY <1>1, <2>4
  <2>13. ConfigOK(config', mOptions', mPositional')
    BY <1>1, <1>7, <2>12 DEF ConfigOK
  <2>14. VerifiedOK(mOptions, mGroups, mHelpOptionNames)' \/ ~verified'
    BY <1>9, <2>11 DEF VerifiedOK
  <2> QED BY <1>8, <2>6, <2>10, <2>13, <2>14 DEF IInv
<1>11. CASE ~adds
  <2>1. mOptions' = mOptions /\ mHelpOptionNames' = mHelpOptionNames
    BY <1>5, <1>7, <1>11
  <2>2. renamed \/ HelpOffered(mOptions, mHelpOptionNames)
    <3>1. CASE mHelpOptionNames # {}
      BY <1>1, <3>1 DEF NamesOK, HelpOffered
    <3>2. CASE names = <<>>
      BY <1>3, <3>2 DEF HelpOffered, exists, Has
    <3> QED BY <1>4, <1>11, <3>1, <3>2
  <2>3. VerifiedOK(mOptions, mGroups, mHelpOptionNames)' \/ ~verified'
    BY <1>7, <1>9, <2>1, <2>2 DEF VerifiedOK
  <2>4. /\ ParametersOK(mOptions', mPositional', mGroups')
        /\ ConfigOK(config', mOptions', mPositional')
        /\ renamed' \/ NamesOK(mOptions', mPositional', mHelpOptionNames')
    BY <1>1, <1>7, <2>1
  <2> QED BY <1>8, <2>3, <2>4 DEF IInv
<1> QED BY <1>10, <1>11

-----------------------------------------------------------------------------
(* OptionConfig                                                            *)

LEMMA CurrentIsParameter ==
  ASSUME IInv, config.kind # "none"
  PROVE  /\ Current \in Parameters /\ CountShape(Current)
         /\ ~renamed => (Current.forwarded => Current.short = NoName)
                        \/ config.kind = "positional"
<1>1. /\ ParametersOK(mOptions, mPositional, mGroups)
      /\ ConfigOK(config, mOptions, mPositional)
      /\ renamed \/ NamesOK(mOptions, mPositional, mHelpOptionNames)
  BY DEF IInv
<1>2. CASE config.kind = "option"
  <2>1. Current = mOptions[config.at] /\ config.at \in 1..Len(mOptions)
    BY <1>1, <1>2 DEF Current, ConfigOK
  <2>2. mOptions \in Seq(Parameters) /\ CountShape(mOptions[config.at])
    BY <1>1, <2>1 DEF ParametersOK
  <2>3. mOptions[config.at] \in Parameters
    BY <2>1, <2>2
  <2>4. ~renamed => OptionNames(mOptions[config.at])
    BY <1>1, <2>1 DEF NamesOK
  <2> QED BY <2>1, <2>2, <2>3, <2>4 DEF OptionNames
<1>3. CASE config.kind = "positional"
  <2>1. Current = mPositional[config.at] /\ config.at \in 1..Len(mPositional)
    BY <1>1, <1>3 DEF Current, ConfigOK
  <2>2. mPositional \in Seq(Parameters) /\ CountShape(mPositional[config.at])
    BY <1>1, <2>1 DEF ParametersOK
  <2>3. mPositional[config.at] \in Parameters
    BY <2>1, <2>2
  <2> QED BY <2>1, <2>2, <2>3, <1>3
<1> QED BY <1>1, <1>2, <1>3 DEF ConfigOK, Configs

(* A setter that leaves the group alone and one of the three shapes; the   *)
(* names only if they are set directly.                                    *)
LEMMA ConfigureKeeps ==
  ASSUME IInv, config.kind # "none",
         NEW q \in Parameters, Configure(q), q.group = Current.group, CountShape(q),
         config' \in Configs, config'.kind = config.kind, config'.at = config.at,
         \/ renamed'
         \/ /\ renamed' = renamed /\ q.short = Current.short /\ q.long = Current.long
            /\ q.forwarded => (q.short = NoName \/ config.kind = "positional")
  PROVE  IInv'
<1>1. /\ ParametersOK(mOptions, mPositional, mGroups) /\ GroupsOK(mGroups, mpActiveGroup)
      /\ renamed \/ NamesOK(mOptions, mPositional, mHelpOptionNames)
      /\ ConfigOK(config, mOptions, mPositional)
      /\ mOptions \in Seq(Parameters) /\ mPositional \in Seq(Parameters)
  BY DEF IInv, ParametersOK
<1>2. /\ verified' = FALSE /\ mGroups' = mGroups /\ mpActiveGroup' = mpActiveGroup
      /\ mHelpOptionNames' = mHelpOptionNames
  BY DEF Configure, Return
<1>3. GroupsOK(mGroups', mpActiveGroup')
  BY <1>1, <1>2
<1>4. CASE config.kind = "option"
  <2>1. PICK k : k = config.at
    OBVIOUS
  <2>2. /\ k \in 1..Len(mOptions) /\ Current = mOptions[k]
        /\ mOptions' = [mOptions EXCEPT ![k] = q] /\ mPositional' = mPositional
    BY <1>1, <1>4, <2>1 DEF Configure, ConfigOK, Current
  <2>3. /\ ParametersOK(mOptions', mPositional', mGroups')
        /\ Len(mOptions') = Len(mOptions)
    BY <1>1, <1>2, <2>2, ReplaceOptionKeeps
  <2>4. renamed' \/ NamesOK(mOptions', mPositional', mHelpOptionNames')
    BY <1>1, <1>2, <1>4, <2>2, ReplaceNames
  <2>5. ConfigOK(config', mOptions', mPositional')
    BY <1>4, <2>1, <2>2, <2>3 DEF ConfigOK
  <2> QED BY <1>2, <1>3, <2>3, <2>4, <2>5 DEF IInv
<1>5. CASE config.kind = "positional"
  <2>1. PICK k : k = config.at
    OBVIOUS
  <2>2. /\ k \in 1..Len(mPositional) /\ Current = mPositional[k]
        /\ mPositional' = [mPositional EXCEPT ![k] = q] /\ mOptions' = mOptions
    BY <1>1, <1>5, <2>1 DEF Configure, ConfigOK, Current
  <2>3. /\ ParametersOK(mOptions', mPositional', mGroups')
        /\ Len(mPositional') = Len(mPositional)
    BY <1>1, <1>2, <2>2, ReplacePositionalKeeps
  <2>4. renamed' \/ NamesOK(mOptions', mPositional', mHelpOptionNames')
    BY <1>1, <1>2, <2>2, ReplaceNames
  <2>5. ConfigOK(config', mOptions', mPositional')
    BY <1>5, <2>1, <2>2, <2>3 DEF ConfigOK
  <2> QED BY <1>2, <1>3, <2>3, <2>4, <2>5 DEF IInv
<1> QED BY <1>1, <1>4, <1>5 DEF ConfigOK, Configs


(* What one setter makes of a parameter.                                   *)
LEMMA CountSetters ==
  ASSUME NEW o \in Parameters, NEW n \in Int,
         NEW q \in {setNArgs(o, n), setMinArgs(o, n), setMaxArgs(o, n)}
  PROVE  /\ q \in Parameters /\ CountShape(q) /\ q.group = o.group
         /\ q.short = o.short /\ q.long = o.long /\ q.forwarded = o.forwarded
<1>1. NotNegative(n) \in Nat
  BY DEF NotNegative
<1>2. PICK m \in Nat : m = NotNegative(n)
  BY <1>1
<1>3. CASE q = setNArgs(o, n)
  <2>1. q = [o EXCEPT !.minArgs = m, !.maxArgs = m]
    BY <1>2, <1>3 DEF setNArgs
  <2> QED BY <2>1 DEF Parameters, CountShape
<1>4. CASE q = setMinArgs(o, n)
  <2>1. q = [o EXCEPT !.minArgs = m, !.maxArgs = -1]
    BY <1>2, <1>4 DEF setMinArgs
  <2> QED BY <2>1 DEF Parameters, CountShape
<1>5. CASE q = setMaxArgs(o, n)
  <2>1. q = [o EXCEPT !.minArgs = 0, !.maxArgs = m]
    BY <1>2, <1>5 DEF setMaxArgs
  <2> QED BY <2>1 DEF Parameters, CountShape
<1> QED BY <1>3, <1>4, <1>5

LEMMA ConfigIsConfig ==
  ASSUME IInv
  PROVE  /\ config \in Configs
         /\ [config EXCEPT !.countWasSet = TRUE] \in Configs
         /\ [config EXCEPT !.countWasSet = TRUE].kind = config.kind
         /\ [config EXCEPT !.countWasSet = TRUE].at = config.at
<1>1. config \in Configs
  BY DEF IInv, ConfigOK
<1> QED BY <1>1 DEF Configs

LEMMA SetCountKeeps ==
  ASSUME IInv, NEW n \in Counts, SetCount(n)
  PROVE  IInv'
<1>1. n \in Int /\ config.kind # "none"
  BY NamesAssumption DEF SetCount
<1>2. CASE Throw("invalid_argument")
  BY <1>2, ThrowKeeps
<1>3. ASSUME NEW q \in {setNArgs(Current, n), setMinArgs(Current, n),
                        setMaxArgs(Current, n)},
             Configure(q), config' = [config EXCEPT !.countWasSet = TRUE],
             UNCHANGED renamed
      PROVE  IInv'
  <2>1. PICK o : o = Current
    OBVIOUS
  <2>2. /\ o \in Parameters
        /\ ~renamed => (o.forwarded => o.short = NoName) \/ config.kind = "positional"
    BY <1>1, <2>1, CurrentIsParameter
  <2>3. q \in {setNArgs(o, n), setMinArgs(o, n), setMaxArgs(o, n)}
    BY <2>1
  <2>4. /\ q \in Parameters /\ CountShape(q) /\ q.group = o.group
        /\ q.short = o.short /\ q.long = o.long /\ q.forwarded = o.forwarded
    BY <1>1, <2>2, <2>3, CountSetters
  <2>5. /\ config' \in Configs /\ config'.kind = config.kind /\ config'.at = config.at
    BY <1>3, ConfigIsConfig
  <2>6. \/ renamed'
        \/ /\ renamed' = renamed /\ q.short = Current.short /\ q.long = Current.long
           /\ q.forwarded => (q.short = NoName \/ config.kind = "positional")
    BY <1>3, <2>1, <2>2, <2>4
  <2> QED BY <1>1, <1>3, <2>1, <2>4, <2>5, <2>6, ConfigureKeeps
<1> QED BY <1>2, <1>3 DEF SetCount

LEMMA FlagSetters ==
  ASSUME NEW o \in Parameters, CountShape(o), NEW b \in BOOLEAN,
         NEW q \in {[o EXCEPT !.required = b], [o EXCEPT !.forwarded = b]}
  PROVE  /\ q \in Parameters /\ CountShape(q) /\ q.group = o.group
         /\ q.short = o.short /\ q.long = o.long
         /\ q = [o EXCEPT !.required = b] => q.forwarded = o.forwarded
<1>1. CASE q = [o EXCEPT !.required = b]
  BY <1>1 DEF Parameters, CountShape
<1>2. CASE q = [o EXCEPT !.forwarded = b]
  <2>1. /\ q \in Parameters /\ CountShape(q) /\ q.group = o.group
        /\ q.short = o.short /\ q.long = o.long /\ q.required = o.required
    BY <1>2 DEF Parameters, CountShape
  <2>2. q = [o EXCEPT !.required = b] => q.forwarded = o.forwarded
    BY DEF Parameters
  <2> QED BY <2>1, <2>2
<1> QED BY <1>1, <1>2

LEMMA RequireKeeps ==
  ASSUME IInv, NEW b \in BOOLEAN, Require(b)
  PROVE  IInv'
<1>1. /\ config.kind # "none" /\ Configure([Current EXCEPT !.required = b])
      /\ config' = config /\ renamed' = renamed
  BY DEF Require
<1>2. PICK o : o = Current
  OBVIOUS
<1>3. PICK q : q = [o EXCEPT !.required = b]
  OBVIOUS
<1>4. /\ o \in Parameters /\ CountShape(o)
      /\ ~renamed => (o.forwarded => o.short = NoName) \/ config.kind = "positional"
  BY <1>1, <1>2, CurrentIsParameter
<1>5. /\ q \in Parameters /\ CountShape(q) /\ q.group = o.group
      /\ q.short = o.short /\ q.long = o.long /\ q.forwarded = o.forwarded
  BY <1>3, <1>4, FlagSetters
<1>6. Configure(q) /\ config' \in Configs /\ config'.kind = config.kind
      /\ config'.at = config.at
  BY <1>1, <1>2, <1>3, ConfigIsConfig
<1>7. \/ renamed'
      \/ /\ renamed' = renamed /\ q.short = Current.short /\ q.long = Current.long
         /\ q.forwarded => (q.short = NoName \/ config.kind = "positional")
  BY <1>1, <1>2, <1>4, <1>5
<1> QED BY <1>1, <1>2, <1>5, <1>6, <1>7, ConfigureKeeps

LEMMA ForwardKeeps ==
  ASSUME IInv, NEW b \in BOOLEAN, Forward(b)
  PROVE  IInv'
<1>1. config.kind # "none"
  BY DEF Forward
<1>2. CASE Throw("invalid_argument")
  BY <1>2, ThrowKeeps
<1>3. CASE /\ Current.short = NoName /\ Configure([Current EXCEPT !.forwarded = b])
           /\ UNCHANGED <<config, renamed>>
  <2>1. PICK o : o = Current
    OBVIOUS
  <2>2. PICK q : q = [o EXCEPT !.forwarded = b]
    OBVIOUS
  <2>3. o \in Parameters /\ CountShape(o)
    BY <1>1, <2>1, CurrentIsParameter
  <2>4. /\ q \in Parameters /\ CountShape(q) /\ q.group = o.group
        /\ q.short = o.short /\ q.long = o.long
    BY <2>2, <2>3, FlagSetters
  <2>5. Configure(q) /\ config' \in Configs /\ config'.kind = config.kind
        /\ config'.at = config.at
    BY <1>3, <2>1, <2>2, ConfigIsConfig
  <2>6. \/ renamed'
        \/ /\ renamed' = renamed /\ q.short = Current.short /\ q.long = Current.long
           /\ q.forwarded => (q.short = NoName \/ config.kind = "positional")
    BY <1>3, <2>1, <2>4
  <2> QED BY <1>1, <2>1, <2>4, <2>5, <2>6, ConfigureKeeps
<1> QED BY <1>2, <1>3 DEF Forward

LEMMA RenameKeeps ==
  ASSUME IInv, NEW name \in ShortNames \cup LongNames, Rename(name)
  PROVE  IInv'
<1>1. PICK o : o = Current
  OBVIOUS
<1>2. PICK q \in {[o EXCEPT !.short = name], [o EXCEPT !.long = name]} : Configure(q)
  BY <1>1 DEF Rename
<1>3. /\ config.kind # "none" /\ renamed' = TRUE /\ config' = config
  BY DEF Rename
<1>4. o \in Parameters /\ CountShape(o) /\ name \in AllNames
  BY <1>1, <1>3, CurrentIsParameter DEF AllNames, DashNames
<1>5. q \in Parameters /\ CountShape(q) /\ q.group = o.group
  <2>1. CASE q = [o EXCEPT !.short = name]
    BY <1>4, <2>1 DEF Parameters, CountShape
  <2>2. CASE q = [o EXCEPT !.long = name]
    BY <1>4, <2>2 DEF Parameters, CountShape
  <2> QED BY <1>2, <2>1, <2>2
<1>6. config' \in Configs
  BY <1>3, ConfigIsConfig
<1> QED BY <1>1, <1>2, <1>3, <1>5, <1>6, ConfigureKeeps

-----------------------------------------------------------------------------
(* Groups and commands                                                     *)

(* Groups may be added and become required: what the parameters are does   *)
(* not change, because no group changes its kind once it exists.           *)
LEMMA GroupsKeep ==
  ASSUME IInv, Return, UNCHANGED <<mOptions, mPositional, mHelpOptionNames, config, renamed>>,
         GroupsOK(mGroups', mpActiveGroup'),
         \A g \in Keys : mGroups[g].kind # "absent" => mGroups'[g].kind = mGroups[g].kind
  PROVE  IInv'
<1>1. /\ ParametersOK(mOptions, mPositional, mGroups)
      /\ renamed \/ NamesOK(mOptions, mPositional, mHelpOptionNames)
      /\ ConfigOK(config, mOptions, mPositional)
  BY DEF IInv
<1>2. verified' = FALSE
  BY DEF Return
<1>3. /\ ConfigOK(config', mOptions', mPositional')
      /\ renamed' \/ NamesOK(mOptions', mPositional', mHelpOptionNames')
  BY <1>1
<1>4. \A o \in Parameters : o.group \in Keys \cup {NoGroup}
  BY DEF Parameters
<1>5. \A o \in Parameters : Grouped(o, mGroups) => Grouped(o, mGroups')
  BY <1>4 DEF Grouped
<1>6. \A o \in Parameters :
        Grouped(o, mGroups) /\ Inclusive(o, mGroups) => Inclusive(o, mGroups')
  BY <1>4 DEF Grouped, Inclusive
<1>7. /\ \A i \in 1..Len(mOptions) : mOptions[i] \in Parameters
      /\ \A i \in 1..Len(mPositional) : mPositional[i] \in Parameters
  BY <1>1 DEF ParametersOK
<1>8. ParametersOK(mOptions', mPositional', mGroups')
  BY <1>1, <1>5, <1>6, <1>7 DEF ParametersOK
<1> QED BY <1>2, <1>3, <1>8 DEF IInv

LEMMA BeginGroupKeeps ==
  ASSUME IInv, NEW name \in GroupNames, NEW kind \in {"plain", "exclusive"},
         BeginGroup(name, kind)
  PROVE  IInv'
<1>1. CASE Throw("invalid_argument") \/ Throw("MixingGroupTypes")
  BY <1>1, ThrowKeeps
<1>2. CASE /\ name # NoName /\ mGroups[lower[name]].kind \in {"absent", kind}
           /\ mGroups' = [mGroups EXCEPT ![lower[name]].kind = kind]
           /\ mpActiveGroup' = lower[name]
           /\ Return
           /\ UNCHANGED <<mOptions, mPositional, mCommands, mHelpOptionNames,
                          config, renamed>>
  <2>1. PICK g : g = lower[name]
    OBVIOUS
  <2>2. g \in Keys
    BY <1>2, <2>1 DEF Keys
  <2>3. mGroups \in [Keys -> GroupRecords]
    BY DEF IInv, GroupsOK
  <2>4. PICK r : r = [mGroups[g] EXCEPT !.kind = kind]
    OBVIOUS
  <2>5. r \in GroupRecords /\ r.kind = kind
    BY <2>2, <2>3, <2>4 DEF GroupRecords
  <2>6. mGroups' = [mGroups EXCEPT ![g] = r]
    BY <1>2, <2>1, <2>4
  <2>7. GroupsOK(mGroups', mpActiveGroup')
    BY <1>2, <2>1, <2>2, <2>3, <2>5, <2>6 DEF GroupsOK
  <2>8. \A h \in Keys : mGroups[h].kind # "absent" => mGroups'[h].kind = mGroups[h].kind
    BY <1>2, <2>1, <2>2, <2>3, <2>5, <2>6
  <2> QED BY <1>2, <2>7, <2>8, GroupsKeep
<1> QED BY <1>1, <1>2 DEF BeginGroup

LEMMA EndGroupKeeps ==
  ASSUME IInv, EndGroup
  PROVE  IInv'
<1>1. GroupsOK(mGroups', mpActiveGroup')
  BY DEF IInv, GroupsOK, EndGroup
<1>2. \A g \in Keys : mGroups[g].kind # "absent" => mGroups'[g].kind = mGroups[g].kind
  BY DEF EndGroup
<1> QED BY <1>1, <1>2, GroupsKeep DEF EndGroup

LEMMA RequireGroupKeeps ==
  ASSUME IInv, NEW g \in Keys, NEW b \in BOOLEAN, RequireGroup(g, b)
  PROVE  IInv'
<1>1. mGroups \in [Keys -> GroupRecords]
  BY DEF IInv, GroupsOK
<1>2. PICK r : r = [mGroups[g] EXCEPT !.required = @ \/ b]
  OBVIOUS
<1>3. r \in GroupRecords /\ r.kind = mGroups[g].kind
  BY <1>1, <1>2 DEF GroupRecords
<1>4. mGroups' = [mGroups EXCEPT ![g] = r] /\ mpActiveGroup' = mpActiveGroup
  BY <1>2 DEF RequireGroup
<1>5. \A h \in Keys : mGroups'[h].kind = mGroups[h].kind
  BY <1>1, <1>3, <1>4
<1>6. mGroups' \in [Keys -> GroupRecords]
  BY <1>1, <1>3, <1>4
<1>7. GroupsOK(mGroups', mpActiveGroup')
  BY <1>4, <1>5, <1>6 DEF IInv, GroupsOK
<1> QED BY <1>5, <1>7, GroupsKeep DEF RequireGroup

LEMMA AddCommandKeeps ==
  ASSUME IInv, NEW name \in CommandNames, AddCommand(name)
  PROVE  IInv'
<1>1. CASE Throw("invalid_argument") \/ Throw("DuplicateCommand")
  BY <1>1, ThrowKeeps
<1>2. CASE /\ Return
           /\ UNCHANGED <<mOptions, mPositional, mGroups, mHelpOptionNames,
                          mpActiveGroup, config, renamed>>
  BY <1>2, GroupsKeep DEF IInv
<1> QED BY <1>1, <1>2 DEF AddCommand


-----------------------------------------------------------------------------
(* The theorems                                                            *)

LEMMA InitEstablishes == Init => IInv
<1> SUFFICES ASSUME Init PROVE IInv
  OBVIOUS
<1>1. ParametersOK(mOptions, mPositional, mGroups)
  BY DEF Init, ParametersOK
<1>2. GroupsOK(mGroups, mpActiveGroup)
  BY DEF Init, GroupsOK, GroupRecords
<1>3. ConfigOK(config, mOptions, mPositional)
  BY DEF Init, ConfigOK, Configs, NoConfig
<1>4. NamesOK(mOptions, mPositional, mHelpOptionNames)
  BY DEF Init, NamesOK
<1> QED BY <1>1, <1>2, <1>3, <1>4 DEF Init, IInv

(* Every OptionConfig that the client holds refers to a parameter.         *)
OthersOK == \A c \in others : ConfigOK(c, mOptions, mPositional)

LEMMA TurnToKeeps ==
  ASSUME IInv, OthersOK, NEW c \in others, TurnTo(c)
  PROVE  IInv'
<1>1. /\ mOptions' = mOptions /\ mPositional' = mPositional /\ mGroups' = mGroups
      /\ mHelpOptionNames' = mHelpOptionNames /\ mpActiveGroup' = mpActiveGroup
      /\ config' = c /\ verified' = verified /\ renamed' = renamed
  BY DEF TurnTo, definition
<1>2. ConfigOK(config', mOptions', mPositional')
  BY <1>1 DEF OthersOK
<1> QED BY <1>1, <1>2 DEF IInv, VerifiedOK

LEMMA StepKeeps ==
  ASSUME IInv, OthersOK, [Next]_vars
  PROVE  IInv'
<1>1. ASSUME NEW list \in NameLists, NEW a \in {"single"} \cup VectorArities,
             AddParameter(list, a)
      PROVE  IInv'
  BY <1>1, AddParameterKeeps
<1>2. ASSUME NEW list \in NameLists, AddHelpOption(list)
      PROVE  IInv'
  BY <1>2, AddHelpOptionKeeps
<1>3. CASE AddDefaultHelpOption
  BY <1>3, AddDefaultHelpOptionKeeps
<1>4. CASE Verify
  BY <1>4, VerifyKeeps
<1>5. ASSUME NEW n \in Counts, SetCount(n)
      PROVE  IInv'
  BY <1>5, SetCountKeeps
<1>6. ASSUME NEW b \in BOOLEAN, Require(b)
      PROVE  IInv'
  BY <1>6, RequireKeeps
<1>7. ASSUME NEW b \in BOOLEAN, Forward(b)
      PROVE  IInv'
  BY <1>7, ForwardKeeps
<1>8. ASSUME NEW n \in ShortNames \cup LongNames, Rename(n)
      PROVE  IInv'
  BY <1>8, RenameKeeps
<1>9. ASSUME NEW g \in GroupNames, AddGroup(g) \/ AddExclusiveGroup(g)
      PROVE  IInv'
  BY <1>9, BeginGroupKeeps DEF AddGroup, AddExclusiveGroup
<1>10. CASE EndGroup
  BY <1>10, EndGroupKeeps
<1>11. ASSUME NEW g \in Keys, NEW b \in BOOLEAN, RequireGroup(g, b)
       PROVE  IInv'
  BY <1>11, RequireGroupKeeps
<1>12. ASSUME NEW c \in CommandNames, AddCommand(c)
       PROVE  IInv'
  BY <1>12, AddCommandKeeps
<1>13. CASE UNCHANGED vars
  <2>1. /\ mOptions' = mOptions /\ mPositional' = mPositional /\ mGroups' = mGroups
        /\ mHelpOptionNames' = mHelpOptionNames /\ mpActiveGroup' = mpActiveGroup
        /\ config' = config /\ verified' = verified /\ renamed' = renamed
    BY <1>13 DEF vars, definition
  <2> QED BY <2>1 DEF IInv, VerifiedOK
<1>14. ASSUME NEW c \in others, TurnTo(c)
       PROVE  IInv'
  BY <1>14, TurnToKeeps
<1> QED BY <1>1, <1>2, <1>3, <1>4, <1>5, <1>6, <1>7, <1>8, <1>9, <1>10, <1>11, <1>12,
           <1>13, <1>14 DEF Next

-----------------------------------------------------------------------------
(* What one step may not do.                                               *)

(* No parameter is removed or changes its group.                           *)
Keeps(old, new) ==
  Len(new) >= Len(old) /\ \A i \in 1..Len(old) : new[i].group = old[i].group

KindsKept ==
  \A g \in Keys :
    mGroups[g].kind # "absent" =>
      /\ mGroups'[g].kind = mGroups[g].kind
      /\ mGroups[g].required => mGroups'[g].required

StepSettled ==
  KindsKept /\ Keeps(mOptions, mOptions') /\ Keeps(mPositional, mPositional')

LEMMA KeepsSequences ==
  ASSUME NEW old \in Seq(Parameters)
  PROVE  /\ Keeps(old, old)
         /\ \A o \in Parameters : Keeps(old, Append(old, o))
         /\ \A k \in 1..Len(old), q \in Parameters :
              q.group = old[k].group => Keeps(old, [old EXCEPT ![k] = q])
<1>1. Len(old) \in Nat
  OBVIOUS
<1>2. Keeps(old, old)
  BY <1>1 DEF Keeps
<1>3. ASSUME NEW o \in Parameters
      PROVE  Keeps(old, Append(old, o))
  <2>1. /\ Len(Append(old, o)) = Len(old) + 1
        /\ \A i \in 1..Len(old) : Append(old, o)[i] = old[i]
    OBVIOUS
  <2> QED BY <1>1, <2>1 DEF Keeps
<1>4. ASSUME NEW k \in 1..Len(old), NEW q \in Parameters, q.group = old[k].group
      PROVE  Keeps(old, [old EXCEPT ![k] = q])
  <2>1. /\ Len([old EXCEPT ![k] = q]) = Len(old)
        /\ \A i \in 1..Len(old) :
             [old EXCEPT ![k] = q][i] = IF i = k THEN q ELSE old[i]
    OBVIOUS
  <2> QED BY <1>1, <1>4, <2>1 DEF Keeps
<1> QED BY <1>2, <1>3, <1>4

LEMMA UnchangedSettles ==
  ASSUME IInv, UNCHANGED <<mOptions, mPositional, mGroups>>
  PROVE  StepSettled
BY KeepsSequences DEF StepSettled, KindsKept, IInv, ParametersOK

LEMMA ThrowSettles ==
  ASSUME IInv, NEW e, Throw(e)
  PROVE  StepSettled
BY UnchangedSettles DEF Throw, definition

LEMMA AcceptSettles ==
  ASSUME IInv, NEW names \in Seq(AllNames), Len(names) \in 0..2, names # <<>>,
         arePositional(names) \/ (wellFormed(names) /\ ~clashes(names)),
         NEW arity, Accept(names, arity), UNCHANGED mGroups
  PROVE  StepSettled
<1>1. /\ mOptions \in Seq(Parameters) /\ mPositional \in Seq(Parameters)
      /\ GroupsOK(mGroups, mpActiveGroup) /\ mpActiveGroup \in Keys \cup {NoGroup}
  BY DEF IInv, ParametersOK, GroupsOK
<1>2. CASE arePositional(names)
  <2>1. PICK o : o = newPositional(names, arity)
    OBVIOUS
  <2>2. o \in Parameters
    BY <1>1, <1>2, <2>1, PositionalOfCall
  <2>3. mPositional' = Append(mPositional, o) /\ mOptions' = mOptions
    BY <1>2, <2>1 DEF Accept
  <2>4. Keeps(mOptions, mOptions') /\ Keeps(mPositional, mPositional')
    BY <1>1, <2>2, <2>3, KeepsSequences
  <2> QED BY <2>4 DEF StepSettled, KindsKept
<1>3. CASE ~arePositional(names)
  <2>1. PICK o : o = newOption(names, arity, mpActiveGroup)
    OBVIOUS
  <2>2. o \in Parameters
    BY <1>1, <1>3, <2>1, OptionOfCall
  <2>3. mOptions' = Append(mOptions, o) /\ mPositional' = mPositional
    BY <1>3, <2>1 DEF Accept
  <2>4. Keeps(mOptions, mOptions') /\ Keeps(mPositional, mPositional')
    BY <1>1, <2>2, <2>3, KeepsSequences
  <2> QED BY <2>4 DEF StepSettled, KindsKept
<1> QED BY <1>2, <1>3

LEMMA ConfigureSettles ==
  ASSUME IInv, config.kind # "none",
         NEW q \in Parameters, Configure(q), q.group = Current.group
  PROVE  StepSettled
<1>1. /\ mOptions \in Seq(Parameters) /\ mPositional \in Seq(Parameters)
      /\ ConfigOK(config, mOptions, mPositional)
  BY DEF IInv, ParametersOK
<1>2. mGroups' = mGroups
  BY DEF Configure
<1>3. CASE config.kind = "option"
  <2>1. /\ config.at \in 1..Len(mOptions) /\ q.group = mOptions[config.at].group
        /\ mOptions' = [mOptions EXCEPT ![config.at] = q] /\ mPositional' = mPositional
    BY <1>1, <1>3 DEF Configure, ConfigOK, Current
  <2>2. Keeps(mOptions, mOptions') /\ Keeps(mPositional, mPositional')
    BY <1>1, <2>1, KeepsSequences
  <2> QED BY <1>2, <2>2 DEF StepSettled, KindsKept
<1>4. CASE config.kind = "positional"
  <2>1. /\ config.at \in 1..Len(mPositional) /\ q.group = mPositional[config.at].group
        /\ mPositional' = [mPositional EXCEPT ![config.at] = q] /\ mOptions' = mOptions
    BY <1>1, <1>4 DEF Configure, ConfigOK, Current
  <2>2. Keeps(mOptions, mOptions') /\ Keeps(mPositional, mPositional')
    BY <1>1, <2>1, KeepsSequences
  <2> QED BY <1>2, <2>2 DEF StepSettled, KindsKept
<1> QED BY <1>1, <1>3, <1>4 DEF ConfigOK, Configs


LEMMA AddingSettles ==
  ASSUME IInv,
         \/ \E list \in NameLists : \/ \E a \in {"single"} \cup VectorArities :
                                         AddParameter(list, a)
                                    \/ AddHelpOption(list)
         \/ AddDefaultHelpOption
  PROVE  StepSettled
<1>1. ASSUME NEW list \in NameLists, NEW a, AddParameter(list, a)
      PROVE  StepSettled
  <2>1. PICK names : names = given(list)
    OBVIOUS
  <2>2. names \in Seq(AllNames) /\ Len(names) \in 0..2
    BY <2>1, GivenNames
  <2>3. CASE Throw(refusal(names))
    BY <2>3, ThrowSettles
  <2>4. CASE /\ refusal(names) = "none" /\ Accept(names, a) /\ UNCHANGED mGroups
    BY <2>2, <2>4, NotRefused, AcceptSettles
  <2> QED BY <1>1, <2>1, <2>3, <2>4 DEF AddParameter
<1>2. ASSUME NEW list \in NameLists, AddHelpOption(list)
      PROVE  StepSettled
  <2>1. PICK names : names = given(list)
    OBVIOUS
  <2>2. names \in Seq(AllNames) /\ Len(names) \in 0..2
    BY <2>1, GivenNames
  <2>3. CASE Throw("invalid_argument") \/ Throw(refusal(names))
    BY <2>3, ThrowSettles
  <2>4. CASE /\ refusal(names) = "none" /\ Accept(names, "void") /\ UNCHANGED mGroups
    BY <2>2, <2>4, NotRefused, AcceptSettles
  <2> QED BY <1>2, <2>1, <2>3, <2>4 DEF AddHelpOption
<1>3. CASE AddDefaultHelpOption
  <2>1. PICK names : names = defaultHelpNames
    OBVIOUS
  <2>2. /\ names \in Seq(AllNames) /\ Len(names) \in 0..2
        /\ names # <<>> => wellFormed(names) /\ ~clashes(names)
    BY <2>1, DefaultNames DEF IInv, ParametersOK
  <2>3. CASE Throw("invalid_argument")
    BY <2>3, ThrowSettles
  <2>4. CASE names # <<>> /\ Accept(names, "void") /\ UNCHANGED mGroups
    BY <2>2, <2>4, AcceptSettles
  <2> QED BY <1>3, <2>1, <2>3, <2>4 DEF AddDefaultHelpOption
<1> QED BY <1>1, <1>2, <1>3

LEMMA VerifySettles ==
  ASSUME IInv, Verify
  PROVE  StepSettled
<1>1. mOptions \in Seq(Parameters) /\ mPositional \in Seq(Parameters)
  BY DEF IInv, ParametersOK
<1>2. PICK names : names = defaultHelpNames
  OBVIOUS
<1>3. PICK o : o = newOption(names, "void", NoGroup)
  OBVIOUS
<1>4. mGroups' = mGroups /\ mPositional' = mPositional
  BY DEF Verify
<1>5. mOptions' = mOptions \/ (names # <<>> /\ mOptions' = Append(mOptions, o))
  BY <1>2, <1>3 DEF Verify
<1>6. names # <<>> => o \in Parameters
  BY <1>1, <1>2, <1>3, DefaultNames, OptionOfCall
<1>7. Keeps(mOptions, mOptions') /\ Keeps(mPositional, mPositional')
  BY <1>1, <1>4, <1>5, <1>6, KeepsSequences
<1> QED BY <1>4, <1>7 DEF StepSettled, KindsKept

LEMMA ConfiguringSettles ==
  ASSUME IInv,
         \/ \E n \in Counts : SetCount(n)
         \/ \E b \in BOOLEAN : Require(b) \/ Forward(b)
         \/ \E n \in ShortNames \cup LongNames : Rename(n)
  PROVE  StepSettled
<1>1. config.kind # "none"
  BY DEF SetCount, Require, Forward, Rename
<1>2. PICK o : o = Current
  OBVIOUS
<1>3. o \in Parameters /\ CountShape(o)
  BY <1>1, <1>2, CurrentIsParameter
<1>4. CASE Throw("invalid_argument")
  BY <1>4, ThrowSettles
<1>5. ASSUME NEW n \in Counts,
             NEW q \in {setNArgs(o, n), setMinArgs(o, n), setMaxArgs(o, n)}, Configure(q)
      PROVE  StepSettled
  <2>1. n \in Int
    BY NamesAssumption
  <2>2. q \in Parameters /\ q.group = o.group
    BY <1>3, <1>5, <2>1, CountSetters
  <2> QED BY <1>1, <1>2, <1>5, <2>2, ConfigureSettles
<1>6. ASSUME NEW b \in BOOLEAN,
             NEW q \in {[o EXCEPT !.required = b], [o EXCEPT !.forwarded = b]}, Configure(q)
      PROVE  StepSettled
  <2>1. q \in Parameters /\ q.group = o.group
    BY <1>3, <1>6, FlagSetters
  <2> QED BY <1>1, <1>2, <1>6, <2>1, ConfigureSettles
<1>7. ASSUME NEW n \in ShortNames \cup LongNames,
             NEW q \in {[o EXCEPT !.short = n], [o EXCEPT !.long = n]}, Configure(q)
      PROVE  StepSettled
  <2>1. n \in AllNames
    BY DEF AllNames, DashNames
  <2>2. q \in Parameters /\ q.group = o.group
    <3>1. CASE q = [o EXCEPT !.short = n]
      BY <1>3, <2>1, <3>1 DEF Parameters
    <3>2. CASE q = [o EXCEPT !.long = n]
      BY <1>3, <2>1, <3>2 DEF Parameters
    <3> QED BY <1>7, <3>1, <3>2
  <2> QED BY <1>1, <1>2, <1>7, <2>2, ConfigureSettles
<1>8. ASSUME NEW n \in Counts, SetCount(n)
      PROVE  StepSettled
  BY <1>2, <1>4, <1>5, <1>8 DEF SetCount
<1>9. ASSUME NEW b \in BOOLEAN, Require(b)
      PROVE  StepSettled
  BY <1>2, <1>6, <1>9 DEF Require
<1>10. ASSUME NEW b \in BOOLEAN, Forward(b)
       PROVE  StepSettled
  BY <1>2, <1>4, <1>6, <1>10 DEF Forward
<1>11. ASSUME NEW n \in ShortNames \cup LongNames, Rename(n)
       PROVE  StepSettled
  BY <1>2, <1>7, <1>11 DEF Rename
<1> QED BY <1>8, <1>9, <1>10, <1>11

(* A group keeps its kind: it is only given one while it is absent, or the *)
(* one it has.                                                             *)
LEMMA GroupingSettles ==
  ASSUME IInv,
         \/ \E g \in GroupNames : AddGroup(g) \/ AddExclusiveGroup(g)
         \/ EndGroup
         \/ \E g \in Keys, b \in BOOLEAN : RequireGroup(g, b)
         \/ \E c \in CommandNames : AddCommand(c)
  PROVE  StepSettled
<1>1. /\ mOptions \in Seq(Parameters) /\ mPositional \in Seq(Parameters)
      /\ mGroups \in [Keys -> GroupRecords]
  BY DEF IInv, ParametersOK, GroupsOK
<1>2. ASSUME KindsKept, UNCHANGED <<mOptions, mPositional>>
      PROVE  StepSettled
  BY <1>1, <1>2, KeepsSequences DEF StepSettled
<1>3. ASSUME NEW name \in GroupNames, NEW kind, BeginGroup(name, kind)
      PROVE  StepSettled
  <2>1. CASE Throw("invalid_argument") \/ Throw("MixingGroupTypes")
    BY <2>1, ThrowSettles
  <2>2. CASE /\ name # NoName /\ mGroups[lower[name]].kind \in {"absent", kind}
             /\ mGroups' = [mGroups EXCEPT ![lower[name]].kind = kind]
             /\ UNCHANGED <<mOptions, mPositional>>
    <3>1. PICK g : g = lower[name]
      OBVIOUS
    <3>2. g \in Keys
      BY <2>2, <3>1 DEF Keys
    <3>3. PICK r : r = [mGroups[g] EXCEPT !.kind = kind]
      OBVIOUS
    <3>4. r.kind = kind /\ r.required = mGroups[g].required
      BY <1>1, <3>2, <3>3 DEF GroupRecords
    <3>5. mGroups' = [mGroups EXCEPT ![g] = r]
      BY <2>2, <3>1, <3>3
    <3>6. KindsKept
      BY <1>1, <2>2, <3>1, <3>2, <3>4, <3>5 DEF KindsKept
    <3> QED BY <1>2, <2>2, <3>6
  <2> QED BY <1>3, <2>1, <2>2 DEF BeginGroup
<1>4. CASE EndGroup
  BY <1>4, UnchangedSettles DEF EndGroup
<1>5. ASSUME NEW g \in Keys, NEW b \in BOOLEAN, RequireGroup(g, b)
      PROVE  StepSettled
  <2>1. PICK r : r = [mGroups[g] EXCEPT !.required = @ \/ b]
    OBVIOUS
  <2>2. r.kind = mGroups[g].kind /\ (mGroups[g].required => r.required)
    BY <1>1, <2>1 DEF GroupRecords
  <2>3. mGroups' = [mGroups EXCEPT ![g] = r]
    BY <1>5, <2>1 DEF RequireGroup
  <2>4. KindsKept
    BY <1>1, <2>2, <2>3 DEF KindsKept
  <2> QED BY <1>2, <1>5, <2>4 DEF RequireGroup
<1>6. ASSUME NEW c, AddCommand(c)
      PROVE  StepSettled
  <2>1. CASE Throw("invalid_argument") \/ Throw("DuplicateCommand")
    BY <2>1, ThrowSettles
  <2>2. CASE UNCHANGED <<mOptions, mPositional, mGroups>>
    BY <2>2, UnchangedSettles
  <2> QED BY <1>6, <2>1, <2>2 DEF AddCommand
<1> QED BY <1>3, <1>4, <1>5, <1>6 DEF AddGroup, AddExclusiveGroup

LEMMA TurnToSettles ==
  ASSUME IInv, NEW c, TurnTo(c)
  PROVE  StepSettled
BY UnchangedSettles DEF TurnTo, definition

LEMMA StepSettles ==
  ASSUME IInv, [Next]_vars
  PROVE  StepSettled
<1>1. CASE UNCHANGED vars
  BY <1>1, UnchangedSettles DEF vars, definition
<1> QED BY <1>1, AddingSettles, VerifySettles, ConfiguringSettles, GroupingSettles,
           TurnToSettles DEF Next

-----------------------------------------------------------------------------
(* The invariant                                                           *)

(* A config that is put aside goes on referring to its parameter, because  *)
(* parameters are only added.                                              *)
LEMMA OthersKept ==
  ASSUME IInv, OthersOK, [Next]_vars
  PROVE  OthersOK'
<1>1. others' \subseteq others \cup {config}
  <2>1. ASSUME NEW list, NEW a, AddParameter(list, a) PROVE others' \subseteq others \cup {config}
    BY <2>1 DEF AddParameter, Accept, Throw
  <2>2. ASSUME NEW list, AddHelpOption(list) PROVE others' \subseteq others \cup {config}
    BY <2>2 DEF AddHelpOption, Accept, Throw
  <2>3. CASE AddDefaultHelpOption
    BY <2>3 DEF AddDefaultHelpOption, Accept, Throw
  <2>4. CASE Verify
    BY <2>4 DEF Verify
  <2>5. ASSUME NEW n, SetCount(n) PROVE others' \subseteq others \cup {config}
    BY <2>5 DEF SetCount, Throw
  <2>6. ASSUME NEW b, Require(b) \/ Forward(b) PROVE others' \subseteq others \cup {config}
    BY <2>6 DEF Require, Forward, Throw
  <2>7. ASSUME NEW n, Rename(n) PROVE others' \subseteq others \cup {config}
    BY <2>7 DEF Rename
  <2>8. ASSUME NEW c, TurnTo(c) PROVE others' \subseteq others \cup {config}
    BY <2>8 DEF TurnTo
  <2>9. ASSUME NEW g, AddGroup(g) \/ AddExclusiveGroup(g)
        PROVE  others' \subseteq others \cup {config}
    BY <2>9 DEF AddGroup, AddExclusiveGroup, BeginGroup, Throw
  <2>10. CASE EndGroup
    BY <2>10 DEF EndGroup
  <2>11. ASSUME NEW g, NEW b, RequireGroup(g, b) PROVE others' \subseteq others \cup {config}
    BY <2>11 DEF RequireGroup
  <2>12. ASSUME NEW c, AddCommand(c) PROVE others' \subseteq others \cup {config}
    BY <2>12 DEF AddCommand, Throw
  <2>13. CASE UNCHANGED vars
    BY <2>13 DEF vars
  <2> QED BY <2>1, <2>2, <2>3, <2>4, <2>5, <2>6, <2>7, <2>8, <2>9, <2>10, <2>11, <2>12,
             <2>13 DEF Next
<1>2. Len(mOptions') >= Len(mOptions) /\ Len(mPositional') >= Len(mPositional)
  BY StepSettles DEF StepSettled, Keeps
<1>3. IInv'
  BY StepKeeps
<1>4. /\ Len(mOptions) \in Nat /\ Len(mPositional) \in Nat
      /\ Len(mOptions') \in Nat /\ Len(mPositional') \in Nat
  BY <1>3 DEF IInv, ParametersOK
<1>5. \A c \in others \cup {config} : ConfigOK(c, mOptions, mPositional)
  BY DEF IInv, OthersOK
<1>6. \A c : ConfigOK(c, mOptions, mPositional) => ConfigOK(c, mOptions', mPositional')
  BY <1>2, <1>4 DEF ConfigOK
<1> QED BY <1>1, <1>5, <1>6 DEF OthersOK

(* Every definition that calls of the interface lead to is well-formed:    *)
(* names are distinct, groups exist, every OptionConfig that the client    *)
(* holds points at a parameter, a help name is one that is found, and a    *)
(* verified definition offers help.                                        *)
THEOREM DefinitionInductive == Spec => [](IInv /\ OthersOK)
<1>1. Init => IInv /\ OthersOK
  BY InitEstablishes DEF Init, OthersOK
<1>2. IInv /\ OthersOK /\ [Next]_vars => (IInv /\ OthersOK)'
  BY StepKeeps, OthersKept
<1> QED BY <1>1, <1>2, PTL DEF Spec

(* Whatever names the calls pass and in whatever order, no two options     *)
(* have a name in common (ensureIsNewOption), as long as the client does   *)
(* not set a name directly.                                                *)
THEOREM NamesStayUnique == Spec => []NamesUnique
<1>1. IInv => NamesUnique
  BY DEF IInv, NamesOK, Disjoint, NamesUnique, namesOf, hasName
<1> QED BY <1>1, DefinitionInductive, PTL

(* What verifyDefinedOptions let pass can be parsed: names, counts, groups *)
(* and help are what the parser takes for granted.                         *)
THEOREM VerifiedIsParsable == Spec => []ParsableDefinition
<1>1. IInv => ParsableDefinition
  <2> SUFFICES ASSUME IInv, verified, ~renamed PROVE ParsableDefinition
    BY DEF ParsableDefinition
  <2>1. /\ ParametersOK(mOptions, mPositional, mGroups)
        /\ NamesOK(mOptions, mPositional, mHelpOptionNames)
        /\ VerifiedOK(mOptions, mGroups, mHelpOptionNames)
    BY DEF IInv
  <2>2. /\ ShortNames \subseteq DashNames /\ LongNames \subseteq DashNames
        /\ PlainNames \cap DashNames = {}
        /\ NoName \notin DashNames /\ NoName \notin PlainNames
    BY NamesAssumption DEF DashNames, AllNames
  <2>3. ASSUME NEW i \in 1..Len(mOptions)
        PROVE  /\ namesOf(mOptions[i]) # {} /\ namesOf(mOptions[i]) \subseteq DashNames
               /\ mOptions[i].forwarded => mOptions[i].short = NoName
               /\ mOptions[i].required => ~InKind(mOptions[i], "exclusive")
    <3>1. OptionNames(mOptions[i])
      BY <2>1 DEF NamesOK
    <3>2. namesOf(mOptions[i]) # {} /\ namesOf(mOptions[i]) \subseteq DashNames
      BY <2>2, <3>1 DEF OptionNames, namesOf
    <3>3. mOptions[i].forwarded => mOptions[i].short = NoName
      BY <3>1 DEF OptionNames
    <3>4. mOptions[i].required => ~InKind(mOptions[i], "exclusive")
      BY <2>1 DEF VerifiedOK, Inclusive, InKind
    <3> QED BY <3>2, <3>3, <3>4
  <2>4. ASSUME NEW i \in 1..Len(mPositional)
        PROVE  /\ namesOf(mPositional[i]) \cap DashNames = {}
               /\ ~InKind(mPositional[i], "exclusive")
    <3>1. PositionalNames(mPositional[i])
      BY <2>1 DEF NamesOK
    <3>2. namesOf(mPositional[i]) \cap DashNames = {}
      BY <2>2, <3>1 DEF PositionalNames, namesOf
    <3>3. ~InKind(mPositional[i], "exclusive")
      BY <2>1 DEF ParametersOK, Inclusive, InKind
    <3> QED BY <3>2, <3>3
  <2>5. ASSUME NEW o \in Elements(mOptions) \cup Elements(mPositional)
        PROVE  /\ o.minArgs >= 0 /\ o.maxArgs >= -1
               /\ o.minArgs = o.maxArgs \/ o.maxArgs = -1 \/ o.minArgs = 0
               /\ ~InKind(o, "absent")
    <3>1. o \in Parameters /\ CountShape(o) /\ Grouped(o, mGroups)
      BY <2>1 DEF ParametersOK, Elements
    <3>2. o.minArgs \in Nat /\ o.maxArgs \in Nat \cup {-1}
      BY <3>1 DEF Parameters
    <3>3. o.minArgs >= 0 /\ o.maxArgs >= -1
      BY <3>2
    <3>4. o.minArgs = o.maxArgs \/ o.maxArgs = -1 \/ o.minArgs = 0
      BY <3>1 DEF CountShape
    <3>5. ~InKind(o, "absent")
      BY <3>1 DEF Grouped, InKind
    <3> QED BY <3>3, <3>4, <3>5
  <2>6. \/ \E n \in mHelpOptionNames : exists(n)
        \/ exists(HelpShort) /\ exists(HelpLong)
    BY <2>1 DEF VerifiedOK, HelpOffered, Has, exists
  <2> QED BY <2>3, <2>4, <2>5, <2>6 DEF ParsableDefinition
<1> QED BY <1>1, DefinitionInductive, PTL

(* No call makes a plain group exclusive or an exclusive one plain, takes  *)
(* back that a group is required, removes a parameter or moves it to       *)
(* another group (addGroup, OptionGroup::setRequired).                     *)
THEOREM GroupsStaySettled == Spec => GroupsSettled
<1>1. ASSUME IInv, [Next]_vars
      PROVE  [StepSettled]_vars
  BY <1>1, StepSettles
<1>2. StepSettled =>
        /\ \A g \in Keys :
             mGroups[g].kind # "absent" =>
               /\ mGroups'[g].kind = mGroups[g].kind
               /\ mGroups[g].required => mGroups'[g].required
        /\ Len(mOptions') >= Len(mOptions)
        /\ Len(mPositional') >= Len(mPositional)
        /\ \A i \in 1..Len(mOptions) : mOptions'[i].group = mOptions[i].group
        /\ \A i \in 1..Len(mPositional) :
             mPositional'[i].group = mPositional[i].group
  BY DEF StepSettled, KindsKept, Keeps
<1> QED BY <1>1, <1>2, DefinitionInductive, PTL DEF Spec, GroupsSettled


-----------------------------------------------------------------------------
(* What the parser assumes of its definition.  The options and the         *)
(* positional parameters of ParserDefinition are here numbered in the      *)
(* order of their definition; only options are found by their names.       *)
(* Values, texts and actions are those of the client, whatever they are.   *)

OptionIds     == { <<"option", i>> : i \in 1..Len(mOptions) }
PositionalIds == [ i \in 1..Len(mPositional) |-> <<"positional", i>> ]

parameterOf(p) == IF p[1] = "option" THEN mOptions[p[2]] ELSE mPositional[p[2]]

attributesOf(p) ==
  [ names     |-> IF p[1] = "option" THEN namesOf(parameterOf(p)) ELSE {},
    minArgs   |-> parameterOf(p).minArgs,
    maxArgs   |-> parameterOf(p).maxArgs,
    required  |-> parameterOf(p).required,
    forwarded |-> parameterOf(p).forwarded,
    group     |-> parameterOf(p).group ]

Parsed == INSTANCE ParserDefinition WITH
  Options        <- OptionIds,
  Positional     <- PositionalIds,
  Def            <- [ p \in OptionIds \cup { PositionalIds[i] : i \in 1..Len(PositionalIds) }
                        |-> attributesOf(p) ],
  Names          <- DashNames,
  Commands       <- mCommands,
  Groups         <- Keys,
  Exclusive      <- { g \in Keys : mGroups[g].kind = "exclusive" },
  RequiredGroups <- { g \in Keys : mGroups[g].required },
  Values         <- {}, ValueKind <- <<>>, Convertible <- <<>>,
  Texts          <- {}, Zero <- NoName, NoText <- NoName,
  NoOption       <- NoName, NoCommand <- NoName

(* Parser takes for granted that the bounds of every parameter have one of *)
(* three shapes (CountAssumption), that every option is found by a name,   *)
(* positional parameters are not, and no name leads to two options         *)
(* (NameAssumption); parse_args, that no required option is in an          *)
(* exclusive group (VerifiedAssumption).  The fluent interface establishes *)
(* the former with every call, and verifyDefinedOptions the latter.        *)
THEOREM ParserAssumptionsEstablished ==
  Spec => [](/\ Parsed!CountsShaped
             /\ ~renamed => Parsed!NamesDistinct
             /\ verified => Parsed!RequiredNotExclusive)
<1>1. ASSUME IInv
      PROVE  /\ Parsed!CountsShaped
             /\ ~renamed => Parsed!NamesDistinct
             /\ verified => Parsed!RequiredNotExclusive
  <2>1. ParametersOK(mOptions, mPositional, mGroups)
    BY <1>1 DEF IInv
  <2>2. Len(PositionalIds) = Len(mPositional)
        /\ \A i \in 1..Len(mPositional) : PositionalIds[i] = <<"positional", i>>
    BY <2>1 DEF PositionalIds, ParametersOK
  <2>3. /\ \A p \in OptionIds : \E i \in 1..Len(mOptions) :
             p = <<"option", i>> /\ parameterOf(p) = mOptions[i]
        /\ \A p \in OptionIds : p[1] = "option"
    <3> SUFFICES ASSUME NEW i \in 1..Len(mOptions), NEW p, p = <<"option", i>>
                 PROVE  p[1] = "option" /\ parameterOf(p) = mOptions[i]
      BY Zenon DEF OptionIds
    <3>1. p[1] = "option" /\ p[2] = i
      OBVIOUS
    <3> QED BY <3>1 DEF parameterOf
  <2>4. \A p \in Parsed!Positionals : \E i \in 1..Len(mPositional) :
          p = <<"positional", i>> /\ parameterOf(p) = mPositional[i] /\ p[1] # "option"
    <3>1. ASSUME NEW i \in 1..Len(mPositional), NEW p, p = <<"positional", i>>
          PROVE  p[1] # "option" /\ parameterOf(p) = mPositional[i]
      <4>1. p[1] # "option" /\ p[2] = i
        BY <3>1
      <4> QED BY <4>1 DEF parameterOf
    <3>2. Parsed!Positionals = { PositionalIds[i] : i \in 1..Len(PositionalIds) }
      BY DEF Parsed!Positionals
    <3>3. \A p \in Parsed!Positionals :
            \E i \in 1..Len(mPositional) : p = PositionalIds[i]
      BY <2>2, <3>2
    <3>4. \A p \in Parsed!Positionals :
            \E i \in 1..Len(mPositional) : p = <<"positional", i>>
      BY <2>2, <3>3
    <3> QED BY <3>1, <3>4
  <2>5. PICK def : def = [ p \in Parsed!Params |-> attributesOf(p) ]
    OBVIOUS
  <2>6. \A p \in Parsed!Params :
          /\ def[p].names = IF p[1] = "option" THEN namesOf(parameterOf(p)) ELSE {}
          /\ def[p].minArgs = parameterOf(p).minArgs
          /\ def[p].maxArgs = parameterOf(p).maxArgs
          /\ def[p].required = parameterOf(p).required
          /\ def[p].group = parameterOf(p).group
    BY <2>5 DEF attributesOf
  <2>7. \A p \in Parsed!Params : CountShape(parameterOf(p))
    BY <2>1, <2>3, <2>4 DEF Parsed!Params, ParametersOK
  <2>8. Parsed!CountsShaped
    BY <2>5, <2>6, <2>7 DEF Parsed!CountsShaped, Parsed!Params, Parsed!Positionals, CountShape
  <2>9. ASSUME ~renamed
        PROVE  Parsed!NamesDistinct
    <3>1. NamesOK(mOptions, mPositional, mHelpOptionNames)
      BY <1>1, <2>9 DEF IInv
    <3>2. \A p \in OptionIds : def[p].names # {}
      BY <2>3, <2>6, <3>1 DEF Parsed!Params, NamesOK, OptionNames, namesOf
    <3>3. \A p \in Parsed!Positionals : def[p].names = {}
      BY <2>4, <2>6 DEF Parsed!Params
    <3>4. ASSUME NEW p \in OptionIds, NEW q \in OptionIds,
                 def[p].names \cap def[q].names # {}
          PROVE  p = q
      <4>1. PICK i \in 1..Len(mOptions) : p = <<"option", i>> /\ parameterOf(p) = mOptions[i]
        BY <2>3
      <4>2. PICK j \in 1..Len(mOptions) : q = <<"option", j>> /\ parameterOf(q) = mOptions[j]
        BY <2>3
      <4>3. namesOf(mOptions[i]) \cap namesOf(mOptions[j]) # {}
        BY <2>3, <2>6, <3>4, <4>1, <4>2 DEF Parsed!Params
      <4>4. i = j
        BY <3>1, <4>3 DEF NamesOK, Disjoint, namesOf, hasName
      <4> QED BY <4>1, <4>2, <4>4
    <3> QED BY <2>5, <3>2, <3>3, <3>4 DEF Parsed!NamesDistinct, Parsed!Params,
                                          Parsed!Positionals
  <2>10. ASSUME verified
         PROVE  Parsed!RequiredNotExclusive
    <3>1. \A i \in 1..Len(mOptions) :
            mOptions[i].required => Inclusive(mOptions[i], mGroups)
      BY <1>1, <2>10 DEF IInv, VerifiedOK
    <3>2. NoGroup \notin Keys
      <4>1. \A g \in GroupNames : lower[g] \in GroupNames
        BY NamesAssumption
      <4> QED BY <4>1, NamesAssumption DEF Keys
    <3>3. ASSUME NEW p \in OptionIds, def[p].required
          PROVE  def[p].group \notin { g \in Keys : mGroups[g].kind = "exclusive" }
      <4>1. PICK i \in 1..Len(mOptions) : parameterOf(p) = mOptions[i]
        BY <2>3
      <4>2. Inclusive(def[p], mGroups)
        BY <2>6, <3>1, <3>3, <4>1 DEF Parsed!Params, Inclusive
      <4> QED BY <3>2, <4>2 DEF Inclusive
    <3> QED BY <2>5, <3>3 DEF Parsed!RequiredNotExclusive, Parsed!Params,
                              Parsed!Positionals
  <2> QED BY <2>8, <2>9, <2>10
<1> QED BY <1>1, DefinitionInductive, PTL

=============================================================================
