-------------------------------- MODULE Help --------------------------------
(***************************************************************************)
(* The help text: ArgumentDescriber describes the parameters, OptionSorter *)
(* puts them in order, and HelpFormatter::format calls a Writer.  A name   *)
(* is one word of a given size; a text is a sequence of words and breaks   *)
(* between paragraphs.  Every word that is written tells what it is.       *)
(***************************************************************************)
EXTENDS Writer, FiniteSets, SequencesExt

CONSTANTS
  Parameters,     \* the options, positionals and commands a client may define
  Groups,         \* title, description and requirement of the named groups
  Configs,        \* program, usage, description and epilog
  size,           \* the size of a name
  cased,          \* names without dashes in upper or lower case
  ArgumentIndent, \* mArgumentIndent
  MaxDescriptionIndent, \* mMaxDescriptionIndent
  MaxParameters,  \* bound: the parameters of a definition
  NoName, NoGroup

-----------------------------------------------------------------------------
(* Words and texts                                                         *)

Names == DOMAIN size

(* The names that HelpFormatter and ArgumentDescriber bring along.         *)
OwnNames == { "usage:", "<command>", "...", "{0..n}", "positional", "required", "optional",
              "arguments:", "commands:" }

Roles == { "entry", "alias", "argument", "forever", "times", "usage", "heading", "text" }

WordsOf(roles) ==
  [ text : Names, open : Nat, close : Nat, times : Nat, len : Nat \ {0}, role : roles ]

Break == [ text |-> "...", open |-> 0, close |-> 0, times |-> 0, len |-> 0, role |-> "break" ]

Texts(roles) == Seq(WordsOf(roles) \cup {Break})

ASSUME SizesAssumption ==
  /\ OwnNames \subseteq Names /\ \A n \in Names : size[n] \in Nat \ {0}
  /\ ArgumentIndent \in Nat /\ MaxDescriptionIndent \in Nat

-----------------------------------------------------------------------------
VARIABLES
  definition,  \* mOptions, mPositional and mCommands
  config,
  script       \* the calls of Writer that format has still to make

helpVars == <<definition, config, script, writer>>

word(name, role) ==
  [text |-> name, open |-> 0, close |-> 0, times |-> 0, len |-> size[name], role |-> role]

opened(w)    == [w EXCEPT !.open = @ + 1, !.len = @ + 1]
closed(w, n) == [w EXCEPT !.close = @ + n, !.len = @ + n]

closedAtEnd(ws, n) == [ws EXCEPT ![Len(ws)] = closed(@, n)]
bracketed(ws)      == closedAtEnd([ws EXCEPT ![1] = opened(@)], 1)

RoleOf(ws, role) == [i \in 1..Len(ws) |-> [ws[i] EXCEPT !.role = role]]

total(numbers) ==
  LET upTo[i \in 0..Len(numbers)] == IF i = 0 THEN 0 ELSE upTo[i - 1] + numbers[i]
  IN  upTo[Len(numbers)]

(* The size of words with a blank between them.                            *)
lengthOf(ws) ==
  IF ws = <<>> THEN 0 ELSE total([i \in 1..Len(ws) |-> ws[i].len + 1]) - 1

-----------------------------------------------------------------------------
(* ArgumentDescriber                                                       *)

is_positional(p) == p.kind # "option"
isCommand(p)     == p.kind = "command"

acceptsAnyArguments(p) == p.minArgs > 0 \/ p.maxArgs # 0

getName(p) == IF p.long # NoName THEN p.long ELSE p.short

getMetavar(p) == IF p.metavar # <<>> THEN p.metavar ELSE << cased[getName(p)] >>

getHelpName(p) ==
  IF p.kind = "positional" /\ p.metavar # <<>> THEN p.metavar[1] ELSE getName(p)

(* What a client may define.  The counts come from nargs( n ), minargs( n )*)
(* or maxargs( n ).                                                        *)
ASSUME ParametersAssumption ==
  \A p \in Parameters :
    /\ p.kind \in {"option", "positional", "command"} /\ p.required \in BOOLEAN
    /\ p.minArgs \in Nat /\ p.maxArgs \in Nat \cup {-1}
    /\ p.maxArgs = p.minArgs \/ p.maxArgs = -1 \/ p.minArgs = 0
    /\ p.short \in Names \cup {NoName} /\ getName(p) \in Names
    /\ p.metavar \in Seq(Names)
    /\ ~isCommand(p) /\ acceptsAnyArguments(p) => getMetavar(p) \in Seq(Names)
    /\ p.help \in Texts({"help"})
    /\ p.group # NoGroup =>
         /\ Groups[p.group].title \in Names /\ Groups[p.group].rank \in Nat \ {0}
         /\ Groups[p.group].required \in BOOLEAN
         /\ Groups[p.group].description \in Texts({"text"})

(* Groups are known by their names.                                        *)
ASSUME GroupsAssumption ==
  \A p, q \in Parameters :
    /\ p.group # NoGroup /\ q.group # NoGroup
    /\ Groups[p.group].rank = Groups[q.group].rank
    => p.group = q.group

ASSUME ConfigsAssumption ==
  \A c \in Configs :
    /\ c.program \in Texts({"text"}) /\ c.usage \in Texts({"text"})
    /\ c.description \in Texts({"text"}) /\ c.epilog \in Texts({"text"})

(* The ellipsis and the repetition are words of their own.                 *)
ellipsis      == word("...", "forever")
repetition(n) == [word("{0..n}", "times") EXCEPT !.times = n]

(* Mutant: the bracket before the last is counted in the repetition.       *)
limitTooLow(p) == IF p.maxArgs - 2 < Len(getMetavar(p)) - 1 THEN p.maxArgs - 2
                                                        ELSE Len(getMetavar(p)) - 1

optionalLimit(p) == IF p.maxArgs - 1 < Len(getMetavar(p)) - 1 THEN p.maxArgs - 1
                                                          ELSE Len(getMetavar(p)) - 1

(* Mandatory values, then one bracket inside the other for each optional   *)
(* one; the last metavar is used again.                                    *)
describeArguments(p) ==
  LET metavars == getMetavar(p)
      var(i)   == word(metavars[IF i > Len(metavars) THEN Len(metavars) ELSE i], "argument")
      mandatory == [i \in 1..p.minArgs |-> var(i)]
      unlimited == p.maxArgs < p.minArgs
      limit     == IF unlimited THEN Len(metavars) - 1 ELSE optionalLimit(p)
      last      == IF limit > p.minArgs THEN limit ELSE p.minArgs
      remaining == p.maxArgs - limit
      optional  == [i \in 1..(last + 1 - p.minArgs) |-> opened(var(p.minArgs + i))]
      ending    == IF unlimited THEN <<ellipsis>>
                   ELSE IF remaining = 1 THEN <<>> ELSE <<repetition(remaining)>>
  IN  IF p.maxArgs = p.minArgs
        THEN mandatory
        ELSE closedAtEnd(mandatory \o optional \o ending, Len(optional))

argumentsOf(p) ==
  IF isCommand(p) \/ ~acceptsAnyArguments(p) THEN <<>> ELSE describeArguments(p)

(* The order of describe_arguments                                         *)
describe_arguments(d) == d.options \o d.positional \o d.commands

-----------------------------------------------------------------------------
(* OptionSorter                                                            *)

groupRequired(p) == p.group # NoGroup /\ Groups[p.group].required
groupName(p)     == IF p.group = NoGroup THEN 0 ELSE Groups[p.group].rank

lowerGroup(a, b) ==
  \/ ~isCommand(a) /\ isCommand(b)
  \/ isCommand(a) = isCommand(b) /\ groupRequired(a) /\ ~groupRequired(b)
  \/ /\ isCommand(a) = isCommand(b) /\ groupRequired(a) = groupRequired(b)
     /\ groupName(a) < groupName(b)

(* The elements of a finite set, in the order of a relation on it.         *)
ranked(S, before) ==
  [r \in 1..Cardinality(S) |->
     CHOOSE i \in S : Cardinality({ j \in S : <<j, i>> \in before }) = r - 1]

ascending(S) == ranked(S, { x \in S \X S : x[1] < x[2] })

(* What stands at some of the places of a sequence.                        *)
elementsAt(args, places) ==
  LET order == ascending(places) IN [r \in 1..Len(order) |-> args[order[r]]]

(* stable_sort, then the limits of the groups                              *)
stableOrder(args) ==
  LET places == 1..Len(args)
  IN  ranked(places, { x \in places \X places :
                         \/ lowerGroup(args[x[1]], args[x[2]])
                         \/ x[1] < x[2] /\ ~lowerGroup(args[x[2]], args[x[1]]) })

reorderGroups(args) ==
  LET order   == stableOrder(args)
      sorted  == [r \in 1..Len(order) |-> args[order[r]]]
      starts  == ascending({ i \in 1..Len(args) :
                               i = 1 \/ lowerGroup(sorted[i - 1], sorted[i]) })
      stop(k) == IF k = Len(starts) THEN Len(args) ELSE starts[k + 1] - 1
  IN  [k \in 1..Len(starts) |-> SubSeq(sorted, starts[k], stop(k))]

(* Mutant: a required positional leaves the positional part.               *)
splitByRequired(group) ==
  LET places == 1..Len(group)
      part(S) == elementsAt(group, S)
  IN  [ positional |-> part({ i \in places : is_positional(group[i]) /\ ~group[i].required }),
        required   |-> part({ i \in places : group[i].required }),
        optional   |-> part({ i \in places : ~is_positional(group[i]) /\ ~group[i].required }) ]

(* stable_partition                                                        *)
reorderOptions(group) ==
  LET places == 1..Len(group)
      part(S) == elementsAt(group, S)
  IN  [ positional |-> part({ i \in places : is_positional(group[i]) }),
        required   |-> part({ i \in places : ~is_positional(group[i]) /\ group[i].required }),
        optional   |-> part({ i \in places : ~is_positional(group[i]) /\ ~group[i].required }) ]

-----------------------------------------------------------------------------
(* HelpFormatter                                                           *)

(* "-s, --long" and its arguments.  write drops the blanks that stand for  *)
(* a missing short name, but their width counts.                           *)
formatArgument(p) ==
  LET long  == word(p.long, "entry")
      short == word(p.short, "entry")
      names == IF is_positional(p) THEN << word(getHelpName(p), "entry") >>
               ELSE IF p.short = NoName THEN <<long>>
               ELSE IF p.long = NoName THEN <<short>>
               ELSE << [short EXCEPT !.len = @ + 1], [long EXCEPT !.role = "alias"] >>
  IN  IF is_positional(p) THEN names ELSE names \o argumentsOf(p)

argumentWidth(p) ==
  lengthOf(formatArgument(p)) + (IF p.kind = "option" /\ p.short = NoName THEN 4 ELSE 0)

descriptionIndent(args) ==
  LET widths == { argumentWidth(args[i]) : i \in 1..Len(args) } \cup {0}
      column == (CHOOSE m \in widths : \A n \in widths : n <= m) + ArgumentIndent + 1
  IN  IF column > MaxDescriptionIndent THEN MaxDescriptionIndent ELSE column

(* The name of an option is marked as its usage.                           *)
usageOf(p) ==
  LET names == IF is_positional(p) THEN <<>> ELSE << word(getName(p), "usage") >>
      whole == names \o RoleOf(argumentsOf(p), "text")
  IN  IF p.required \/ whole = <<>> \/ (names = <<>> /\ whole[1].open > 0)
        THEN whole
        ELSE bracketed(whole)

(* formatUsage ends at the first command.                                  *)
formatUsage(args) ==
  FlattenSeq([i \in 1..Len(args) |-> IF isCommand(args[i]) THEN <<>> ELSE usageOf(args[i])])
    \o (IF \E i \in 1..Len(args) : isCommand(args[i])
          THEN << word("<command>", "text"), word("...", "text") >> ELSE <<>>)

write(text) ==
  [i \in 1..Len(text) |-> IF text[i] = Break THEN [do |-> "paragraph"]
                                             ELSE [do |-> "word", word |-> text[i]]]
line      == << [do |-> "line"] >>
paragraph == << [do |-> "paragraph"] >>
skip(n)   == << [do |-> "skip", to |-> n] >>
indent(n) == << [do |-> "indent", to |-> n] >>

(* Mutant: the second line of a description starts under the argument.     *)
hangingEntry(p, column) ==
  indent(ArgumentIndent) \o write(formatArgument(p)) \o skip(column)
    \o write(RoleOf(p.help, "help")) \o line

writeArgument(p, column) ==
  indent(ArgumentIndent) \o write(formatArgument(p)) \o skip(column)
    \o indent(column) \o write(p.help) \o line

writeArguments(args, column) ==
  line \o FlattenSeq([i \in 1..Len(args) |-> writeArgument(args[i], column)])
    \o paragraph \o indent(0)

(* A part of a group: of the free group with the heading of the part.      *)
writePart(args, heading, column) ==
  IF args = <<>> THEN <<>>
  ELSE (IF args[1].group = NoGroup THEN write(heading) ELSE <<>>)
         \o writeArguments(args, column)

headingOf(part) == << word(part, "heading"), word("arguments:", "text") >>

writeGroup(group, column) ==
  LET parts == reorderOptions(group)
      free  == group[1].group = NoGroup
      title == IF free THEN <<>>
               ELSE write(<< word(Groups[group[1].group].title, "heading") >>) \o line
                      \o indent(ArgumentIndent)
                      \o write(Groups[group[1].group].description)
                      \o paragraph \o indent(0)
  IN  title
        \o (IF isCommand(group[1])
              THEN writePart(parts.positional, << word("commands:", "heading") >>, column)
              ELSE writePart(parts.positional, headingOf("positional"), column)
                     \o writePart(parts.required, headingOf("required"), column)
                     \o writePart(parts.optional, headingOf("optional"), column))

writeBlock(text) == IF text = <<>> THEN <<>> ELSE write(text) \o paragraph

format(d, c) ==
  LET args   == describe_arguments(d)
      groups == reorderGroups(args)
      column == descriptionIndent(args)
  IN  write(<< word("usage:", "text") >>)
        \o write(IF c.usage # <<>> THEN c.usage ELSE c.program \o formatUsage(args))
        \o paragraph
        \o writeBlock(c.description)
        \o FlattenSeq([i \in 1..Len(groups) |-> writeGroup(groups[i], column)])
        \o writeBlock(c.epilog)

-----------------------------------------------------------------------------
Nothing == [options |-> <<>>, positional |-> <<>>, commands |-> <<>>]

HelpInit ==
  /\ definition = Nothing
  /\ config \in Configs
  /\ script = <<>>
  /\ writer = newWriter

Defined == { describe_arguments(definition)[i] :
               i \in 1..Len(describe_arguments(definition)) }

(* The client defines a parameter or a command that is new.                *)
Define(p) ==
  /\ script = <<>> /\ writer = newWriter
  /\ Cardinality(Defined) < MaxParameters
  /\ \A q \in Defined : p # q /\ getName(p) # getName(q)
  /\ definition' =
       CASE p.kind = "option"     -> [definition EXCEPT !.options = Append(@, p)]
         [] p.kind = "positional" -> [definition EXCEPT !.positional = Append(@, p)]
         [] p.kind = "command"    -> [definition EXCEPT !.commands = Append(@, p)]
  /\ UNCHANGED <<config, script, writer>>

Format ==
  /\ script = <<>> /\ writer = newWriter
  /\ script' = format(definition, config)
  /\ UNCHANGED <<definition, config, writer>>

CallWriter ==
  /\ script # <<>>
  /\ LET call == Head(script)
     IN  writer' = CASE call.do = "word"      -> writeWord(writer, call.word)
                     [] call.do = "line"      -> startLine(writer)
                     [] call.do = "paragraph" -> startParagraph(writer)
                     [] call.do = "skip"      -> skipToColumnOrNewLine(writer, call.to)
                     [] call.do = "indent"    -> setIndent(writer, call.to)
  /\ script' = Tail(script)
  /\ UNCHANGED <<definition, config>>

HelpNext == (\E p \in Parameters : Define(p)) \/ Format \/ CallWriter

HelpSpec == HelpInit /\ [][HelpNext]_helpVars

=============================================================================
