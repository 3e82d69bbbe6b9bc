# Argumentum: models, checks and proofs

Argumentum is a C++17 library that parses command lines. A client defines
parameters through a fluent interface, calls `argument_parser::parse_args` and
gets a `ParseResult`; values arrive in variables the client registered by
reference. This directory holds TLA+ modules of that machinery, the TLC
configurations that check them on small instances, and TLAPS proofs: about
the class `Parser`, the calls of `parse_args` around it, the fluent interface
that defines it, chains of commands, forwarded lists, the conversion of numbers,
the help and the result object.

Paths such as `parser_impl.h:291` are under `src/src/`; `test/...` and
`README.md:332` are relative to the repository's root.

## 1. Inventory

The library is single-threaded and keeps nothing on disk. What is hard about it
is *order*: one argument at a time is classified by looking at state that the
arguments before it left behind (the active option, counters that are reset at
different moments, a cursor over the positional parameters, a mode), several
parameters may share one value, streams and parsers are nested, and five loops
after the parse read counters that the loop before has changed.

| component | state | operations | what makes it correct |
|---|---|---|---|
| `Parser` (`parser*.h`, streams, `Environment`) | `mIgnoreOptions`, `mPosition`, `mpActiveOption`; the recursion of `parse( stream, depth )` | classify the next argument; open and close options; store a value, a positional, a forwarded list; include a file; hand over to a command; exit | no value goes to an option that cannot take it, positionals fill in order, missing values are reported on every way out, `--` holds, the parse ends |
| `Option`, `Value`, `ConvertedValue<T>` | `mCurrentAssignCount`, `mTotalAssignCount`; `mAssignCount`, `mTarget` | `setValue`, `setMissingValue`, `assignDefault`, `onOptionStarted`, `resetValue` | counters and content agree, also for targets shared by several parameters |
| `ParseResultBuilder` | errors, ignored arguments, commands, flags, `mustCheck` | add an error, an ignored argument, a command; request an exit; merge a result | nothing reported is lost; errors come with the obligation to check them |
| `ParseResult::RequireCheck` | `required`, the C++ exception context | move, check, destroy | an unchecked failure is told, a checked one is not |
| `argument_parser::parse_args` | the definition and the values of all calls | verify, reset, parse, assign defaults, validate, describe errors | success means complete; calls do not influence each other |
| commands | a stack of `parse_args` calls over one stream | activate, parse the rest, merge, leave | the result of a chain is the result of one parser |
| `parseForwardedArguments` | position in the text, value under construction | cut a list at single commas | what was written arrives |
| `ParameterConfig`, `OptionConfig`, `GroupConfig`, `OptionGroup` | options, positionals, groups, commands, help names, the active group | every fluent call that the definition depends on | names are unique; a definition that passes `verifyDefinedOptions` is one the parser can work with |
| `from_string`, `parse_int`, `parse_float`, `isNumberLike` | `errno` | convert a text to an integer, a boolean, a floating point number; clear `errno` | the number returned is the one written, a number in range is accepted, one conversion does not influence the next |
| `Writer` | `position`, `lastWritePosition`, `startOfParagraph`, `indent` | write words, start a line or a paragraph, skip to a column, indent | the members agree with what is on the stream: lines fit, words are apart |
| `ArgumentDescriber`, `OptionSorter`, `HelpFormatter` | the descriptions of the parameters, sorted and partitioned in place | describe counts, sort by group, write usage, groups and descriptions | every parameter is shown once, where it belongs, with the counts the parser accepts |
| `Notifier`, `exceptions.h` | -- | types, a warning | not modelled, see 8 |

Components interact by plain calls. `argument_parser` owns a `ParserDefinition`
that `ParameterConfig` fills and `Parser` only reads; `Parser` mutates the
`Option` and `Value` objects behind it and a `ParseResultBuilder`; user actions
run inside `Value::setValue` and reach the parser through `Environment`
(`exit_parser`, `add_error`); a command recursively creates an
`argument_parser` that reads the same `ArgumentStream`.

The behaviours that are hard to test are listed one by one, at the line where
they bite, under `hazards` in `PROJECT.json`.

## 2. Modules

```
ParseResultBuilder      ParserDefinition        the result; the fixed definition
        \                  /
         \                /
            ParserState                         methods of Option, Value, Parser as operators on a record
                |
              Parser  ---- ParserProperties     the loop over the arguments
                |               |  refines ParseContract
                |               |
        ArgumentParser ---- CallProperties ---- ParserProofs
                                                several calls of parse_args on one object
CommandChain ---- ChainProperties ---- CommandChainProofs   nested parsers; refines ParseContract, uses ParseResultBuilder
ParameterConfig ---- DefinitionProperties ---- DefinitionProofs
                                                the fluent interface; discharges assumptions of ParserDefinition
ForwardedArguments ---- ForwardedProofs         the splitter of forwarded lists
ParseResultObject ---- ResultObjectProperties   the life of a result at the client
        |                 ResultObjectProofs
NumberConversion ---- ConversionProperties      texts to numbers, errno in between
        |                 NumberConversionProofs
Writer                                          words on lines
   |
  Help ---- HelpProperties ---- HelpProofs      descriptions, their order, calls of Writer
SequenceInduction                               lemmas about sequences for ForwardedProofs, HelpProofs
```

`MCParser`, `MCArgumentParser`, `MCCommandChain`, `MCParameterConfig`,
`MCConversion` and `MCHelp` give the constants their values. Variables and operators have the names of the source
where they correspond. An operator introduced by the comment `Mutant:` is a
deliberately wrong variant of the definition after it. No specification uses
it: it is there to show that a property notices that error.

**ParserDefinition.** A definition that does not change while an input is
parsed: for every parameter its names, bounds, choices, flag value, default,
group and action, and the `Value` behind it. Its assumptions are what the
fluent interface establishes: positionals are distinct objects
(`PositionalAssumption`), the bounds have one of the three shapes `setNArgs`,
`setMinArgs` and `setMaxArgs` produce (`CountAssumption`), and no two options
share a name (`NameAssumption`). Module `ParameterConfig` checks the last two
from the other side (`ParsableDefinition`, `NamesUnique`), and `DefinitionProofs`
proves them: it instantiates `ParserDefinition` with the options and
positionals that the fluent interface has collected
(`ParserAssumptionsEstablished`).

**ParserState.** One handler of `Parser` calls many methods one after the other,
and nothing can happen between them. So each method is an operator from a
record (`active`, `current`, `total`, `assigned`, `target`, `result`) to the
next, exceptions included: the `catch` clauses of `Parser::setValue` appear as
the error they add. Texts are opaque values; which of them convert is the
constant `Convertible`. A target is `[has, items]`: the content of an
`std::optional` and the value or values in it.

**Parser.** `parse( stream, depth )` as a state machine. `pc = "next"` is the
head of the loop, `"letters"` and `"pieces"` are the inner loops over the
letters of a multi-option and the values of a forwarded list, `"close"` is the end of
`parse( stream )`. `depth` is the number of streams below the current one; a stream
that ends, an exit, or a command leaves one level (`Leave`), an include that is
too deep leaves all (`IncludeTooDeep`). The stream is the environment: it
delivers any argument of `Args` or ends. A command's parser is represented by
the set `SubResults` of results it may return -- any set of results that
satisfy `ResultContract`, which is what `Parser` guarantees of its own result
(assume/guarantee, both sides proved).

**ArgumentParser.** `phase` walks through `parse_args`: reset, the steps of
`Parser`, `assignDefaultValues` one parameter at a time, then the validation
and the description of the errors, which the result notes, in one step. `CallNull` and `CallEmpty` are
the two early returns (no `argv`; an empty input of a parser with required
parameters, which shows the help and does not reset the targets). Commands
and forwarding do not occur in its instance; they are covered by the modules
next to it.

**CommandChain.** The stack of nested `parse_args` calls. From `Parser` it keeps
only what crosses parsers: the result, the nesting of the streams, whether the
required option came, which filesystem opens includes, and whether the parser is at
top level. Every frame runs the end of `parse_args` (`returned`), where it may describe
its problems; the history `described` records who described what. An exception that no
parser catches, from a refused option of a command or from a user action,
leaves through all frames (`Propagate`).

**ParameterConfig.** Options, positionals, groups, commands and help options as
a client builds them call by call, with what each call throws and what remains
of the definition after it threw. Names are sorted by shape, as `trySetNames`
does (`-a`, `--all`, bare dashes, `-ab`, words, words with a space). An
`OptionConfig` is a shared pointer to a parameter that the client may copy and keep, with a
note of its own whether the count was set: `config` is the one at hand, `others` are the
ones the client still holds, and `TurnTo` takes up one of them.

**ForwardedArguments**, **ParseResultObject**: see the comments there.

**NumberConversion.** A text is cut where the code cuts it, into minus signs, a
prefix and a body. A body records what a `strto*` function sees in each base: are there
digits, which number they are, what follows them. `strtoll` and `strtoull` are
modelled with their limits, the sign they accept themselves and `errno`;
`strtod` returns a class of values. `Convert` is one call of `from_string`,
`WriteErrno` anything else in the program that sets `errno`. Where the code multiplies
`LLONG_MIN` by -1, which is undefined, `products` admits every value.

**Writer.** Each method is an operator on a record that holds the members and
next to them what really went to the stream: column, line and lines. `Call` is
one call of a method with any argument, for the theorem; in `Help` the calls
come from the formatter.

**Help.** `describeArguments`, `reorderGroups`, `reorderOptions` and
`formatUsage` are pure operators over sequences of words. A word carries its
size, its brackets and what it stands for (an entry, the name of an option in the
usage, a heading, a description). `format` is the list of calls that `HelpFormatter::format` makes,
and `CallWriter` makes them one by one on the writer's record. `std::stable_sort`
and `std::stable_partition` are the enumeration of a set in an order (`ranked`),
which says what they return and not how. Four assumptions say what a client
may define: names have a size (`SizesAssumption`), the counts of a parameter come
from `nargs`, `minargs` or `maxargs` (`ParametersAssumption`), groups are known by
their names, so that the rank of a name tells them apart (`GroupsAssumption`), the
texts of a configuration are texts (`ConfigsAssumption`).

**ParseContract** is the abstract specification: a pass of which only the result
is seen. The result only grows -- no error, ignored argument, command or exit
is taken back -- satisfies the contract at every moment, and is final once
the pass is finished. `Parser` implements it (checked and proved), and so does
the whole stack of parsers in `CommandChain` with the client's result
(checked and proved). In both refinements the mapping is direct: `result` is the result
under construction, `finished` is the end of the pass.

## 3. Runs

| run | module, cfg | instance | shows |
|---|---|---|---|
| `parser_counts` | MCParser, MCParserCounts | an option of exactly 2 values, two flags (one numeric, `-6`), a list that shares its vector with a positional, positionals of 1 and 2 values, choices; 4 arguments of 9 forms | who receives a value, how many, in which order, however the option occurred before |
| `parser_flow` | MCParser, MCParserFlow | help, forwarding, an optional vector, an action with errors, a positional whose action exits, a command with 4 kinds of results, includes to depth 2 and one that is too deep; 5 arguments of 10 forms | refinement of `ParseContract`, results, `--`, termination |
| `calls` | MCArgumentParser, MCCallFull | two calls; a required option that shares its target, exclusive and required group, default, choices, help, positional; client variables that hold something already; 4 arguments in each call | what success, failure and a reused parser mean |
| `definition` | MCParameterConfig, MCDefinition | 4 calls of the fluent interface over 10 lists of names | names, bounds, groups |
| `command_chain` | MCCommandChain, MCChain | program, command, sub-command, and a command whose options are refused; options whose action throws; 6 arguments | merging of results, validation at every level, what becomes of exceptions |
| `forwarded` | ForwardedArguments, MCForwarded | every text of up to 6 characters over two letters and the comma, and every writable list within that length | the splitter |
| `result_object` | ParseResultObject, MCResultObject | 3 objects, 4 parses | moves, checks, exceptions |
| `conversion` | MCConversion, MCConversion | `long long` of 5 bits, `int` of 4, types of 3 and 5, signed and unsigned; some 80 bodies with 5 prefixes and up to 2 minus signs; `errno` 0, ERANGE or EINVAL | limits, signs, bases, `errno` |
| `help` | MCHelp, MCHelp | every definition of up to 3 of 41 parameters in 3 groups, two configurations; a page of 24 columns, descriptions at most at column 12 | counts, entries and usage, alignment, lines |

**Why the bounds are enough.** The counters compared in the code are compared
with 0, 1 or 2, so an occurrence of an option needs at most three arguments
(name, values, one too many) to pass every threshold and a fourth to act on the
state this leaves: `MaxArguments = 4` where counters matter. An include needs
depth 0, 1, 2 and the attempt at a third: with `MaxIncludeDepth = 1` four `@`
arguments and one more, hence 5. Three nested parsers, each with an argument of its
own, take 6. Two calls show everything that one call can leave behind for
the next, because `Call` resets all state it reads. In the fluent interface an interaction
involves at most a group, two parameters and a setter, which 4 calls reach; longer
sequences repeat them. A triple comma with a letter on each side and a second
value fits in 6 characters. In ParseResultObject three objects allow a move out
of, into and past an unchecked one. The width of the integers enters
`parse_int` only through comparisons with the limits, so types of 3 to 5 bits meet every case
if the numerals lie at, below and above each limit, in every base; the theorems
have no such bound. The order of the help is decided pair by pair, and three
parameters show a pair with one between, before or after; the column of descriptions and
the breaks depend on widths, and the instance has arguments that end before, at
and behind the column and words that fit a line exactly or never.

**Fairness.** `FairSpec` and `FairCallSpec` state weak fairness of `Parse` and
`Run`: a call that has begun goes on, because the library is a sequential
program and nothing but itself can stop it. No fairness is given to the client
(it need not call again) nor to particular arguments. Termination then needs
the input to be finite, which `MaxArguments` bounds; a stream that never ends
is not a property of this code. This bound, and not the include depth, is what ends a
model's pass: that includes stop at `max_include_depth` is the bound of `depth` in
`TypeOK`, and the liveness properties say that every stream and parser around the one that
ended is resumed and finished in its turn. The actions `Terminated` and `Rest` stutter
where a parse is over, so that a real deadlock would be reported; the runs over
client-driven modules (`definition`, `forwarded`, `result_object`, `conversion`,
`help`) switch the deadlock check off, since a client may stop whenever it
likes, the splitter ends and the help is written at some time.

## 4. Properties

Each is commented where it is defined. The ones that take the longest to
believe from the code:

* `SuccessIsComplete`: a true result has every required option, group and
  positional, although `wasAssigned` is per target, the occurrences are
  checked when they are closed, and defaults count as assignments.
* `LastOptionTakesWords`: a word goes to the option that occurred last if and only if
  that occurrence has room for it. `latest` counts the words independently of the
  counters, which survive one occurrence of the option and are reset by the next.
* `OptionsFrozenAfterDashDash`: after `--` no step, of whatever kind and stream, starts
  an option, makes one active or gives one a value (counters and, unless shared, target),
  or activates a command. The exception is the missing value of the option that was
  active, at the end.
* `MissingArgumentReported`: an occurrence can be ended by its last value,
  another option, a forwarded list, the end of the input, an exit or an
  include that is too deep; too few values are reported on all of them.
* `ValuesAssignedByParameters`, `AssignedTargetsHaveContent`: the assign count
  of a shared value and its content never disagree with its parameters.
* `DefaultsYieldToInput`: no default overwrites what came through another
  parameter of the same target.
* `ErrorsReachTheClient`, `SuccessMeansAllComplete`: through any number of
  merges, exits and includes.
* `ErrorsShownOnce`: what was described, by whom and with which errors and words, is
  exactly what all parsers of the chain reported, once, by the client's parser; a
  command's parser that took itself for the top level would describe its part a second time.
* `FailuresAreKept`: an error that nobody looked at is still held by an object,
  or a destructor threw or warned, or the client assigned another result over it.
* `ExceptionsArrive`: an exception that passes through the parsers of a chain
  reaches the client exactly if none of them had reported an error; otherwise
  the result under construction throws from its destructor and the program ends.
* `NumberIsTheOneWritten`, `NumberInRangeIsAccepted`: through an own sign, the
  sign `strtoll` reads, two limits and `errno`, an integer arrives as written or
  is refused. The second names the exceptions the code makes: `LLONG_MIN` and a negative
  zero for an unsigned type.
* `ArgumentsDenoteCounts`: read as a grammar, the syntax in the help (brackets,
  `...`, `{0..n}`) admits exactly the counts the parser accepts.
* `HelpShowsDefinition`: two sorts, two partitions and the break
  into lines neither lose nor repeat an entry, and put each under its heading; the same
  for the options in the usage. It says that words correspond to parameters one by one,
  in order; two parameters may well have the same text.
* `LinesReadable`, `DescriptionsAligned`: `Writer` never looks at its output, so
  every method must keep two positions true for the others.

## 5. Statements of the documentation that the code does not keep

Each has a run in which TLC shows the disagreement (`findings` in
`PROJECT.json` has the quotations).

| run | statement | what happens |
|---|---|---|
| `flag_value` | an option without a value gets the flag value | `Value::setMissingValue` counts before the scalar `assignMissing` asks whether anything was assigned, so an option with `maxargs(1)` and no value keeps `T{}` |
| `optional_positional` | an optional positional "may have no arguments" | a positional with `required(false)` and a default that is absent is reported as `MISSING_ARGUMENT`, because its target is assigned and its own counter is 0 |
| `stored_chain` | the chain of subcommands is stored in `commands` | `addResult` merges everything but `commands`: only the first command arrives |

Other disagreements were met while modelling. The models do what the code does;
there is no run for them:

* `parameterconfig.h:75-76` says that `add_parameters` stores the pointer to the
  structure "so that the structure outlives the parser"; it is dropped
  (`parameterconfig_impl.h:42`) and the structure dies with the client's last pointer.
* `parserconfig.h:69-71` says that `filesystem()` sets how files with additional
  parameters are opened. The parser of a command gets a configuration without
  it (`parser_impl.h:361-367`), so `cmd @file` uses `DefaultFilesystem`.
* The comment at `optionsorter_impl.h:13-17` puts the options of the free group
  that are required before the required groups. `lowerGroup` looks at the
  requirement of groups only, so the whole free group comes after all required groups.
* `test/help_t.cpp:127` expects descriptions in the same column. Where an option ends
  exactly at column 30, `skipToColumnOrNewLine` has nothing to skip, the first word
  is separated by a blank and starts one column further right
  (`DescriptionsAligned` states it). The four blanks that stand for a missing short name
  (`helpformatter_impl.h:30`) are counted in the width and dropped by `write`.
* `parameterconfig.h:81` says that the help options "terminate the parser". In `-he` the
  letters after `h` are still started (`parser_impl.h:164-172`), and an exit
  inside an included file leaves only that file.
* `optionconfig.h:101` speaks of the maximum number of values; a forwarded list
  is stored without looking at it (`parser_impl.h:246-284`).
* `parser_impl.h:102` says that positionals accept a negative number as a
  value; while an option is active that takes no more values it is started as
  an option instead (`parser_impl.h:115-121`).
* `value_impl.h:53` says "Increase the assign count"; the method only sets
  `mHasErrors`, which nothing reads.
* `optionconfig.h:110` says that a required option must be present in the input; one
  with a default never is missing (and likewise a required group).
* `setShortName` and `setLongName` of an option that is already defined are not
  checked for duplicates (`test/argparser_t.cpp:1127` is about those given to
  `add_parameter`), nor is a second name of the same kind in one call kept.
* `parseresult.h:60-61` says that an unchecked result throws or warns. If one is destroyed while an
  exception passes that no handler has caught yet, `std::current_exception()`
  is null, the destructor throws and the program is terminated
  (`CommandChain`'s status `terminated`, `ParseResultObject`'s context
  `terminated`); and a move assignment onto an unchecked result drops the
  obligation without a word (`overwritten`).
* `ParameterConfig::add_command( name, factory )` is declared
  (`parameterconfig.h:47`) and not defined.

Facts that surprise a reader but contradict nothing: `filesystem()` never
returns null, so `MissingFilesystem` cannot be thrown; a missing file is an
empty stream; the include depth starts again at 0 in every command and its
maximum is the default one; after a
command inside an included file the outer stream goes on with the outer parser;
ignored arguments make a result false without raising the obligation to check it.

Facts about numbers, all in `NumberConversion`: text after the digits is
ignored, so `12abc` is 12, and `1e3` and `1.5`, which the parser takes for
numbers, are 1 for an integer; `parse_float` knows no binary and octal prefix
and reads 0 from `0b101`; a blank may stand between the prefix and a second
sign, which for an unsigned type wraps around (`" -5"`); `-0` is out of range
for unsigned types and `-9223372036854775808` for `long long`; subnormal numbers
and infinities are out of range and `nan` is accepted; an `errno` that other
code left makes the next conversion fail (`fouled`).

## 6. Proofs

`ParserProofs` proves the safety properties of `Parser` for every definition,
every set of arguments, every set of sub-results and every bound that satisfy the
assumptions of `ParserDefinition` and `Parser` (`DefinitionAssumption`,
`PositionalAssumption`, `CountAssumption`, `NameAssumption`,
`StreamAssumption`). TLC evaluates these assumptions in the runs `parser_counts`, `parser_flow`
and `calls`. `StreamAssumption` says of a command's result that it satisfies
`ResultContract`, holds no `INVALID_ARGV` and does not say that errors were described:
only the call of a client without an `argv` reports the first (`argparser_impl.h`), only
a parser at top level does the second, and `Faithful` and `Grows` below show that
`Parser` itself does neither. `CommandChainProofs` proves all three of the parsers of a chain
(`ContractKeptByAllFrames`).

The properties are not inductive. `MissingArgumentReported`, for instance,
speaks of options that are not active; to preserve it when an option is closed
one needs to know what the counters of the *active* one say about the occurrence,
that flags are never active, and that no error is ever taken back. The
inductive invariant is

    IInv == RecordInv(State, started) /\ Filled(State, mPosition) /\ CursorOK

* `RecordInv(s, S)` is about the record alone: its type, the contract of the result,
  the bounds of the counters, reported missing values, the accounting of
  values. It is what a sequence of methods preserves, so its lemmas have the
  form "if `RecordInv(s, S)` and `t = setValue(s, o, text)` then
  `RecordInv(t, S)` and the result grew" and compose along a handler.
* `Filled(s, pos)` ties the cursor to the counters of the positionals: those
  before it are full, those after it empty, and the current and total counters of
  positionals agree. Without it `PositionalOrder` is not preserved, since
  `StorePositional` looks only from the cursor on.
* `CursorOK` types the rest, and says that pending pieces belong to forwarding
  options -- the ones exempt from the maximum.

`LastOptionServed` needs a second invariant, `LInv`: while the occurrence in `latest` has
room, its option is active and its current counter is the number of words it was given;
without room, an active option takes no more (`Served`). `OptionsFrozen` rests on
`PastDashDash`: after `--` no letters and no pieces of a list are under way. What is read from
then on is a free argument (`FreeArgumentsOnly`), so that the steps that start options or
commands cannot be taken, and a positional that stores it touches only its own target
(`Within`).

The first part of the module proves one or two lemmas per method (fields it leaves
alone, growth of the result, preservation of `RecordInv`). The second has
one lemma per action, assembles them in `Inductive`, and derives:

| theorem | property |
|---|---|
| `TypeCorrect` | `TypeOK` |
| `ResultsKeepContract` | `ResultOK` |
| `LastOptionServed` | `LastOptionTakesWords` |
| `CountsNeverExceeded` | `CountsBounded` |
| `MissingArgumentsReported` | `MissingArgumentReported` |
| `ValuesAccounted` | `ValuesAssignedByParameters` |
| `PositionalsInOrder` | `PositionalOrder` |
| `TargetsHaveContent` | `AssignedTargetsHaveContent` |
| `OptionsFrozen` | `OptionsFrozenAfterDashDash` (an action property) |
| `ContractImplemented` | `ImplementsContract` (refinement) |

`TargetsHaveContent` is about what the targets *hold*, of which `IInv` says
nothing. A second invariant, inductive together with the first
(`FaithfulInductive`), adds it:

    FInv == Faithful(State, started, Waiting) /\ no option is active at the end /\ ...

* `ValueOK(s, o)` ties the target of a parameter to its counters: every text in
  it is allowed (`AllowedTexts`: initial value, flag value, default, or a text that converts
  and is a choice of a parameter of the target); a target that does not count as
  assigned holds its initial value; one that does has content unless an error
  names one of its parameters; and a parameter that took a value has an assigned target, unless the
  choice was invalid. The last is needed because `setValue` counts the
  occurrence before it looks at the choices.
* `Used` says that an option that was started counts a value, is still active, waits
  for the pieces of a forwarded list (`Waiting`), or was reported for missing values. So in a
  successful call every option of the input is one that the group checks count.

`ContractImplemented` uses `Grows`, the relation between the result before and
after a method, which is transitive; a step in which the abstract variables do
not change maps to a stutter, and `finished` is set only by `Close`.

Its third part, from `Clean` on, proves the safety properties of `parse_args` (`CallSpec`) for every
definition, any number of calls on one object and whatever the client's variables hold
before. Its invariant `CallInv` carries over the phases of a call what the
parser established:

* between calls, `Clean`: a target that counts as assigned belongs to some parameter,
  so that `resetOptionValues`, which walks over the parameters, reaches it;
* while it parses, `IInv /\ FInv`, so that all lemmas about `Parser`'s actions apply as they are;
* while defaults are assigned, `Consumed`: the input is consumed, missing values are
  reported and `Faithful` holds with nothing waiting. Each default either leaves the
  record alone or is one application of `assignDefault`, which preserves `Consumed`;
* after a success, `Consumed` and `Validated`: the loops of `validateParsedOptions` found nothing.

| theorem | property |
|---|---|
| `SuccessCompletes` | `SuccessIsComplete` |
| `ExclusiveAtMostOnce` | `ExclusiveInInput` |
| `TargetsFresh` | `NoStaleTargets` |
| `TargetsValid` | `SuccessTargetsValid` |
| `FailuresVisible` | `FailureIsVisible` |
| `DefaultsYield` | `DefaultsYieldToInput` (an action property) |

`ExclusiveAtMostOnce` needs `Used`: the validation counts the options of a group whose
counters say that they took values, the property speaks of those that were started, and the
argument compares the cardinalities of the two sets.

**DefinitionProofs** proves the properties of the fluent interface for all sets of names, all
pairs of names in a call and any number of calls. The invariant `IInv` has one
part per piece of state: parameters are well typed, their bounds have one of the three
shapes and their groups exist (`ParametersOK`); the active group exists (`GroupsOK`); the
`OptionConfig` at hand points at a parameter (`ConfigOK`); unless a name was set directly, the
names of options are distinct and a nonempty set of help names contains one that an
option has (`NamesOK`). Every `OptionConfig` among `others` points at a parameter, too
(`OthersOK`). The last is what makes `verifyDefinedOptions` right when
it adds no help option. Groups keep their kind once they exist, so that what
was checked when a parameter joined a group stays true. A call has at most two names, and
`LastOfFacts` says what `trySetNames` makes of them.

| theorem | property |
|---|---|
| `NamesStayUnique` | `NamesUnique` |
| `VerifiedIsParsable` | `ParsableDefinition` |
| `GroupsStaySettled` | `GroupsSettled` (an action property) |
| `ParserAssumptionsEstablished` | `CountsShaped`, `NamesDistinct`, `RequiredNotExclusive` of `ParserDefinition` |

The last theorem closes the gap between the components: these three formulas are
`CountAssumption`, `NameAssumption` and a clause of `VerifiedAssumption`, from which
`ParserProofs` starts. What remains assumed there is what the client
chooses freely (texts, values, actions) and that distinct positions are distinct objects.

**NumberConversionProofs** proves the three properties of conversions for every
set of integral types whose limits lie within `long long` or `unsigned long long`, whatever these
are (`LimitsAssumption`), and for every set of bodies (`DigitsAssumption`: without digits
`strtoll` reads 0). The invariant says that the last conversion is one of
the outcomes that its text, type and `errno` admit, and that `errno` is 0
unless other code wrote it; the properties are then statements about `parseInt` alone, by
cases on the sign, the limit reached and the signedness.

**SequenceInduction** holds what `ForwardedProofs` and `HelpProofs` need of
sequences of any length. The induction theorems of the library take a predicate as
a parameter; here the set of indices at which a statement holds takes its place
(`Induction`, from `Smallest`: a nonempty set of naturals has a least
element). From it follow the recursion of `FlattenSeq` and its behaviour under `\o` and
`Append`, which are all the two modules use of that operator.

**ForwardedProofs** proves both properties of the splitter for every alphabet, every
text and every list that can be written.

| theorem | property |
|---|---|
| `ForwardedInvariant` | -- (the invariant) |
| `ListsAreDelivered` | `ListsArrive` |
| `LettersAreDelivered` | `LettersArrive` |

`TakenInv` says that the letters of `added` and `ssarg` together are the letters of
the part of `args` already read, and that something has been or will be
offered. `ListInv` says where in a written list the splitter is: behind the j-th character of
the k-th value, with the values before it in `added` and j characters in `ssarg`. `Laid` gives every
character of the list its place in the text, so that this is arithmetic on `it`. The
step that needs thought is the comma: whether it is the end of a value or half of a
pair is told by one character of lookahead, and `Writable` is what makes that enough.

**HelpProofs** starts with the writer: `EveryLineReadable` proves `LinesReadable` for every
width, every set of words and every order of calls, more than the run `help` can
reach. The invariant `WriterInv`
relates what `Writer` believes to the stream: `position` is the column, and
`lastWritePosition` is the end of the last word of the line, so that the blank is
written exactly where it is missing. The rest is about the help of every
definition, for every choice of parameters, groups, names, widths and
indents that satisfies the four assumptions of `Help`.

| theorem | property |
|---|---|
| `EveryLineReadable` | `LinesReadable`, for every client of `Writer` |
| `EveryHelpReadable` | `LinesReadable` of the help |
| `EveryDescriptionAligned` | `DescriptionsAligned` |
| `CountsDenoted` | that the syntax of a parameter promises what the parser accepts, up to any bound |
| `EveryCountDenoted` | `ArgumentsDenoteCounts` |
| `DefinitionShown` | `HelpShowsDefinition` |

`DescriptionsAligned` looks at lines that are written; what keeps it true are calls
not yet made. So `HelpInv` contains `ScriptInv(script, writer, column)`:

* in the rest of the script every word of a description is reached, through words of
  descriptions and breaks only, from a skip and an indent to the column, or from the start
  of the rest (`Follows`);
* in the latter case the skip was made and the writer is `AtColumn`, or the indent was
  made too and it is `Ready`: its indent is the column, and its line is
  empty up to that column or ends in a word of a description;
* the lines and the line under construction are aligned.

That `format` builds such a script is shown bottom up: every part is `Sound`
(it starts no description without skip and indent), and `Sound` is closed under
concatenation and `FlattenSeq` (`FormatSound`). On the way stands what the model uses of
sorting: `RankedEnumerates` (`ranked` enumerates a finite set in a strict order),
`StableOrderEnumerates` (the stable sort is such an order) and `PartsTyped`.

`CountsDenoted` gives the syntax a normal form, `Shape`: mandatory words, optional words that
each open a bracket, possibly one ending, and as many brackets closed at the end as were opened.
`promised` is a recursion from the last word to the first; `PromisedIs` shows that it is the only
function with these equations, so that a closed form of what the words from the i-th on
promise, guessed for each of the three shapes, is the one.

`DefinitionShown` has two halves. `ShowInv`, the invariant, says that the words on the
stream, put line after line, are the words of the calls already made, in the order of the calls,
and that the rest of `format`'s script is still to come: `Writer` moves words to other columns and
lines but drops, doubles and reorders none (`WordPrinted`; every other method adds nothing).
What is left is a statement about the script. `Listed(L, s, D, H)` says that the entries
of `s` show exactly the things in `D`, once each and in the order of the listing `L`, and that all but
those in `H` stand under a heading of their own; `H` is what a part leaves to the title of
its group. `ListedConcat`, `ListedFlatten` and `ListedUnder` follow it from the line of one argument
through part and group to the whole help (`EntriesListed`) and, with another listing, through the
usage (`UsageListed`). The order of the entries comes from the sorts: the groups are the runs of the
sorted parameters. Inside a run nothing is lower (`RunsAlike`), so it has one group and the
order of definition, which the partitions keep (`GroupStands`, `PartStands`). Between
runs everything rises (`RunsRise`), and the runs leave no parameter out (`RunsCover`).

**ResultObjectProofs** proves the properties of the result object for any number of
objects and calls. The three need each other, and one fact more
(`HeldUntold`): the errors that an object holds were not told by a destructor,
or checking it would accuse a client that did check.

**CommandChainProofs** proves every safety property of the chain of commands, and
the refinement, for chains and inputs of any length. `ErrorsReachTheClient` speaks
of the end of the call only; before it, what was reported is spread over the open
frames, and `Held` says how:

* `ErrorsHeld`: an error is reported if and only if some frame holds it;
* `WordsHeld`: the ignored words are those of the frames, one frame after the other.
  `Joined` states this without recursion, through the beginnings of the text; three lemmas
  say that it is preserved when a word is appended to the last part, when an empty part is
  added (`Command`) and when the last two become one (`FinishCommand`);
* `LackingCounted`: as long as nothing is wrong, the parsers that lack their
  required option are exactly the open frames that lack it;
* `Silent`: the first frame is the one at top level, and until the client's call returns
  nothing was described and no result says so. With it, the merge of `errorsWereShown` adds
  nothing, and the description at the end is the only one.

The seven actions of the innermost parser are instances of one relation, `TopStep`,
for which the invariant is shown once. `ReturnedFrame` says what a call returns;
`ContractKeptByAllFrames` discharges with it, for chains, what `Parser` assumes of
`SubResults`.

Only model-checked:

* liveness (`ParseTerminates`, `CallReturns`, `ChainTerminates`): fairness and ENABLED
  are out of the prover's reach;
* the three statements of section 5, which TLC refutes.

## 7. Abstractions to keep in mind

* An argument is a record of the parts the parser looks at (`ArgForms`); how
  it is cut at `=`, and whether it is number-like, are attributes of it.
  Cutting at commas is modelled in `ForwardedArguments`, and `Parser` takes its
  output (`pieces`).
* The errors of a result are a set; the ignored arguments and the commands are sequences.
  An error of an option that was reported before can therefore not be told from one
  that was forgotten.
* A filesystem may return a stream or none. What a file holds is whatever the
  nested stream delivers.
* User actions are those that `Environment` makes relevant: assign, exit, show
  the help and exit, add an error. An action that calls `notify_help_was_shown` and does not
  exit is left out; its result would have `helpWasShown` without `exitRequested`, which
  `ResultContract` excludes.
* Names and words have a size and no characters; a text is words and breaks between
  paragraphs. What `splitIntoWords` and `splitIntoParagraphs` recognise is left out. So is
  a block of nothing but blanks, which clears `startOfParagraph` without writing a word
  (`writer_impl.h:26-29`): there the number of blank lines may differ from the model's.
* A number is an element of the model's integers, of any width; a floating point
  number is one of seven classes.
* The setters of the fluent interface that only store data (metavar, help
  texts, choices, actions, defaults, titles) are left out of `ParameterConfig`.

## 8. Not modelled, and the plan

| part | reason or plan |
|---|---|
| life of the structure behind `add_parameters` | C++ object life; the library has no state for it (section 5) |
| setters that only store data | nothing reads them while the definition is built |
| `splitIntoWords`, `splitIntoParagraphs`, the regular expressions | conversions of texts that no state depends on; `Help` takes words and breaks |
| `ArgumentDescriber::describe_argument( name )` | a query for clients, not used by the formatter |
| `strtod` beyond its classes of values | external |
| `Notifier`, `exceptions.h` | types and one line on `std::cerr` |

Order of the work:

1. done: `Parser` with its state, its properties, its abstract contract and its proofs.
2. done: the calls around it, the chain of commands, the fluent interface, the
   result object, the forwarded lists, model-checked.
3. done: conversion, writer and help, model-checked; proofs about the
   conversion, the writer, the result object and the chain of commands.
4. done: proofs about the content of targets, about calls of `parse_args` and about
   the fluent interface, which discharge assumptions of the parser.
5. done: induction over sequences and with it the proofs about forwarded lists and about
   the help: its counts, its alignment and what it shows.

## 9. Running

    tlasany Parser.tla
    tlc -workers 2 -config MCParserFlow.cfg MCParser.tla
    tlc -workers 2 -config MCHelp.cfg MCHelp.tla
    tlapm ParserProofs.tla
    tlapm DefinitionProofs.tla
    tlapm HelpProofs.tla

`PROJECT.json` lists the components, runs, the source lines of every
definition, hazards, findings and theorems, and for every checked property a
change of a definition -- a plausible bug -- that makes the property fail.
