--------------------------- MODULE HelpProperties ---------------------------
(***************************************************************************)
(* What a reader of the help may conclude from it.                         *)
(***************************************************************************)
EXTENDS Help

Finished == script = <<>> /\ writer # newWriter

-----------------------------------------------------------------------------
(* The numbers of values, up to some bound, that the words promise.        *)
promised(ws, bound) ==
  LET last == Len(ws) + 1
      from[i \in 1..last] ==
        IF i = last THEN {0}
        ELSE LET more == IF i + 1 = last THEN {1}
                         ELSE CASE ws[i + 1].role = "forever" -> 1..bound
                                [] ws[i + 1].role = "times"   -> 0..ws[i + 1].times
                                [] OTHER -> { n + 1 : n \in from[i + 1] }
             IN  IF ws[i].open > 0 THEN more \cup {0} ELSE more
  IN  from[1] \cap 0..bound

accepted(p, bound) ==
  { n \in 0..bound : n >= p.minArgs /\ (p.maxArgs < 0 \/ n <= p.maxArgs) }

(* The syntax shown for the values of a parameter admits as many values as *)
(* the parser accepts, for every way to give the count and any number of   *)
(* metavars, and its brackets are closed (argdescriber_impl.h:84-141).     *)
ArgumentsDenoteCounts ==
  \A p \in Defined :
    LET ws == argumentsOf(p)
    IN  /\ promised(ws, 7) = accepted(p, 7) \/ isCommand(p)
        /\ total([i \in 1..Len(ws) |-> ws[i].open]) = total([i \in 1..Len(ws) |-> ws[i].close])

-----------------------------------------------------------------------------
printed == FlattenSeq([i \in 1..Len(Lines) |-> Lines[i]])

placesOf(role) == { i \in 1..Len(printed) : printed[i].word.role = role }

(* The last heading in front of a place.                                   *)
under(i, text) ==
  \E h \in 1..(i - 1) : /\ printed[h].word.role = "heading" /\ printed[h].word.text = text
                        /\ \A k \in (h + 1)..(i - 1) : printed[k].word.role # "heading"

headingFor(p) ==
  IF p.group # NoGroup THEN Groups[p.group].title
  ELSE CASE isCommand(p) -> "commands:"
         [] p.kind = "positional" -> "positional"
         [] p.kind = "option" /\ p.required -> "required"
         [] p.kind = "option" /\ ~p.required -> "optional"

(* Where an entry belongs: commands last, required groups first, groups by *)
(* name, in a group by part and there in the order of definition.          *)
sortKey(args, i) ==
  << IF isCommand(args[i]) THEN 1 ELSE 0,
     IF groupRequired(args[i]) THEN 0 ELSE 1,
     groupName(args[i]),
     IF is_positional(args[i]) THEN 0 ELSE IF args[i].required THEN 1 ELSE 2,
     i >>

precedes(args, i, j) ==
  \E n \in 1..5 : /\ sortKey(args, i)[n] < sortKey(args, j)[n]
                  /\ \A m \in 1..(n - 1) : sortKey(args, i)[m] = sortKey(args, j)[m]

EntriesShow(args) ==
  LET entries == placesOf("entry")
  IN  \E shown \in [entries -> 1..Len(args)] :
        /\ \A k \in 1..Len(args) : \E i \in entries : shown[i] = k
        /\ \A i \in entries : /\ printed[i].word = formatArgument(args[shown[i]])[1]
                              /\ under(i, headingFor(args[shown[i]]))
        /\ \A i, j \in entries : i < j => precedes(args, shown[i], shown[j])

UsageShows(options) ==
  LET names == placesOf("usage")
  IN  \E named \in [names -> 1..Len(options)] :
        /\ \A k \in 1..Len(options) : \E i \in names : named[i] = k
        /\ \A i \in names : /\ printed[i].word.text = getName(options[named[i]])
                            /\ printed[i].word.open > 0 <=> ~options[named[i]].required
        /\ \A i, j \in names : i < j => named[i] < named[j]

(* The help shows what was defined: every parameter and command has one    *)
(* entry, under the heading that applies to it, there is no other entry,   *)
(* and the entries are in order.  If the client gives no usage of his own, *)
(* every option stands in it once, in the order of definition, in brackets *)
(* unless it is required                                                   *)
(* (helpformatter_impl.h:49-182, optionsorter_impl.h:10-55).               *)
HelpShowsDefinition ==
  Finished => /\ EntriesShow(describe_arguments(definition))
              /\ config.usage = <<>> => UsageShows(definition.options)

(* All lines of all descriptions start in one column; only the first line  *)
(* may start one column further right, where the argument before it ends   *)
(* exactly at that column (helpformatter_impl.h:112-128).                  *)
DescriptionsAligned ==
  LET column == descriptionIndent(describe_arguments(definition))
  IN  \A i \in 1..Len(Lines) : \A k \in 1..Len(Lines[i]) :
        LET piece == Lines[i][k]
        IN  piece.word.role = "help" =>
              IF k = 1 THEN piece.at = IF column > Width THEN Width ELSE column
              ELSE \/ Lines[i][k - 1].word.role = "help"
                   \/ piece.at = column
                   \/ piece.at = column + 1 /\ End(Lines[i][k - 1]) = column

=============================================================================
