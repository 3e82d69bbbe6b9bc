------------------------- MODULE MCParameterConfig -------------------------
(***************************************************************************)
(* A client that tries every kind of name, reopens groups with different   *)
(* capitals and takes the names of the help options.                       *)
(***************************************************************************)
EXTENDS DefinitionProperties, TLC

MCNameLists == { <<"-a", "--all">>, <<"--all", "">>, <<"-h", "">>, <<"--help", "-a">>,
                 <<"arg", "">>, <<"-a", "arg">>, <<"", "">>, <<"--", "">>,
                 <<"-ab", "">>, <<"a b", "">> }
MCCounts == {-1, 2}
MCLower == [g \in {"g", "G", ""} |-> IF g = "" THEN "" ELSE "g"]
=============================================================================
