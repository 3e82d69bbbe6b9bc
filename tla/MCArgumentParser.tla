-------------------------- MODULE MCArgumentParser --------------------------
(***************************************************************************)
(* Small definitions for ArgumentParser: a required option that shares its *)
(* target with another one, an exclusive group of a flag and a list, a     *)
(* required group, defaults, choices, a help option and positionals.       *)
(***************************************************************************)
EXTENDS CallProperties, TLC

Attr(names, mn, mx, val) ==
  [ names |-> names, minArgs |-> mn, maxArgs |-> mx, required |-> FALSE,
    forwarded |-> FALSE, choices |-> {}, flagValue |-> "1", default |-> NoText,
    group |-> NoGroup, action |-> "assign", value |-> val ]

Arg(kind, names, text) ==
  [ kind |-> kind, names |-> names,
    whole |-> IF names = <<>> THEN "-x" ELSE names[1],
    value |-> NoText, pieces |-> <<>>, text |-> text, numberLike |-> FALSE,
    command |-> NoCommand ]

Word(t)  == Arg("word", <<>>, t)
Dash(ns) == Arg("dash", ns, "v")

MCTexts == {"0", "1", "v", "bad", "dflt"}

(* Every target is a number, except the string behind -g.                  *)
MCConvertible == [v \in Values |-> IF v = "gv" THEN MCTexts ELSE MCTexts \ {"bad"}]

(* The variables of the client hold a value of their own at first.         *)
MCInitialTargets ==
  [v \in Values |->
     IF v \in {"vec", "s"} THEN {initialTarget(v), [has |-> TRUE, items |-> <<"bad">>]}
                           ELSE {initialTarget(v)}]

-----------------------------------------------------------------------------
(* Definition 1: what a complete input is.                                 *)
FullNames == {"-r", "-a", "-f", "-l", "-g", "-h", "-x"}
FullDefined == <<"req", "alt", "flag", "list", "grp", "help">>
FullOptions == {"req", "alt", "flag", "list", "grp", "help"}
FullPositional == <<"pos">>
FullValues == {"s", "b", "vec", "gv", "pv", "void"}
FullKind == [v \in FullValues |-> CASE v = "vec" -> "vector" [] v = "void" -> "void"
                                    [] v = "pv" -> "optional" [] OTHER -> "scalar"]
FullDef ==
  [o \in FullOptions \cup {"pos"} |->
    CASE o = "req"  -> [Attr({"-r"}, 1, 1, "s") EXCEPT !.required = TRUE]
      [] o = "alt"  -> [Attr({"-a"}, 0, 1, "s") EXCEPT !.group = "G"]
      [] o = "flag" -> [Attr({"-f"}, 0, 0, "b") EXCEPT !.group = "X"]
      [] o = "list" -> [Attr({"-l"}, 0, -1, "vec") EXCEPT !.group = "X",
                                                          !.default = "dflt"]
      [] o = "grp"  -> [Attr({"-g"}, 0, 1, "gv") EXCEPT !.group = "G",
                                                        !.choices = {"v"}]
      [] o = "help" -> [Attr({"-h"}, 0, 0, "void") EXCEPT !.action = "help"]
      [] o = "pos"  -> Attr({}, 1, 1, "pv")]
FullArgs == { Word("v"), Word("bad"), Dash(<<"-r">>), Dash(<<"-a">>),
              Dash(<<"-l", "-f">>), Dash(<<"-g">>), Dash(<<"-h">>) }

-----------------------------------------------------------------------------
(* Definition 2: parameters with a default.                                *)
DefaultNames == {"-r", "-g", "-x"}
DefaultDefined == <<"req", "grp">>
DefaultOptions == {"req", "grp"}
DefaultPositional == <<"pos">>
DefaultValues == {"s", "gv", "pv"}
DefaultKind == [v \in DefaultValues |-> "scalar"]
DefaultDef ==
  [o \in DefaultOptions \cup {"pos"} |->
    CASE o = "req"  -> [Attr({"-r"}, 1, 1, "s") EXCEPT !.required = TRUE,
                                                       !.default = "dflt"]
      [] o = "grp"  -> [Attr({"-g"}, 1, 1, "gv") EXCEPT !.group = "G",
                                                        !.default = "dflt"]
      [] o = "pos"  -> [Attr({}, 1, 1, "pv") EXCEPT !.default = "dflt"]]
DefaultArgs == { Word("v"), Dash(<<"-r">>), Dash(<<"-g">>), Dash(<<"-x">>) }
PlainTargets == [v \in Values |-> {initialTarget(v)}]
NoSubResults == {}

=============================================================================
