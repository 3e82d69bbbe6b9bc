----------------------------- MODULE MCParser -----------------------------
(***************************************************************************)
(* Small definitions for Parser: options of every arity, two options and a *)
(* positional that share a vector, a numeric option, a forwarded list, a   *)
(* help flag, two positionals and a command.                               *)
(***************************************************************************)
EXTENDS ParserProperties, TLC

Attr(names, mn, mx, val) ==
  [ names |-> names, minArgs |-> mn, maxArgs |-> mx, required |-> FALSE,
    forwarded |-> FALSE, choices |-> {}, flagValue |-> "1", default |-> NoText,
    group |-> NoGroup, action |-> "assign", value |-> val ]

MCTexts == {"0", "1", "v", "bad", "-6"}

(* "bad" is a text no numeric target accepts.                              *)
MCConvertible == [v \in Values |-> MCTexts \ {"bad"}]

Arg(kind, names, value, pcs, text, number, cmd) ==
  [ kind |-> kind, names |-> names,
    whole |-> IF names = <<>> THEN "-x" ELSE names[1],
    value |-> value, pieces |-> pcs, text |-> text, numberLike |-> number,
    command |-> cmd ]

Word(t)        == Arg("word", <<>>, NoText, <<>>, t, FALSE, NoCommand)
CommandWord(c) == Arg("word", <<>>, NoText, <<>>, "v", FALSE, c)
Long(n)        == Arg("long", <<n>>, NoText, <<>>, "v", FALSE, NoCommand)
LongEq(n, v)   == Arg("long", <<n>>, v, <<>>, "v", FALSE, NoCommand)
Forwarded(n, ps) ==
  [Arg("long", <<n>>, Head(ps), ps, "v", FALSE, NoCommand) EXCEPT !.whole = "-x"]
Dash(ns)       == Arg("dash", ns, NoText, <<>>, "v", FALSE, NoCommand)
Number(ns)     == Arg("dash", ns, NoText, <<>>, "-6", TRUE, NoCommand)
At             == Arg("at", <<>>, NoText, <<>>, "v", FALSE, NoCommand)
DashDash       == Arg("dashdash", <<>>, NoText, <<>>, "v", FALSE, NoCommand)

NoSubResults == {}

Failing == [emptyResult EXCEPT !.errors = {[subject |-> "-x", code |-> "UNKNOWN_OPTION"]},
                               !.mustCheck = TRUE]
Exiting == requestExitIn([emptyResult EXCEPT !.helpWasShown = TRUE])

SomeSubResults ==
  { emptyResult, Failing, Exiting,
    [emptyResult EXCEPT !.ignoredArguments = <<"v">>] }

-----------------------------------------------------------------------------
(* Definition 1: arities, sharing, choices, numbers.                       *)
CountNames == {"-n", "--num", "-6", "-f", "-l", "-x"}
CountOptions == {"num", "six", "flag", "list"}
CountPositional == <<"pos", "rest">>
CountValues == {"i", "d", "b", "vec"}
CountKind == [v \in CountValues |->
                CASE v = "i" -> "optional" [] v = "vec" -> "vector"
                  [] OTHER -> "scalar"]
CountDef ==
  [o \in CountOptions \cup {"pos", "rest"} |->
    CASE o = "num"  -> Attr({"-n", "--num"}, 2, 2, "i")
      [] o = "six"  -> Attr({"-6"}, 0, 0, "d")
      [] o = "flag" -> [Attr({"-f"}, 0, 0, "b") EXCEPT !.choices = {"1"}]
      [] o = "list" -> Attr({"-l"}, 0, -1, "vec")
      [] o = "pos"  -> Attr({}, 1, 1, "d")
      [] o = "rest" -> [Attr({}, 2, 2, "vec") EXCEPT !.choices = {"v", "-6"}]]
CountArgs == { Word("v"), Word("bad"), LongEq("--num", "v"), Dash(<<"-n">>),
               Dash(<<"-l", "-f">>), Dash(<<"-x">>), Number(<<"-6">>),
               Number(<<"-x", "-6">>), DashDash }

-----------------------------------------------------------------------------
(* Definition 2: includes, exits, forwarding, commands.                    *)
FlowNames == {"-h", "--fwd", "--vec", "-x", "-e"}
FlowOptions == {"help", "fwd", "vec", "err"}
FlowPositional == <<"stop">>
FlowValues == {"void", "fv", "ov", "s"}
FlowKind == [v \in FlowValues |->
               CASE v = "void" -> "void" [] v = "fv" -> "vector"
                 [] v = "ov" -> "optvector" [] OTHER -> "scalar"]
FlowDef ==
  [o \in FlowOptions \cup {"stop"} |->
    CASE o = "help" -> [Attr({"-h"}, 0, 0, "void") EXCEPT !.action = "help"]
      [] o = "fwd"  -> [Attr({"--fwd"}, 1, -1, "fv") EXCEPT !.forwarded = TRUE]
      [] o = "vec"  -> Attr({"--vec"}, 0, -1, "ov")
      [] o = "err"  -> [Attr({"-e"}, 1, 1, "void") EXCEPT !.action = "error"]
      [] o = "stop" -> [Attr({}, 1, 1, "s") EXCEPT !.action = "exit"]]
FlowArgs == { Word("v"), CommandWord("cmd"), Long("--vec"), Long("--fwd"),
              Forwarded("--fwd", <<"v", "bad">>), Forwarded("--vec", <<"v">>),
              Dash(<<"-h", "-e">>), Dash(<<"-e", "-x">>), At, DashDash }

-----------------------------------------------------------------------------
(* Definition 3: an option with an optional value and a positional.        *)
PlainNames == {"-i", "--num", "-x"}
PlainOptions == {"int", "num"}
PlainPositional == <<"pos">>
PlainValues == {"i", "n", "p"}
PlainKind == [v \in PlainValues |-> "scalar"]
PlainDef ==
  [o \in PlainOptions \cup {"pos"} |->
    CASE o = "int"  -> Attr({"-i"}, 0, 1, "i")
      [] o = "num"  -> [Attr({"--num"}, 1, 1, "n") EXCEPT !.choices = {"v"}]
      [] o = "pos"  -> Attr({}, 1, 1, "p")]
PlainArgs == { Word("1"), Word("v"), Dash(<<"-i">>), Dash(<<"-i", "-i">>),
               LongEq("--num", "v"), LongEq("--num", "1"), DashDash }

=============================================================================
