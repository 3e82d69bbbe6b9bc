------------------------------- MODULE MCHelp -------------------------------
(***************************************************************************)
(* A narrow page: arguments end before, exactly at and after the column of *)
(* the descriptions, and words fit a line exactly or not at all.           *)
(***************************************************************************)
EXTENDS HelpProperties

sizes == [ n \in {"-a", "-b", "-c", "-e"} |-> 2 ] @@
         [ n \in {"--beta"} |-> 6 ] @@ [ n \in {"--wide-option"} |-> 13 ] @@
         [ n \in {"--c", "...", "out"} |-> 3 ] @@ [ n \in {"--must", "{0..n}", "BETA"} |-> 6 ] @@
         [ n \in {"A", "B", "C", "W"} |-> 1 ] @@ [ n \in {"file", "init", "MUST"} |-> 4 ] @@
         [ n \in {"grp:", "req:"} |-> 4 ] @@ [ n \in {"usage:"} |-> 6 ] @@
         [ n \in {"commands:", "<command>"} |-> 9 ] @@
         [ n \in {"positional", "arguments:"} |-> 10 ] @@
         [ n \in {"required", "optional"} |-> 8 ] @@
         [ n \in {"four"} |-> 4 ] @@ [ n \in {"eleven"} |-> 11 ] @@ [ n \in {"endless"} |-> 30 ]
MCSize == sizes

MCCased == [n \in {"-a", "-b", "-c", "-e", "--c"} |-> "C"] @@ [n \in {"--beta"} |-> "BETA"]
           @@ [n \in {"--wide-option"} |-> "W"] @@ [n \in {"--must"} |-> "MUST"]
           @@ [n \in {"file", "out"} |-> n]

t(name) == word(name, "text")
h(name) == word(name, "help")

MCGroups == [ grp |-> [title |-> "grp:", rank |-> 1, required |-> FALSE,
                       description |-> << t("four"), t("eleven") >>],
              req |-> [title |-> "req:", rank |-> 2, required |-> TRUE,
                       description |-> <<>>] ]

Param(kind, short, long, counts, required, metavar, group, help) ==
  [ kind |-> kind, short |-> short, long |-> long, minArgs |-> counts[1],
    maxArgs |-> counts[2], required |-> required, metavar |-> metavar,
    group |-> group, help |-> help ]

Layout ==
  { Param("option", "-b", "--beta", <<0, 0>>, FALSE, <<>>, "", << h("four"), h("four"), h("eleven") >>),
    Param("option", "", "--wide-option", <<1, -1>>, FALSE, <<"A", "B", "C">>, "", << h("eleven"), h("four") >>),
    Param("option", "", "--must", <<1, 1>>, TRUE, <<>>, "", << h("endless"), Break, h("four") >>),
    Param("option", "-a", "", <<0, 2>>, FALSE, <<"A">>, "grp", <<>>),
    Param("option", "-c", "--c", <<0, -1>>, TRUE, <<"A", "B">>, "req", << h("four"), Break >>),
    Param("positional", "", "file", <<1, 1>>, TRUE, <<>>, "", << h("four") >>),
    Param("positional", "", "out", <<0, -1>>, FALSE, <<>>, "grp", << h("four") >>),
    Param("command", "", "init", <<0, 0>>, FALSE, <<>>, "", << h("four") >>) }

(* Every shape of the bounds with one to three metavars.                   *)
Shapes ==
  { Param("option", "-e", "", c, c[1] > 0, m, "", <<>>) :
      c \in { <<n, n>> : n \in 1..3 } \cup { <<n, -1>> : n \in 0..3 } \cup { <<0, n>> : n \in 1..4 },
      m \in { <<"A">>, <<"A", "B">>, <<"A", "B", "C">> } }

MCParameters == Layout \cup Shapes

MCConfigs ==
  { [program |-> << t("four") >>, usage |-> <<>>, description |-> << t("eleven") >>,
     epilog |-> << t("four"), Break, t("eleven") >>],
    [program |-> <<>>, usage |-> << t("four") >>, description |-> <<>>, epilog |-> <<>>] }
=============================================================================
