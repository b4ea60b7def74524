------------------------------ MODULE MCCliApp ------------------------------
(* An application with a version, a command with a sub-command, a command  *)
(* named help and an option with the short name h of its own under one of  *)
(* them, and an exit that returns a value for the help of the application. *)
EXTENDS CliApp, TLC

Root == <<"app">>
Plain == Root :> <<Entry("command", "make"), Entry("option", "other")>>
  @@ <<"app", "make">> :> <<Entry("command", "all"), Entry("command", "help"), Entry("option", "all")>>
  @@ <<"app", "make", "all">> :> <<HelpOption, Entry("command", "make")>>
  @@ <<"app", "make", "all", "make">> :> <<>>
  @@ <<"app", "make", "help">> :> <<>>

RootOnly == {Root}

FailingOnly == {<<"app", "make", "all">>, <<"app", "help">>}

Shorts == [n \in Names |-> CASE n \in {"help", "all"} -> "h"
                             [] n = "version" -> "V"
                             [] OTHER -> n]

Hiding == [help : BOOLEAN, version : {FALSE}] \cup [help : {FALSE}, version : BOOLEAN]

AllLines ==
  { <<>>, <<"--help">>, <<"--version">>, <<"--other", "make">>, <<"version">>,
    <<"version", "--help">>, <<"help">>, <<"help", "make">>, <<"help", "--help">>,
    <<"help", "none">>, <<"none">>, <<"make", "version">>, <<"make", "all">>,
    <<"make", "all", "help">>, <<"make", "--help">>, <<"--version", "--version">>,
    <<"help", "--help", "--help">>,
    <<"make", "help">>, <<"make", "--version", "all">>, <<"make", "--other">> }
=============================================================================
