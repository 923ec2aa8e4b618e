----------------------------- MODULE MCWorkflow ------------------------------
(* Small workflows for TLC: parallel groups with a repeated function, an     *)
(* empty group, a group naming an unregistered function, sequences, and the  *)
(* empty workflow.                                                           *)
EXTENDS Workflow

MCNames == {"libc", "map", "reduce", "ghost"}

Features == {{}, {"namespace"}, {"enable_mpk"}, {"namespace", "enable_mpk"}}

Conf(a, g) == [apps : {a}, groups : {g}, services : {{"libc"}}, features : Features]

MCConfigs == UNION {
    Conf(<<"map", "reduce">>, <<<<"map", "map">>, <<"reduce">>>>),
    Conf(<<"map", "reduce">>, <<<<"map", "reduce", "map">>, <<>>, <<"map">>>>),
    Conf(<<"map">>, <<<<"map">>, <<"map", "ghost">>>>),
    Conf(<<"map", "reduce", "map">>, <<>>),
    Conf(<<>>, <<>>)}
==============================================================================
