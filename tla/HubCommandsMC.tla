--------------------------- MODULE HubCommandsMC ---------------------------
(* Small instances of HubCommands: two commands at a time, of either kind. *)
EXTENDS HubCommands

\* One specification of each kind that differs in what `auto apply` does.
MCForm == [active |-> "active", script |-> "script", scene |-> "scene", empty |-> "nothing"]

Job(op, spec) == [op |-> op, spec |-> spec]

MCAutoJobs ==
    [a1 |-> {Job("add", "active"), Job("add", "script"), Job("apply", "scene"),
             Job("delete", "scene"), Job("unscene", "scene")},
     a2 |-> {Job("add", "empty"), Job("apply", "empty"), Job("apply", "scene"),
             Job("delete", "scene"), Job("list", "scene")}]
MCAutoProcs == DOMAIN MCAutoJobs

\* Two speakers whose names share a word, of the two kinds that matter most:
\* one that plays from the cache and one that does not.
MCKind == [left |-> "hub", right |-> "cast", computer |-> "local"]
MCByName == <<"left", "right", "computer">>
MCNames ==
    [kitchen |-> [exact |-> {}, partial |-> {"left", "right"}],
     left |-> [exact |-> {"left"}, partial |-> {"left"}],
     right |-> [exact |-> {"right"}, partial |-> {"right"}]]

\* Everything, no hub speaker, or a computer without sound.
MCHouses == {{"left", "right", "computer"}, {"right", "computer"}, {"left", "right"}}

Play(by, who, parts) == [by |-> by, who |-> who, parts |-> parts]

MCSoundJobs ==
    [s1 |-> {Play("sound", "cli", <<>>), Play("sound", "cli", <<"speaker-all">>),
             Play("sound", "cli", <<"kitchen">>), Play("sound", "cli", <<"right", "speaker-all">>),
             Play("media", "cli", <<"speaker-all">>)},
     s2 |-> {Play("name", "ask", <<"right">>), Play("id", "test", <<"left">>)}]
MCSoundProcs == DOMAIN MCSoundJobs
=============================================================================
