----------------------------- MODULE ScriptRunsMC -----------------------------
(* The first slot runs everything: a debounced script, one that fires      *)
(* requests together, one that goes on while its first operation fails,    *)
(* one that awaits an answer after that, one with an endless line, one     *)
(* that runs another script and then consults its guard, and one that      *)
(* writes a file.  The second one is there for the state file, and to be   *)
(* called by the first.                                                    *)
EXTENDS ScriptRuns

Scripts ==
    << { <<"guard", "device">>,
         <<"read", "read", "read", "read", "await">>,
         <<"device", "device", "device">>,
         <<"device", "read", "await">>,
         <<"huge">>,
         <<"set", "run", "await", "guard">>,
         <<"write", "await">> },
       { <<"guard">>,
         <<"log", "set">>,
         <<"delete", "throw">> } >>
=============================================================================
