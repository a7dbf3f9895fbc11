----------------------------- MODULE MCService -----------------------------
(***************************************************************************)
(* The instance of Service that TLC checks.                                *)
(***************************************************************************)
EXTENDS ServiceProperties

Once   == <<Flag("once")>>
DryRunFlag == <<Flag("dry-run")>>
Env    == <<Flag("env"), Word("once")>>
From   == <<Flag("from"), Word("run")>>
Save   == <<Flag("save"), Flag("once")>>
Age    == <<Attached("max-age")>>

(* One flag or two, with every command at every place.                      *)
MCIntents ==
    LET Groups == {Once, DryRunFlag, Env, From, Save}
        Lists  == {<<>>, <<Once>>, <<Age>>} \cup {<<g, h>> : g, h \in Groups}
    IN  UNION {{[before |-> SubSeq(fs, 1, n), cmd |-> c, after |-> SubSeq(fs, n + 1, Len(fs))]
                   : n \in 0 .. Len(fs), c \in {"", "run", "once", "status"}}
                : fs \in Lists}
=============================================================================
