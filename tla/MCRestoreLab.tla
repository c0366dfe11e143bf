----------------------------- MODULE MCRestoreLab -----------------------------
(* Values for the constants of RestoreLab in the runs of TLC.                *)
EXTENDS RestoreLab, DumpText, TLC

CONSTANTS p1, p2, b1, b2

Sym == Permutations({p1, p2})

\* Two of the five databases, in the orders of the two programs.
Sorted == <<"smartinstall", "tpvision">>
LabOrder == <<"tpvision", "smartinstall">>

\* A dump of SmartInstall names its schema in code and in a literal; the other archive
\* holds a dump that names another schema.
Texts == (b1 :> ("smartinstall" :> <<"windows", "newline", "history", "newline",
                                     "executable", "definer", "close", "quote",
                                     "windows", "quote">> @@
                 "tpvision" :> <<"open", "windows", "close">>)) @@
         (b2 :> ("smartinstall" :> <<"history", "newline", "definer">> @@
                 "tpvision" :> <<"quote", "foreign", "quote">>))
DefinerCount == "smartinstall" :> 1 @@ "tpvision" :> 0

\* Every dump of up to four tokens of the first set, and of up to five of one of the others.
Tokens == Mark \cup {"windows", "definer", "forbidden", "history"}
Sets   == {{"quote", "executable", "close", "hash", "newline", "windows"},
           {"open", "separator", "close", "newline", "windows", "history"},
           {"backtick", "quote", "executable", "close", "definer", "owner"}}
Short  == Len(sql) < 4 /\ \A i \in DOMAIN sql : sql[i] \in Tokens
Deep(t) == Len(sql) < 5 /\ \E set \in Sets : t \in set /\ \A i \in DOMAIN sql : sql[i] \in set

Grow ==
    /\ prepares = 0 /\ commands = 0
    /\ \E t \in Token : ((Short /\ t \in Tokens) \/ Deep(t)) /\ Lengthen(t)
    /\ UNCHANGED <<prepareVars, labVars>>

MCInit == Init /\ sql = <<>>
MCNext == Grow \/ (Next /\ sql = <<>> /\ UNCHANGED sql)
MCSpec == MCInit /\ [][MCNext]_<<prepareVars, labVars, sql>>
=============================================================================
