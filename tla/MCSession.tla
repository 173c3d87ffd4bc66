----------------------------- MODULE MCSession -----------------------------
(* Session on small sets: three configuration texts of which two disagree   *)
(* about a field the schema does not know, one source file, two builds.     *)
EXTENDS Session, TLC

CONSTANTS b1, b2, s1

MCBuildFile == {b1, b2}

Shared   == ("flags" :> [scalar |-> <<"-Wall">>]) @@ ("index" :> [array |-> <<"rtl">>])
            @@ ("x-tool" :> [array |-> <<"a">>])
Personal == ("flags" :> [scalar |-> <<"-DP">>]) @@ ("build" :> [scalar |-> b1])
Clashing == ("index" :> [array |-> <<"tb">>]) @@ ("x-tool" :> [scalar |-> "a"])

MCConfText == [workspace |-> {Absent, Shared}, user |-> {Absent, Personal},
               local |-> {Absent, Malformed, Clashing}]
=============================================================================
