----------------------------- MODULE MCSnapshot -----------------------------
(***************************************************************************)
(* Two programs: one that makes any calls, with a snapshot of two files    *)
(* and one symbol that is closed, crashed and opened again (todo is Null), *)
(* and the scan of a solution.                                             *)
(***************************************************************************)
EXTENDS SolutionScan

CONSTANTS FreePath,  \* the paths that the first program uses
          MaxOps     \* bound: its calls, one less if commits fail

Name(n) == <<n>>

MCOptions ==
    {[defines |-> (Name("N") :> Name("1")) @@ (Name("M") :> <<>>), includedirs |-> {Name("i"), Name("j")}],
     [defines |-> (<<>> :> Name("1")), includedirs |-> {<<>>, Name("i")}],
     [defines |-> (Name("=") :> <<>>), includedirs |-> {<<"i", ";", "j">>}]}

Project(headers, sources, defines, dirs) ==
    [includeList |-> headers, compileList |-> sources, defines |-> defines, includedirs |-> dirs]

MCSolution ==
    {<<Project(<<"h">>, <<"a">>, << <<"N", "=", "1">>, <<"M">> >>, << <<"i">>, <<"j">> >>),
       Project(<<"h">>, <<"b", "a">>, << <<"=", "1">> >>, << <<>>, <<"i">> >>)>>,
     <<Project(<<"h">>, <<"a">>, Null, Null),
       Project(<<>>, <<"b">>, << <<"=", "1">> >>, << <<"i">>, <<>>, <<"i">> >>)>>}

FreeInit ==
    /\ InitFor(MaxOps, 0) \/ InitFor(MaxOps - 1, MaxBusy)
    /\ CachesInit
    /\ text = [p \in Path |-> IF p \in FreePath THEN CHOOSE w \in Wording : TRUE ELSE Null]
    /\ todo = Null

Init == FreeInit \/ ScanInit

Next ==
    \/ todo = Null /\ Using(FreePath) /\ UNCHANGED todo
    \/ todo # Null /\ Scanning

Spec == Init /\ [][Next]_<<vars, cacheVars, todo>>
=============================================================================
