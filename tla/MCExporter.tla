----------------------------- MODULE MCExporter -----------------------------
(***************************************************************************)
(* Every project of up to MaxFiles of eight files: folders in folders,     *)
(* folders and files whose names begin alike, files at the top, and paths  *)
(* with little or nothing in common.                                       *)
(***************************************************************************)
EXTENDS Exporter

CONSTANT MaxFiles

MCFile ==
    {<<"/", "h", "/", "p", "/", "a", "/", "x">>,
     <<"/", "h", "/", "p", "/", "a", "/", "b", "/", "x">>,
     <<"/", "h", "/", "p", "/", "a", "b", "/", "x">>,
     <<"/", "h", "/", "p", "/", "a", "b", "/", "b", "/", "x">>,
     <<"/", "h", "/", "p", "/", "a", "b">>,
     <<"/", "h", "/", "p", "/", "x">>,
     <<"/", "h", "a", "/", "x">>,
     <<"/", "q", "/", "x">>}

(* a source that two projects list is there twice *)
MCProjects == SeqOf(MCFile, MaxFiles)

(* what filePath may leave of a path, and every folder around that *)
Ancestors(p) == {SubSeq(p, 1, i - 1) : i \in Slashes(p)} \cup
                (IF IsAbsolute(p) THEN {<<"/">>} ELSE {})
MCFolder ==
    UNION {Ancestors(SubSeq(f, k, Len(f))) : f \in MCFile, k \in {2, 3, 4, 5, 6, 8}} \ {<<>>}

MCNoFolder == <<>>

MCChars == <<"a", "b", "h", "p", "q", "x", "1", "2", ".html", "index.html", "symbols", "/">>
MCRank == [c \in Range(MCChars) |-> CHOOSE i \in DOMAIN MCChars : MCChars[i] = c]

MCOrder == {pair \in MCFolder \X MCFolder : PathBefore(pair[1], pair[2])}
MCBefore(c, d) == <<c, d>> \in MCOrder

(* outputdir itself, a folder in it, and elsewhere *)
MCWorkDirs == {<<>>, << <<"a">> >>, << <<"..">> >>}

MCPresent == {<<"a">>}

MCSymbols == << <<"1">>, <<"2", "/">> >>
=============================================================================
