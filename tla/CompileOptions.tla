--------------------------- MODULE CompileOptions ---------------------------
(***************************************************************************)
(* Compile options, and how the database keeps them: one text for the      *)
(* defines and one for the include directories (db/src/sqlqueries.cpp).    *)
(* A text is a sequence of tokens; ';' and '=' are tokens of their own.    *)
(* Options are a function from names to values, defines, and a set of      *)
(* texts, includedirs, as in the code.                                     *)
(***************************************************************************)
EXTENDS Selection, SequencesExt

CONSTANT Token  \* what texts are made of

Sep == ";"
Eq == "="

ASSUME TokenAssumption == {Sep, Eq} \subseteq Token

Text == Seq(Token)

(* The elements of a list with separators in between. *)
Join(list) ==
    IF list = <<>> THEN <<>>
    ELSE Folded([p \in Text \X Text |-> p[1] \o <<Sep>> \o p[2]], Head(list), Tail(list))

(* std::map and std::set sort their elements, which no property tells apart *)
Field(name, value) == IF value = <<>> THEN name ELSE name \o <<Eq>> \o value
JoinDefines(defines) ==
    Join(SetToSeq({Field(name, defines[name]) : name \in DOMAIN defines}))

JoinIncludeDirs(includedirs) == Join(SetToSeq(includedirs))

(* the fields between separators, of which there is always one *)
Split(text) == Cut(Token, Sep, text)

(* What defines[str] = "" or, when str holds a '=', defines[name] = value leaves behind: of
   the fields that give a name its value, the last one counts. *)
EqIn(str) == SelectInSeq(str, LAMBDA token : token = Eq)
NameIn(str) == IF EqIn(str) = 0 THEN str ELSE SubSeq(str, 1, EqIn(str) - 1)
ValueIn(str) == IF EqIn(str) = 0 THEN <<>> ELSE SubSeq(str, EqIn(str) + 1, Len(str))
DefinesOf(fields) ==
    LET last(name) == Max({i \in DOMAIN fields : NameIn(fields[i]) = name})
    IN  [name \in {NameIn(str) : str \in Range(fields)} |-> ValueIn(fields[last(name)])]

SplitDefines(text) == DefinesOf(Selected(Text \ {<<>>}, Split(text)))

SplitIncludes(text) == Range(Split(text)) \ {<<>>}

(* the columns of a row of table compileoptions, and the options read from one *)
Columns(options) ==
    [defines |-> JoinDefines(options.defines), includedirs |-> JoinIncludeDirs(options.includedirs)]
Loaded(row) ==
    [defines |-> SplitDefines(row.defines), includedirs |-> SplitIncludes(row.includedirs)]

(* what program::CompileOptions holds *)
IsOptions(options) ==
    LET defines == options.defines
        dirs == options.includedirs
    IN  /\ options = [defines |-> defines, includedirs |-> dirs]
        /\ IsFiniteSet(DOMAIN defines) /\ IsFiniteSet(dirs)
        /\ defines = [name \in DOMAIN defines |-> defines[name]]
        /\ \A name \in DOMAIN defines : name \in Text /\ defines[name] \in Text
        /\ \A dir \in dirs : dir \in Text

(* no text of the options holds a token that its column takes for a separator *)
Unambiguous(options) ==
    /\ \A name \in DOMAIN options.defines :
          {Sep, Eq} \cap Range(name) = {} /\ Sep \notin Range(options.defines[name])
    /\ \A dir \in options.includedirs : Sep \notin Range(dir)

(* the options without what leaves no token behind *)
Named(options) ==
    LET names == {name \in DOMAIN options.defines : Field(name, options.defines[name]) # <<>>}
    IN  [defines |-> [name \in names |-> options.defines[name]],
         includedirs |-> options.includedirs \ {<<>>}]
=============================================================================
