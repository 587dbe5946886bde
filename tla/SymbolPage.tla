----------------------------- MODULE SymbolPage -----------------------------
(***************************************************************************)
(* The page of a symbol (exporter/src/symbolpage.cpp), written with a      *)
(* writer of its own once the pages of files are there: what the symbol    *)
(* is, its declarations, its definitions, and its uses with the lines they *)
(* are on.  The lines are cut with the column that was stored, by which    *)
(* the lexer is started in the middle of a line.  The same lexer goes on   *)
(* from use to use of a file without being reset, so a use is read as what *)
(* the line of the use before has left open.                               *)
(*                                                                         *)
(* Page is the only file with a content.  That a row of table base or a    *)
(* parent refers to a symbol that is not there, and a reference to a file  *)
(* that is not, is left out: no such row is written (module Snapshot).     *)
(***************************************************************************)
EXTENDS FilePage

CONSTANTS NoSymbol,
          ParentOf,  \* of each symbol, its parent or NoSymbol
          BaseRows,  \* the rows of table base: classes and bases
          NbFlags,   \* of each symbol, how many of its flags have a name
          Angled,    \* the symbols with a '<' or a '&' in their USR
          LexerState,
          Fresh,     \* the state of a new lexer
          Lexed(_, _, _)
             \* the first token that the lexer finds in a line from a character on, which is none
             \* if it ends at 0, and the state it is in when it has read the rest of the line

(* the tokens that a name is made of *)
NameType == {"plain", "keyword", "type"}

(* the columns of references start at 1 *)
ASSUME SymbolPageAssumption ==
    /\ NoSymbol \notin SymbolId
    /\ ParentOf \in [SymbolId -> SymbolId \cup {NoSymbol}]
    /\ BaseRows \in Seq(SymbolId \X SymbolId)
    /\ NbFlags \in [SymbolId -> Nat] /\ Angled \subseteq SymbolId
    /\ \A rows \in Database : \A k \in DOMAIN rows : rows[k].col # 0

(* Where a token of a name begins, a lexer finds a token in whatever state it is, and a new
   one finds that token. *)
ASSUME LexerAssumption ==
    /\ Fresh \in LexerState
    /\ \A state \in LexerState, l \in DOMAIN Tokens : \A c \in 1..Lengths[l] :
          LET found == Lexed(state, l, c)
          IN  /\ found \in [first : Nat, last : 0..Lengths[l], after : LexerState]
              /\ found.last # 0 => c <= found.first /\ found.first <= found.last
              /\ \A t \in DOMAIN Tokens[l] :
                    Tokens[l][t].col + 1 = c /\ Tokens[l][t].type \in NameType =>
                        /\ found.last # 0 /\ found.first = c
                        /\ state = Fresh => found.last = Tokens[l][t].col + Tokens[l][t].width

VARIABLES
    symbol,       \* the symbol whose page is written, or NoSymbol
    stage,        \* where its page is
    refs,         \* the references of the symbol
    decls, defs,  \* those taken out of them
    use, last,    \* begin in refs, and the last reference in the same file
    lexer         \* the state that the lexer for the uses in that file is in

symbolVars == <<symbol, stage, refs, decls, defs, use, last, lexer>>

SymbolPageInit ==
    /\ symbol = NoSymbol /\ stage = "none"
    /\ refs = <<>> /\ decls = <<>> /\ defs = <<>>
    /\ use = 1 /\ last = 0 /\ lexer = Fresh
-----------------------------------------------------------------------------
(* the name of another symbol, with a link to its page *)
SymbolLink(attributes, id) ==
    Element("a", attributes \o AttributeOf("href", <<"symbol", id>>, id \in Quoted))
        \o Characters(Words) \o End

Parents(id) == IF ParentOf[id] = NoSymbol THEN <<>> ELSE <<ParentOf[id]>>

(* listBaseClasses and listDerivedClasses; only a class or a struct has them *)
BasesOf(id) ==
    LET rows == IF Kind[id] = "class" THEN Selected({row \in Range(BaseRows) : row[1] = id}, BaseRows)
                ELSE <<>>
    IN  [k \in DOMAIN rows |-> rows[k][2]]
DerivedOf(id) ==
    LET rows == IF Kind[id] = "class" THEN Selected({row \in Range(BaseRows) : row[2] = id}, BaseRows)
                ELSE <<>>
    IN  [k \in DOMAIN rows |-> rows[k][1]]

(* a paragraph of links, each followed by a comma or a full stop *)
Listing(ids, attributes) ==
    IF ids = <<>> THEN <<>>
    ELSE Element("p", <<>>) \o Characters(Words)
            \o FlattenSeq([k \in DOMAIN ids |-> SymbolLink(attributes, ids[k]) \o Characters(Words)])
            \o End

(* writeSummary: the USR is put to the stream as it is *)
Summary(id) ==
    Element("p", <<>>)
    \o FlattenSeq([k \in 1..NbFlags[id] |->
           Element("span", Attribute("class", "symbol-flag"))
               \o Characters(Words) \o Characters(Words) \o Characters(Words) \o End])
    \o End
    \o (IF Parents(id) = <<>> THEN <<>>
        ELSE Element("p", <<>>) \o Characters(Words) \o SymbolLink(<<>>, ParentOf[id]) \o End)
    \o Listing(BasesOf(id), Attribute("class", "base")) \o Listing(DerivedOf(id), <<>>)
    \o Bytes(IF id \in Angled THEN "broken" ELSE "markup")

(* select_from_symbolreference *)
Rows(id) == Selected({row \in Range(db) : row.symbol = id}, db)

(* writePage with a writer of its own, down to listReferences *)
StartSymbolPage(id) ==
    /\ PageWritten
    /\ step' = "symbols" /\ symbol' = id /\ stage' = "extract"
    /\ refs' = Rows(id)
    /\ elements' = <<>> /\ stream' = <<>>
    /\ calls' = Bytes("markup") \o Element("html", <<>>) \o Title(Words) \o Stylesheet(<<>>) \o End
                \o Element("body", <<>>) \o TextElement("h1", <<>>, Words) \o Summary(id)
    /\ UNCHANGED <<decls, defs, use, last, lexer>>
-----------------------------------------------------------------------------
Found == {k \in DOMAIN refs : IsDeclOrDef(refs[k])}

(* mutant of ExtractOne: the reference behind the one that is erased is not looked at *)
ExtractBehind ==
    /\ stage = "extract" /\ Found # {}
    /\ LET it == Min(Found)
       IN  /\ IF "declaration" \in refs[it].flags
              THEN decls' = Append(decls, refs[it]) /\ UNCHANGED defs
              ELSE defs' = Append(defs, refs[it]) /\ UNCHANGED decls
           /\ refs' = SubSeq(refs, 1, it - 1) \o SubSeq(refs, it + 2, Len(refs))
    /\ UNCHANGED <<symbol, stage, use, last, lexer, xmlVars>>

(* extract_decl_and_defs, one iteration *)
ExtractOne ==
    /\ stage = "extract" /\ Found # {}
    /\ LET it == Min(Found)
       IN  /\ IF "declaration" \in refs[it].flags
              THEN decls' = Append(decls, refs[it]) /\ UNCHANGED defs
              ELSE defs' = Append(defs, refs[it]) /\ UNCHANGED decls
           /\ refs' = RemoveAt(refs, it)
    /\ UNCHANGED <<symbol, stage, use, last, lexer, xmlVars>>

LineLink(r) == Element("a", Attribute("href", <<"file", r.file, r.line>>)) \o Characters(Words) \o End

Heading(counted) ==
    Element("h2", <<>>) \o Characters(Words)
        \o (IF counted THEN Bytes("number") \o Characters(Words) ELSE <<>>) \o End

(* writeDecls *)
Mentions(list) ==
    FlattenSeq([k \in DOMAIN list |-> Element("p", <<>>) \o LineLink(list[k]) \o End])

WriteSections ==
    /\ stage = "extract" /\ Found = {} /\ Idle
    /\ Calls((IF decls = <<>> THEN <<>> ELSE Heading(TRUE) \o Mentions(decls))
             \o (IF defs = <<>> THEN <<>> ELSE Heading(Len(defs) > 1) \o Mentions(defs))
             \o (IF refs = <<>> THEN <<>> ELSE Heading(TRUE)))
    /\ stage' = "uses"
    /\ UNCHANGED <<symbol, refs, decls, defs, use, last, lexer>>
-----------------------------------------------------------------------------
AtFile == stage = "uses" /\ use = last + 1 /\ use <= Len(refs) /\ Idle

RunEnd == CHOOSE k \in use..Len(refs) :
    /\ \A j \in use..k : refs[j].file = refs[use].file
    /\ k < Len(refs) => refs[k + 1].file # refs[use].file

(* writeUses, and writeUsesInFile up to its loop *)
BeginUsesInFile ==
    /\ AtFile /\ refs[use].file = Page
    /\ Calls(Element("h3", <<>>) \o Characters(Words) \o Characters(Words) \o Bytes("number")
             \o Characters(Words) \o End)
    /\ last' = RunEnd /\ lexer' = Fresh
    /\ UNCHANGED <<symbol, stage, refs, decls, defs, use>>

(* the file has no content *)
SkipUsesInFile ==
    /\ AtFile /\ refs[use].file # Page
    /\ last' = RunEnd /\ use' = RunEnd + 1
    /\ UNCHANGED <<symbol, stage, refs, decls, defs, lexer, xmlVars>>

AtUse == stage = "uses" /\ use <= last /\ Idle

(* the token the lexer finds when it starts at this character in the state it is in *)
FoundToken(r) == Lexed(lexer, r.line, r.col)

FirstToken(r) == SubSeq(LineText(r.line), FoundToken(r).first, FoundToken(r).last)

(* otherwise the file is not what it was: at() or substr() throws, or no token is found *)
IsThere(r) ==
    /\ r.line \in DOMAIN Tokens
    /\ "implicit" \in r.flags \/ (r.col <= Len(LineText(r.line)) /\ FoundToken(r).last # 0)

(* the line: its beginning, the token and what follows that; the token is taken to begin
   where the lexer was started *)
CodeOf(r) ==
    LET text  == LineText(r.line)
        token == FirstToken(r)
    IN  IF "implicit" \in r.flags THEN Characters(text)
        ELSE Characters(SubSeq(text, 1, r.col - 1))
             \o TextElement("span", Attribute("class", "here"), token)
             \o Characters(SubSeq(text, r.col + Len(token), Len(text)))

(* only the list of tokens is cleared; the line of an implicit use is not read *)
LexerBehind(r) == IF "implicit" \in r.flags THEN lexer ELSE FoundToken(r).after

WriteUse ==
    /\ AtUse /\ IsThere(refs[use])
    /\ Calls(Element("div", Attribute("class", "use"))
             \o Element("div", Attribute("class", "ln")) \o LineLink(refs[use]) \o End
             \o Element("div", Attribute("class", "code")) \o CodeOf(refs[use]) \o End \o End)
    /\ use' = use + 1 /\ lexer' = LexerBehind(refs[use])
    /\ UNCHANGED <<symbol, stage, refs, decls, defs, last>>

(* an exception leaves run(), or an empty list is read: the export ends here *)
FailUse ==
    /\ AtUse /\ ~IsThere(refs[use])
    /\ stage' = "failed"
    /\ UNCHANGED <<symbol, refs, decls, defs, use, last, lexer, xmlVars>>

EndSymbolPage ==
    /\ stage = "uses" /\ use = last + 1 /\ use > Len(refs) /\ Idle
    /\ Calls(End \o End)
    /\ stage' = "written"
    /\ UNCHANGED <<symbol, refs, decls, defs, use, last, lexer>>

(* the pages share the rows and the table of definitions, and nothing else *)
SymbolPageNext ==
    /\ \/ \E id \in SymbolId : StartSymbolPage(id)
       \/ /\ UNCHANGED step
          /\ \/ ExtractOne \/ WriteSections
             \/ BeginUsesInFile \/ SkipUsesInFile \/ WriteUse \/ FailUse
             \/ EndSymbolPage
    /\ UNCHANGED <<tableVars, db, listVars, lineVars, notes>>
-----------------------------------------------------------------------------
PagesInit == PageInit /\ SymbolPageInit

PagesNext == (PageNext /\ UNCHANGED symbolVars) \/ SymbolPageNext

PagesSpec == PagesInit /\ [][PagesNext]_<<tableVars, pageVars, symbolVars>>
-----------------------------------------------------------------------------
LinksTo(f, l) ==
    {k \in DOMAIN stream :
        /\ stream[k].kind = "attribute" /\ stream[k].what.name = "href"
        /\ stream[k].what.value = <<"file", f, l>>}

Related(id) == Range(Parents(id) \o BasesOf(id) \o DerivedOf(id))

(* a new lexer would not be like new behind the line of this use *)
LeavesOpen(r) == "implicit" \notin r.flags /\ Lexed(Fresh, r.line, r.col).after # Fresh

(* The page of a symbol is markup, but for one with a '<' or '&' in its USR and one that
   links to a symbol with a quote in its name.  It mentions every reference to its symbol
   once, except for the uses in a file without a content.  Beside each use is the line it is
   on, with its blanks; and where a token that a name is made of begins at the column of the
   use, what is set off of the line begins there too, and is that token alone unless the line
   of a use before has left something open, a comment for instance. *)
SymbolPageIsRight ==
    stage = "written" /\ Idle =>
        LET rows  == Rows(symbol)
            shown == Selected({row \in Range(rows) : ~IsDeclOrDef(row) /\ row.file = Page}, rows)
            cell(k) == Reading.cells[k]
            set(k) == Selected({c \in Range(cell(k)) : c.in = "span"}, cell(k))
            off(k) == [c \in DOMAIN set(k) |-> set(k)[c].char]
        IN  /\ ReadsWell = (symbol \notin Angled /\ Related(symbol) \cap Quoted = {})
            /\ \A row \in Range(rows) :
                  Cardinality(LinksTo(row.file, row.line))
                      = Cardinality({k \in DOMAIN rows :
                            /\ rows[k].file = row.file /\ rows[k].line = row.line
                            /\ IsDeclOrDef(rows[k]) \/ row.file = Page})
            /\ Len(Reading.cells) = Len(shown)
            /\ \A k \in DOMAIN shown :
                  LET l == shown[k].line
                  IN  IF "implicit" \in shown[k].flags
                      THEN CellText(k) = LineText(l) /\ set(k) = <<>>
                      ELSE \A t \in DOMAIN Tokens[l] :
                              Tokens[l][t].col + 1 = shown[k].col /\ Tokens[l][t].type \in NameType =>
                                  /\ CellText(k) = LineText(l)
                                  /\ \E end \in shown[k].col..Lengths[l] :
                                        off(k) = SubSeq(LineText(l), shown[k].col, end)
                                  /\ (\A j \in 1..k - 1 : ~LeavesOpen(shown[j])) => off(k) = TokenText(l, t)
=============================================================================
