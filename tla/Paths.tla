-------------------------------- MODULE Paths --------------------------------
(***************************************************************************)
(* The part of std::filesystem::path that the exporter uses, for generic   *)
(* paths as POSIX reads them.  A path is a sequence of characters, because *)
(* the exporter cuts paths as strings as well; its names are what stands   *)
(* between the slashes, the root folder being the name "/".                *)
(***************************************************************************)
EXTENDS Selection, SequencesExt

CONSTANT Rank  \* the order of characters

Char == DOMAIN Rank

Slashes(p) == {i \in DOMAIN p : p[i] = "/"}

IsAbsolute(p) == p # <<>> /\ Head(p) = "/"

(* a path without empty names, which POSIX would skip, or the root folder *)
IsTidy(p) ==
    /\ p \in Seq(Char)
    /\ \A i \in Slashes(p) : i + 1 \notin Slashes(p) /\ (i = Len(p) => i = 1)

(* relative_path() *)
RelativePath(p) == IF IsAbsolute(p) THEN Tail(p) ELSE p

(* parent_path(): the root folder is its own parent *)
ParentPath(p) ==
    LET last == Max(Slashes(p) \cup {0})
    IN  IF last = 1 THEN <<"/">> ELSE SubSeq(p, 1, last - 1)

(* dir / name *)
In(dir, name) ==
    IF dir = <<>> \/ Last(dir) = "/" THEN dir \o name ELSE dir \o <<"/">> \o name

(* the path, element by element *)
Names(p) ==
    (IF IsAbsolute(p) THEN << <<"/">> >> ELSE <<>>)
        \o Selected(Seq(Char) \ {<<>>}, Cut(Char, "/", p))

(* how many elements two sequences have in common at their start *)
Common(s, t) == Max({n \in 0..Len(s) : n <= Len(t) /\ SubSeq(s, 1, n) = SubSeq(t, 1, n)})

SeqBefore(s, t, Lt(_, _)) ==
    LET n == Common(s, t)
    IN  n < Len(t) /\ (n < Len(s) => Lt(s[n + 1], t[n + 1]))

(* compare(): names are compared one after the other; absolute paths come last *)
PathBefore(p, q) ==
    SeqBefore(Names(p), Names(q), LAMBDA m, n :
        m # n /\ SeqBefore(m, n, LAMBDA c, d : Rank[c] < Rank[d]))

(* lexically_relative(): both absolute or both relative, or the result is empty *)
LexicallyRelative(target, base) ==
    LET n  == Common(target, base)
        up == [k \in 1..Len(base) - n |-> <<"..">>]
    IN  IF (Common(target, << <<"/">> >>) = 1) # (Common(base, << <<"/">> >>) = 1) THEN <<>>
        ELSE IF target = base THEN << <<".">> >>
        ELSE up \o SubSeq(target, n + 1, Len(target))

Cwd == << <<"/">>, <<"cwd">> >>

(* whether the first name of a relative path is one of those in the working directory *)
Exists(names, existing) == names # <<>> /\ Head(names) \in existing \ {<<"/">>}

(* weakly_canonical(): a relative path becomes absolute when its first name exists
   in the working directory, and stays relative otherwise *)
WeaklyCanonical(names, existing) == IF Exists(names, existing) THEN Cwd \o names ELSE names

(* relative() *)
Relative(target, base, existing) ==
    LexicallyRelative(WeaklyCanonical(Names(target), existing),
                      WeaklyCanonical(Names(base), existing))

(* where a browser that shows a page goes for a link *)
LinkName == Seq(Char \cup {".", "..", "cwd"})

GoTo(at, name) == IF name = <<"..">> THEN Front(at) ELSE Append(at, name)

Follow(page, href) ==
    IF href = <<>> THEN page
    ELSE IF Head(href) = <<"/">> THEN href
    ELSE Folded([p \in Seq(LinkName) \X LinkName |-> GoTo(p[1], p[2])], Front(page), href)
=============================================================================
