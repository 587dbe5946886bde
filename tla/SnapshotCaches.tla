--------------------------- MODULE SnapshotCaches ---------------------------
(***************************************************************************)
(* The symbols and the contents of files that a Snapshot hands out         *)
(* (db/src/snapshot.cpp) and its two caches (model/src/symbolcache.cpp,    *)
(* filecontentcache.cpp).  The caches hold weak pointers: an entry counts  *)
(* as long as somebody else keeps the object, the caller or, for a symbol, *)
(* the pending data.                                                       *)
(***************************************************************************)
EXTENDS Snapshot

VARIABLES
    symbolCache,  \* m_symbol_cache: symbol id -> version of the living object, or Null
    symbolKept,   \* the symbols whose cached object the caller keeps
    contentCache  \* m_filecontent_cache: file id -> the content that the caller keeps

cacheVars == <<symbolCache, symbolKept, contentCache>>

CachesInit ==
    /\ symbolCache = [s \in SymbolId |-> Null]
    /\ symbolKept = {}
    /\ contentCache = <<>>

IsPending(s) == \E row \in Range(pending["symbol"]) : row.id = s

Without(cache, key) == [k \in DOMAIN cache \ {key} |-> cache[k]]

(* the row of an id, by a given column *)
Select(t, id, col) ==
    LET found == {i \in DOMAIN work[t] : work[t][i].id = id}
    IN  IF found = {} THEN Null ELSE work[t][CHOOSE i \in found : TRUE][col]

(* getSymbol and loadSymbols; the database is asked only when the cache has nothing *)
SymbolRead(s) == IF symbolCache[s] # Null THEN symbolCache[s] ELSE Select("symbol", s, "version")

ContentRead(f) ==
    IF f \in DOMAIN contentCache THEN contentCache[f]
    ELSE IF f \in DOMAIN files THEN Select("file", f, "content")
    ELSE Null
-----------------------------------------------------------------------------
(* mutant of CacheSymbol: an entry that is there is not replaced *)
CacheSymbolOnce(s, v) ==
    symbolCache' = [symbolCache EXCEPT ![s] = IF @ = Null THEN v ELSE @]

(* SymbolCache::insert *)
CacheSymbol(s, v) == symbolCache' = [symbolCache EXCEPT ![s] = v]

(* addSymbols; a caller that goes on to keep the object is one that gets it *)
AddSymbols(s, v) ==
    /\ AddSymbol(s, v)
    /\ CacheSymbol(s, v)
    /\ symbolKept' = symbolKept \ {s}
    /\ UNCHANGED contentCache

(* getSymbol, by a caller that keeps what it gets *)
GetSymbol(s) ==
    /\ Idle /\ s \notin symbolKept /\ SymbolRead(s) # Null
    /\ CacheSymbol(s, SymbolRead(s))
    /\ symbolKept' = symbolKept \cup {s}
    /\ UNCHANGED <<contentCache, vars>>

ReleaseSymbol(s) ==
    /\ s \in symbolKept /\ Idle
    /\ symbolKept' = symbolKept \ {s}
    /\ symbolCache' = IF IsPending(s) THEN symbolCache ELSE [symbolCache EXCEPT ![s] = Null]
    /\ UNCHANGED <<contentCache, vars>>

GetFileContent(f) ==
    /\ Idle /\ f \notin DOMAIN contentCache /\ ContentRead(f) # Null
    /\ contentCache' = [g \in DOMAIN contentCache \cup {f} |->
                          IF g = f THEN ContentRead(f) ELSE contentCache[g]]
    /\ UNCHANGED <<symbolCache, symbolKept, vars>>

ReleaseContent(f) ==
    /\ Idle /\ f \in DOMAIN contentCache
    /\ contentCache' = Without(contentCache, f)
    /\ UNCHANGED <<symbolCache, symbolKept, vars>>

(* the end of a flush lets go of the pending objects, that of the snapshot of the caches *)
Forget ==
    /\ symbolCache' = [s \in SymbolId |-> IF s \in symbolKept THEN symbolCache[s] ELSE Null]
    /\ UNCHANGED <<symbolKept, contentCache>>

Discard ==
    /\ symbolCache' = [s \in SymbolId |-> Null]
    /\ symbolKept' = {} /\ contentCache' = <<>>
-----------------------------------------------------------------------------
Adding(paths) ==
    \/ Addition(paths) /\ UNCHANGED cacheVars
    \/ \E s \in SymbolId, v \in Version : AddSymbols(s, v)

Updating(paths) ==
    /\ \/ AddFilesContent
       \/ \E u \in DOMAIN units : AddTranslationUnitSerializedAst(u)
       \/ \E p \in paths : Edit(p)
    /\ UNCHANGED cacheVars

Getting ==
    \/ \E s \in SymbolId : GetSymbol(s) \/ ReleaseSymbol(s)
    \/ \E f \in 0..MaxFiles - 1 : GetFileContent(f) \/ ReleaseContent(f)

(* what follows from calls that were made, and the end of the program *)
Proceeding ==
    \/ (CopyFile \/ WriteTable) /\ UNCHANGED cacheVars
    \/ (Commit \/ Busy) /\ IF closing THEN Discard ELSE Forget
    \/ (Close \/ Crash) /\ Discard

(* what a program may do that uses all of the interface, with files of the given paths *)
Using(paths) ==
    \/ Adding(paths) \/ Updating(paths) \/ Getting \/ Proceeding
    \/ (Begin(FALSE) \/ Begin(TRUE) \/ Open) /\ UNCHANGED cacheVars

(* such a program, of any number of calls and of commits that fail *)
UsingSpec ==
    /\ \E n, m \in Nat : InitFor(n, m)
    /\ CachesInit
    /\ [][Using(Path)]_<<vars, cacheVars>>
-----------------------------------------------------------------------------
(* getSymbol() and loadSymbols() return a symbol as it was added last *)
SymbolReadIsLatest ==
    Idle => \A s \in SymbolId :
              LET added == {row \in Range(View["symbol"]) : row.id = s}
              IN  IF added = {} THEN SymbolRead(s) = Null
                  ELSE \A row \in added : SymbolRead(s) = row.version

(* the contents kept that are no longer those of their rows *)
Outdated == {f \in DOMAIN contentCache : contentCache[f] # Select("file", f, "content")}

(* Whatever objects the callers keep, and whatever is pending, flushed or lost: a symbol is
   returned as it was added last, for the pending data keeps it alive until the database has
   it and the cache, which is asked first, never holds an older one; and a content that is
   kept differs from that of its row only after addFilesContent() copied the file again. *)
ReadsAreCurrent ==
    [][/\ SymbolReadIsLatest'
       /\ Outdated' \subseteq Outdated \cup {copying - 1}]_<<vars, cacheVars>>
=============================================================================
