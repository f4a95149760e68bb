------------------------------ MODULE JournalWalk ------------------------------
(***************************************************************************)
(* The tools that walk the mounted space directory.  A walk has no await   *)
(* in it, so no other call of the bridge runs meanwhile, but the files are *)
(* not the bridge's: each action is one access to the directory.           *)
(*                                                                         *)
(*   journal_histogram    stats every page           "histogram"           *)
(*   tag_summary, find_backlinks, list_tasks                               *)
(*                        read every page            "scan"                *)
(*   recent_pages         stats every page, sorts, and stats the first     *)
(*                        ones again                 "recent_pages"        *)
(*   pages_touching_topic list every page, ask ripgrep which contain the   *)
(*                        query if they can, and read them  "topic"        *)
(*   search_pages         the same, and cuts the answer off "search"       *)
(***************************************************************************)
EXTENDS Space, Integers

CONSTANTS
    Markdown,    \* the names that end in .md and have no hidden part
    Dir,         \* the directory each is in
    Order,       \* the order of the names
    NameHits     \* the names that contain the query

ASSUME WalkAssumption ==
    /\ Markdown \subseteq Names
    /\ DOMAIN Dir = Names
    /\ Order \in [Names -> Nat]
    /\ \A n, m \in Names : Order[n] = Order[m] => n = m
    /\ NameHits \subseteq Names
    /\ \A q \in Queries : q.tool \in {"recent_pages", "search"} => q.limit \in Int

VARIABLES
    dirs,        \* the directories still to be listed
    files,       \* the names listed
    rg           \* what ripgrep read under each name

walkVars == <<dirs, files, rg>>

NothingRead == [n \in Names |-> Absent]

InitWalk ==
    /\ dirs = {}
    /\ files = {}
    /\ rg = NothingRead

SearchTools == {"topic", "search"}
WalkTools == {"histogram", "scan", "recent_pages"} \cup SearchTools
SearchHardLimit == 100

Readable(file) == file # Absent /\ file.content # "binary"

(* What the query's words are a part of.  ripgrep is given them without    *)
(* -F: words with a meaning in a regular expression match other pages too. *)
Matches(file) == Readable(file) /\ file.content = "hit"
RgMatches(file) ==
    Matches(file)
      \/ (query.words = "pattern" /\ Readable(file) /\ file.content = "lookalike")

StartAnswer(q) ==
    IF q.tool = "recent_pages" /\ q.limit <= 0 THEN "ok"
    ELSE IF \/ q.tool = "search" /\ q.limit \notin 1..SearchHardLimit
            \/ q.tool \in SearchTools /\ q.words = "none"
    THEN "invalid"
    ELSE "none"

StartWalk ==
    \E q \in Queries :
       /\ q.tool \in WalkTools
       /\ BeginQuery(q)
       /\ IF StartAnswer(q) = "none" THEN Goto("walk", {}) ELSE Return(StartAnswer(q))
       /\ dirs' = {Dir[n] : n \in Names}
       /\ files' = {}
       /\ rg' = NothingRead

(* rglob lists a directory at once when it gets there: right away for a    *)
(* search, after the files of the one before for the lazy walks.           *)
ListDirectory(d) ==
    /\ pc = "walk" /\ d \in dirs
    /\ query.tool \in SearchTools \/ todo = {}
    /\ LET here == {n \in Present \cap Markdown \cap query.wanted : Dir[n] = d} IN
       /\ files' = files \cup here
       /\ todo' = todo \cup here
    /\ dirs' = dirs \ {d}
    /\ UNCHANGED <<spaceVars, query, pc, found, answer, rg>>

VisitOrStop(n) ==   \* mutant: a file that is gone ends the walk
    /\ pc = "walk" /\ query.tool \notin SearchTools /\ n \in todo
    /\ IF space[n] = Absent
       THEN Return("ok") /\ UNCHANGED found
       ELSE /\ Goto("walk", todo \ {n})
            /\ found' = IF query.tool = "scan" /\ ~Readable(space[n]) THEN found
                        ELSE found \cup {Row(n, space[n], space[n], "visited")}
    /\ UNCHANGED <<spaceVars, query, walkVars>>

VisitAgain(n) ==   \* mutant: a file that cannot be read is tried again
    /\ pc = "walk" /\ query.tool \notin SearchTools /\ n \in todo
    /\ IF space[n] = Absent \/ (query.tool = "scan" /\ ~Readable(space[n]))
       THEN Goto("walk", todo) /\ UNCHANGED found
       ELSE /\ Goto("walk", todo \ {n})
            /\ found' = found \cup {Row(n, space[n], space[n], "visited")}
    /\ UNCHANGED <<spaceVars, query, walkVars>>

(* stat or read one file; one that is gone or cannot be read is skipped.   *)
Visit(n) ==
    /\ pc = "walk" /\ query.tool \notin SearchTools /\ n \in todo
    /\ Goto("walk", todo \ {n})
    /\ found' = IF space[n] = Absent \/ (query.tool = "scan" /\ ~Readable(space[n]))
                THEN found
                ELSE found \cup {Row(n, space[n], space[n], "visited")}
    /\ UNCHANGED <<spaceVars, query, walkVars>>

Ahead(r, s) ==
    IF query.tool = "recent_pages" /\ r.first.saved # s.first.saved
    THEN r.first.saved > s.first.saved
    ELSE Order[r.name] < Order[s.name]

TopAndOne(rows) ==   \* mutant: a row too many
    {r \in rows : Cardinality({s \in rows : Ahead(s, r)}) <= query.limit}

\* The first limit rows of the sorted answer.
Top(rows) == {r \in rows : Cardinality({s \in rows : Ahead(s, r)}) < query.limit}

(* The walk is over. *)
EndWalk ==
    /\ pc = "walk" /\ dirs = {}
    /\ query.tool \in SearchTools \/ todo = {}
    /\ IF query.tool \in SearchTools
       THEN /\ IF files = {} THEN Return("ok")
               ELSE Goto(IF query.ripgrep THEN "rg" ELSE "read", files)
            /\ UNCHANGED found
       ELSE IF query.tool = "recent_pages" /\ Top(found) # {}
       THEN /\ found' = Top(found)
            /\ Goto("size", NamesOf(Top(found)))
       ELSE Return("ok") /\ UNCHANGED found
    /\ UNCHANGED <<spaceVars, query, walkVars>>

(* The second stat of recent_pages, for the size: outside the try.         *)
Size(n) ==
    /\ pc = "size" /\ n \in todo
    /\ LET row == RowOf(found, n) IN
       IF space[n] = Absent
       THEN Return("vanished") /\ UNCHANGED found
       ELSE /\ found' = (found \ {row}) \cup {Row(n, row.first, space[n], "sized")}
            /\ IF todo = {n} THEN Return("ok") ELSE Goto("size", todo \ {n})
    /\ UNCHANGED <<spaceVars, query, walkVars>>

(* ripgrep reads the listed files by itself ... *)
RgReads(n) ==
    /\ pc = "rg" /\ n \in todo
    /\ rg' = [rg EXCEPT ![n] = space[n]]
    /\ IF todo = {n} THEN Goto("snippet", files) ELSE Goto("rg", todo \ {n})
    /\ UNCHANGED <<spaceVars, query, found, dirs, files>>

(* ... or fails, as it may when a file is gone or the words are no regular *)
(* expression, or takes too long: the bodies are searched in Python.       *)
RgFails ==
    /\ pc = "rg"
    /\ rg' = NothingRead
    /\ Goto("read", files)
    /\ UNCHANGED <<spaceVars, query, found, dirs, files>>

Kind(n, content) ==
    IF n \in NameHits THEN IF content THEN "both" ELSE "name" ELSE "content"

\* Only search_pages cuts its sorted rows off.
Cut(rows) == IF query.tool = "search" THEN Top(rows) ELSE rows

(* The row of a listed file whose content was decided on, or none, and the *)
(* next file.                                                              *)
AddMatch(n, decided, content) ==
    LET rows == IF Readable(space[n]) /\ (n \in NameHits \/ content)
                THEN found \cup {Row(n, decided, space[n], Kind(n, content))}
                ELSE found
    IN IF todo = {n}
       THEN found' = Cut(rows) /\ Return("ok")
       ELSE found' = rows /\ Goto(pc, todo \ {n})

(* Without ripgrep the body is read to decide on it ... *)
ReadBody(n) ==
    /\ pc = "read" /\ n \in todo
    /\ AddMatch(n, space[n], Matches(space[n]))
    /\ UNCHANGED <<spaceVars, query, walkVars>>

(* ... with it only for the snippet.                                       *)
ReadSnippet(n) ==
    /\ pc = "snippet" /\ n \in todo
    /\ AddMatch(n, rg[n], RgMatches(rg[n]))
    /\ UNCHANGED <<spaceVars, query, walkVars>>

WalkStep ==
    \/ \E d \in dirs : ListDirectory(d)
    \/ \E n \in Names : Visit(n) \/ Size(n) \/ RgReads(n)
                        \/ ReadBody(n) \/ ReadSnippet(n)
    \/ EndWalk \/ RgFails
===============================================================================
