----------------------------- MODULE SpaceQueries -----------------------------
(***************************************************************************)
(* The read-only tools of the bridge on a space that others write: whether *)
(* they read it page by page over HTTP or file by file in the directory,   *)
(* what may a client conclude from an answer that no instant has seen?     *)
(***************************************************************************)
EXTENDS PageList, JournalWalk

vars == <<space, saves, seen, query, pc, todo, found, answer, dirs, files, rg>>

Init == InitSpace /\ InitWalk

QueryStep ==
    \/ RequestStep /\ UNCHANGED walkVars
    \/ WalkStep

Next ==
    \/ StartRequest /\ UNCHANGED walkVars
    \/ StartWalk
    \/ QueryStep
    \/ EditorSave /\ UNCHANGED walkVars

Spec == Init /\ [][Next]_vars

(* A GET ends, by an answer or by the HTTP client's timeout, and an access *)
(* to a file does; outside writers owe the bridge nothing.                 *)
FairSpec == Spec /\ WF_vars(QueryStep)

-------------------------------------------------------------------------------
(***************************************************************************)
(* Properties                                                              *)
(***************************************************************************)
Version == File \cup {Absent}
Kinds == {"listed", "hydrated", "read", "visited", "sized", "name", "content", "both"}
Answers == {"none", "ok", "invalid", "yes", "no", "not_found", "vanished", "error", "raised"}

(* Every variable keeps its kind of value; a query that goes through pages *)
(* one by one has one left, of the ones that are its business, and one     *)
(* that is done has an answer.                                             *)
TypeOK ==
    /\ space \in [Names -> Version]
    /\ saves \in Nat
    /\ seen \in [Names -> SUBSET Version]
    /\ query \in Queries \cup {NoQuery}
    /\ pc \in {"idle", "get", "hydrate", "walk", "size", "rg", "read", "snippet", "done"}
    /\ todo \subseteq Names
    /\ found \subseteq [name : Names, first : Version, then : Version, kind : Kinds]
    /\ answer \in Answers
    /\ files \subseteq Names
    /\ rg \in [Names -> Version]
    /\ pc \in {"hydrate", "size", "rg", "read", "snippet"} => todo # {}
    /\ pc \in {"hydrate", "size"} => todo \subseteq NamesOf(found)
    /\ pc \in {"walk", "rg", "read", "snippet"} => todo \subseteq files
    /\ pc = "done" <=> answer # "none"

(* What a row says was so at some instant of the call, for each half of    *)
(* it: what decided that the page is in the answer, and what completed the *)
(* row.  The token of a hydrated row is one of the page that the tools     *)
(* reach under the row's name, so it can be used as if_match.              *)
RowIsTrue(row) ==
    /\ row.first \in seen[row.name]
    /\ row.then \in IF row.kind = "hydrated" THEN seen[Resolved[row.name]] ELSE seen[row.name]
    /\ row.then # Absent
    /\ row.kind \notin {"name", "content", "both"} => row.first # Absent

(* The kind of a match is true of the body that decided it, where the      *)
(* words mean the same to ripgrep as to Python.                            *)
MatchIsTrue(row) ==
    query.tool \in SearchTools /\ query.words = "words" =>
       /\ row.kind \in {"content", "both"} <=> Matches(row.first)
       /\ row.kind \in {"name", "both"} <=> row.name \in NameHits

AnswersWereTrue ==
    /\ \A row \in found : RowIsTrue(row) /\ MatchIsTrue(row)
    /\ answer = "yes" => seen[Resolved[query.name]] # {Absent}
    /\ answer = "no" => Absent \in seen[Resolved[query.name]]

(* Which names an answer must and must not contain for a page that nobody  *)
(* touched during the call.                                                *)
Untouched(n) == Cardinality(seen[n]) = 1 /\ Absent \notin seen[n]
Wanted(n) ==
    LET file == space[n] IN
    CASE query.tool = "list_pages"                      -> n \in query.wanted
      [] query.tool \in {"histogram", "recent_pages"}   -> n \in query.wanted \cap Markdown
      [] query.tool = "scan" ->
            n \in query.wanted \cap Markdown /\ Readable(file)
      [] query.tool \in SearchTools ->
            /\ n \in query.wanted \cap Markdown /\ Readable(file)
            /\ n \in NameHits \/ Matches(file)

Limited == query.tool \in {"recent_pages", "search"}
RowLimit == IF query.limit < 0 THEN 0 ELSE query.limit

(* A page nobody touches is in an answer exactly when it should be, however *)
(* others change the space around it, unless the limit leaves it out: then *)
(* limit pages are in the answer and each of them goes ahead of it.        *)
UntouchedPagesAreExact ==
    answer = "ok" /\ query.tool \in ListTools \cup WalkTools =>
       \A n \in Names :
          Untouched(n) /\ (query.tool \in SearchTools => query.words = "words") =>
             \/ n \in NamesOf(found) /\ Wanted(n)
             \/ n \notin NamesOf(found) /\ ~Wanted(n)
             \/ /\ n \notin NamesOf(found) /\ Limited
                /\ Cardinality(found) = RowLimit
                /\ \A row \in found : Ahead(row, Row(n, space[n], space[n], "listed"))

(* No answer is longer than its limit, and no page is in a list twice.     *)
AnswersAreBounded ==
    /\ query.tool \in ListTools \cup WalkTools =>
          Cardinality(found) = Cardinality(NamesOf(found))
    /\ answer = "ok" /\ Limited => Cardinality(found) <= RowLimit

(* A page that disappears while it is looked at fails a tool in two cases  *)
(* only: it is the page the call names, or it was one of the first of      *)
(* recent_pages when their sizes were taken.                               *)
OnlyNamedPagesFail ==
    /\ answer = "not_found" =>
          /\ query.tool \in {"read_page", "diff_pages"}
          /\ \E n \in {query.name, query.other} : Absent \in seen[Resolved[n]]
    /\ answer = "vanished" =>
          /\ query.tool = "recent_pages"
          /\ \E n \in NamesOf(found) : Absent \in seen[n]

(* Every query returns, however the space changes meanwhile. *)
EveryQueryReturns == pc # "idle" ~> pc = "done"
===============================================================================
