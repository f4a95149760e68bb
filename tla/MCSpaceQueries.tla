---------------------------- MODULE MCSpaceQueries ----------------------------
(***************************************************************************)
(* A small space: a page in the root, one in a directory, and a name       *)
(* without an extension with the page that the tools resolve it to.        *)
(***************************************************************************)
EXTENDS SpaceQueries

MCNames == {"a.md", "d/hit.md", "f", "f.md"}
MCMarkdown == {"a.md", "d/hit.md", "f.md"}
MCDir == [n \in MCNames |-> IF n = "d/hit.md" THEN "d" ELSE "."]
MCOrder == [n \in MCNames |-> CASE n = "a.md" -> 1 [] n = "d/hit.md" -> 2
                                [] n = "f" -> 3 [] n = "f.md" -> 4]
MCResolved == [n \in MCNames |-> IF n = "f" THEN "f.md" ELSE n]
MCNameHits == {"d/hit.md"}
MCContent == {"hit", "lookalike", "binary"}

Old(c) == [content |-> c, saved |-> 0]
Space(a, d, f, fmd) ==
    [n \in MCNames |-> CASE n = "a.md" -> a [] n = "d/hit.md" -> d [] n = "f" -> f [] n = "f.md" -> fmd]
MCInitialSpaces ==
    {Space(Old("hit"), Old("lookalike"), Old("lookalike"), Old("lookalike")),
     Space(Absent, Old("hit"), Old("hit"), Old("binary"))}

Lists == [tool : {"list_pages"}, wanted : {MCNames, {}}, hydrate : BOOLEAN]
Reads == [tool : ReadTools, name : {"f"}, other : {"f.md", "d/hit.md"}]
Scans == [tool : {"histogram"}, wanted : {{"a.md", "f.md"}}]
         \cup [tool : {"scan"}, wanted : {MCNames}]
Recent == [tool : {"recent_pages"}, wanted : {MCNames}, limit : {-1, 0, 1, 2}]
Searches == [tool : {"search"}, wanted : {MCNames}, ripgrep : BOOLEAN,
             words : {"none", "words"}, limit : {0, 1, SearchHardLimit + 1}]
            \cup [tool : {"search"}, wanted : {MCNames}, ripgrep : {TRUE},
                  words : {"pattern"}, limit : {2}]
Topics == [tool : {"topic"}, wanted : {MCNames}, ripgrep : BOOLEAN, words : {"none", "words"}]
MCQueries == Lists \cup Reads \cup Scans \cup Recent \cup Searches \cup Topics
===============================================================================
