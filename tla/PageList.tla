------------------------------- MODULE PageList -------------------------------
(***************************************************************************)
(* The tools that read through SilverBullet's HTTP API: list_pages with    *)
(* its hydration of etags, read_page (and with it the page resource and    *)
(* the list_tasks of one page), page_exists and diff_pages.  Each action   *)
(* is one GET.                                                             *)
(***************************************************************************)
EXTENDS Space

CONSTANT
    Resolved     \* _normalize_page_name: the name a tool asks for instead

ListTools == {"list_pages"}
ReadTools == {"read_page", "page_exists", "diff_pages"}

ASSUME ResolvedAssumption ==
    /\ Resolved \in [Names -> Names]
    /\ \A n \in Names : Resolved[Resolved[n]] = Resolved[n]
    /\ \A q \in Queries : q.tool \in ReadTools => q.name \in Names /\ q.other \in Names

StartRequest ==
    \E q \in Queries :
       /\ q.tool \in ListTools \cup ReadTools
       /\ BeginQuery(q)
       /\ Goto("get", {})

ListPagesToHydrate ==   \* mutant: an empty list waits for its etags, too
    /\ pc = "get" /\ query.tool = "list_pages"
    /\ LET rows == {Row(n, space[n], space[n], "listed") : n \in Present \cap query.wanted}
       IN /\ found' = rows
          /\ IF query.hydrate
             THEN Goto("hydrate", NamesOf(rows))
             ELSE Return("ok")
    /\ UNCHANGED <<spaceVars, query>>

(* GET /.fs, the filters, and with etags to hydrate a GET for every row.   *)
ListPages ==
    /\ pc = "get" /\ query.tool = "list_pages"
    /\ LET rows == {Row(n, space[n], space[n], "listed") : n \in Present \cap query.wanted}
       IN /\ found' = rows
          /\ IF query.hydrate /\ rows # {}
             THEN Goto("hydrate", NamesOf(rows))
             ELSE Return("ok")
    /\ UNCHANGED <<spaceVars, query>>

NextRow(n) ==
    IF todo = {n} THEN Return("ok") ELSE Goto("hydrate", todo \ {n})

HydrateByRowName(n) ==   \* mutant: the file of that name, not the page
    /\ pc = "hydrate" /\ n \in todo
    /\ LET row == RowOf(found, n) IN
       found' = IF space[n] = Absent THEN found
                ELSE (found \ {row}) \cup {Row(n, row.first, space[n], "hydrated")}
    /\ NextRow(n)
    /\ UNCHANGED <<spaceVars, query>>

HydrateOrFail(n) ==   \* mutant: a deleted page fails the list
    /\ pc = "hydrate" /\ n \in todo
    /\ LET page == space[Resolved[n]]
           row  == RowOf(found, n)
       IN IF page = Absent
          THEN Return("not_found") /\ UNCHANGED found
          ELSE /\ found' = (found \ {row}) \cup {Row(n, row.first, page, "hydrated")}
               /\ NextRow(n)
    /\ UNCHANGED <<spaceVars, query>>

(* The etag and the modification time come from the GET; size and creation *)
(* time stay those of the list.  A page that is gone keeps its row.        *)
Hydrate(n) ==
    /\ pc = "hydrate" /\ n \in todo
    /\ LET page == space[Resolved[n]]
           row  == RowOf(found, n)
       IN found' = IF page = Absent THEN found
                   ELSE (found \ {row}) \cup {Row(n, row.first, page, "hydrated")}
    /\ NextRow(n)
    /\ UNCHANGED <<spaceVars, query>>

(* A 412 and a timeout keep the row as well ...                            *)
HydrateSkipped(n) ==
    /\ Faults
    /\ pc = "hydrate" /\ n \in todo
    /\ NextRow(n)
    /\ UNCHANGED <<spaceVars, query, found>>

(* ... a 413 and a transport error fail the whole list.  So do a 5xx and   *)
(* the other 4xx, which read_page_meta_safe means to forgive: the response *)
(* is streamed, and _raise_for_status reads the text of it for a hint,     *)
(* which httpx answers with ResponseNotRead.                               *)
HydrateRaises(n) ==
    /\ Faults
    /\ pc = "hydrate" /\ n \in todo
    /\ Return("raised")
    /\ UNCHANGED <<spaceVars, query, found>>

(* The page the next GET of a read tool asks for. *)
ReadTarget ==
    IF found = {} THEN Resolved[query.name] ELSE Resolved[query.other]

ReadRow == Row(ReadTarget, space[ReadTarget], space[ReadTarget], "read")

(* read_page, and each of the two reads of diff_pages: 404 is an error.    *)
ReadPage ==
    /\ pc = "get" /\ query.tool \in {"read_page", "diff_pages"}
    /\ IF space[ReadTarget] = Absent
       THEN Return("not_found") /\ UNCHANGED found
       ELSE /\ found' = found \cup {ReadRow}
            /\ IF query.tool = "diff_pages" /\ found = {}
               THEN Goto("get", {})
               ELSE Return("ok")
    /\ UNCHANGED <<spaceVars, query>>

(* page_exists: 404 is an answer. *)
PageExists ==
    /\ pc = "get" /\ query.tool = "page_exists"
    /\ Return(IF space[ReadTarget] = Absent THEN "no" ELSE "yes")
    /\ UNCHANGED <<spaceVars, query, found>>

(* Error statuses and timeouts are translated, transport errors are not.   *)
GetFails ==
    /\ Faults
    /\ pc = "get"
    /\ \E told \in {"error", "raised"} : Return(told)
    /\ UNCHANGED <<spaceVars, query, found>>

RequestStep ==
    \/ ListPages \/ ReadPage \/ PageExists \/ GetFails
    \/ \E n \in Names : Hydrate(n) \/ HydrateSkipped(n) \/ HydrateRaises(n)
===============================================================================
