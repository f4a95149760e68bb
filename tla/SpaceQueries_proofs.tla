-------------------------- MODULE SpaceQueries_proofs --------------------------
(***************************************************************************)
(* What the answers of the read-only tools are worth, for every space,     *)
(* every set of queries and any number of outside writers' steps.          *)
(*                                                                         *)
(* The inductive invariant says besides which tool is at which place, that *)
(* the space as it is now is part of what was seen, and that what ripgrep  *)
(* has read was.                                                           *)
(***************************************************************************)
EXTENDS SpaceQueries, FiniteFacts

MatchKinds == {"name", "content", "both"}

SeenIsCurrent == \A n \in Names : space[n] \in seen[n]

ToolsAreInPlace ==
    /\ pc = "idle" => found = {}
    /\ pc = "get" /\ query.tool # "diff_pages" => found = {}
    /\ pc = "hydrate" => query.tool = "list_pages"
    /\ pc = "size" => query.tool = "recent_pages"
    /\ pc \in {"rg", "read", "snippet"} => query.tool \in SearchTools
    /\ query.tool \notin SearchTools => \A row \in found : row.kind \notin MatchKinds

RgReadTheSpace ==
    /\ pc = "rg" => \A n \in files \ todo : rg[n] \in seen[n]
    /\ pc = "snippet" => \A n \in files : rg[n] \in seen[n]

IInv ==
    /\ TypeOK
    /\ SeenIsCurrent
    /\ ToolsAreInPlace
    /\ RgReadTheSpace
    /\ AnswersWereTrue
    /\ OnlyNamedPagesFail

Rows == [name : Names, first : Version, then : Version, kind : Kinds]

(* A row that is asked for by a name that has one. *)
LEMMA RowOfIsThere ==
    ASSUME NEW rows, NEW n \in NamesOf(rows)
    PROVE  RowOf(rows, n) \in rows /\ RowOf(rows, n).name = n
  BY DEF NamesOf, RowOf

(* What is in the space is a version of a file, and has been seen. *)
LEMMA SpaceIsSeen ==
    ASSUME TypeOK, SeenIsCurrent, NEW n \in Names
    PROVE  space[n] \in Version /\ space[n] \in seen[n]
  BY DEF TypeOK, SeenIsCurrent

(* A step of a query preserves the invariant if its new rows are true and  *)
(* it does not answer in one of the words that say something of a page.    *)
LEMMA PlainStep ==
    ASSUME IInv, UNCHANGED <<space, saves, seen, query>>,
           TypeOK', ToolsAreInPlace', RgReadTheSpace',
           \A row \in found' : row \in found \/ (RowIsTrue(row) /\ MatchIsTrue(row)),
           answer' \notin {"yes", "no", "not_found", "vanished"}
    PROVE  IInv'
<1>1. \A row : RowIsTrue(row)' <=> RowIsTrue(row)
  BY DEF RowIsTrue
<1>2. \A row : MatchIsTrue(row)' <=> MatchIsTrue(row)
  BY DEF MatchIsTrue
<1>3. SeenIsCurrent'
  BY DEF IInv, SeenIsCurrent
<1>4. AnswersWereTrue'
  BY <1>1, <1>2 DEF IInv, AnswersWereTrue
<1>5. OnlyNamedPagesFail'
  BY DEF OnlyNamedPagesFail
<1> QED
  BY <1>3, <1>4, <1>5 DEF IInv

(* The invariant holds in the initial states. *)
LEMMA InitIInv == Init => IInv
<1> SUFFICES ASSUME Init PROVE IInv
  OBVIOUS
<1> USE DEF Init, InitSpace, InitWalk
<1>1. space \in [Names -> Version]
  BY SpaceAssumption DEF Version
<1>2. seen \in [Names -> SUBSET Version]
  BY <1>1
<1>3. rg \in [Names -> Version]
  BY DEF Version, NothingRead
<1>4. TypeOK
  BY <1>1, <1>2, <1>3 DEF TypeOK, Answers
<1>5. SeenIsCurrent
  BY DEF SeenIsCurrent
<1> QED
  BY <1>4, <1>5 DEF IInv, ToolsAreInPlace, RgReadTheSpace, AnswersWereTrue, OnlyNamedPagesFail

(* A call's first step preserves the invariant: it forgets what was seen,  *)
(* but there is no answer yet.                                             *)
LEMMA StartIInv == IInv /\ ((StartRequest /\ UNCHANGED walkVars) \/ StartWalk) => IInv'
<1> SUFFICES ASSUME IInv, (StartRequest /\ UNCHANGED walkVars) \/ StartWalk PROVE IInv'
  OBVIOUS
<1> USE DEF IInv
<1>1. /\ pc = "idle" /\ answer = "none"
      /\ query' \in Queries
      /\ space' = space /\ saves' = saves /\ found' = {} /\ todo' = {}
      /\ seen' = [n \in Names |-> {space[n]}]
  BY DEF StartRequest, StartWalk, BeginQuery, Goto, Return, TypeOK
<1>2. /\ pc' \in {"get", "walk", "done"}
      /\ answer' \in {"none", "ok", "invalid"}
      /\ pc' = "done" <=> answer' # "none"
  BY <1>1 DEF StartRequest, StartWalk, StartAnswer, Goto, Return
<1>3. files' \subseteq Names /\ rg' \in [Names -> Version]
  BY DEF StartRequest, StartWalk, walkVars, TypeOK, NothingRead, Version
<1>4. TypeOK'
  BY <1>1, <1>2, <1>3, SpaceIsSeen DEF TypeOK, Answers
<1> QED
  BY <1>1, <1>2, <1>4 DEF SeenIsCurrent, ToolsAreInPlace, RgReadTheSpace, AnswersWereTrue,
     OnlyNamedPagesFail

(* An outside writer only adds to what was seen. *)
LEMMA EditorIInv == IInv /\ EditorSave /\ UNCHANGED walkVars => IInv'
<1> SUFFICES ASSUME IInv, EditorSave, UNCHANGED walkVars PROVE IInv'
  OBVIOUS
<1> USE DEF IInv
<1>1. UNCHANGED <<query, pc, todo, found, answer, dirs, files, rg>> /\ pc \notin {"idle", "done"}
  BY DEF EditorSave, queryVars, walkVars
<1>2. saves \in Nat /\ saves' \in Nat /\ space \in [Names -> Version]
  BY DEF EditorSave, TypeOK
<1>3. PICK new : Replace(new) /\ new \in [Names -> Version]
  <2>1. CASE \E n \in Names, c \in Content :
                Replace([space EXCEPT ![n] = [content |-> c, saved |-> saves + 1]])
    <3>1. PICK n \in Names, c \in Content :
             Replace([space EXCEPT ![n] = [content |-> c, saved |-> saves + 1]])
      BY <2>1
    <3> DEFINE file == [content |-> c, saved |-> saves + 1]
    <3>2. file \in Version
      BY <1>2 DEF Version, File
    <3>3. Replace([space EXCEPT ![n] = file])
      BY <3>1
    <3> HIDE DEF file
    <3>4. [space EXCEPT ![n] = file] \in [Names -> Version]
      BY <1>2, <3>2
    <3> QED
      BY <3>3, <3>4
  <2>2. CASE \E n \in Present : Replace([space EXCEPT ![n] = Absent])
    <3>1. PICK n \in Present : Replace([space EXCEPT ![n] = Absent])
      BY <2>2
    <3>2. [space EXCEPT ![n] = Absent] \in [Names -> Version]
      BY <1>2 DEF Version
    <3> QED
      BY <3>1, <3>2
  <2>3. CASE \E n \in Present : \E m \in Names \ {n} :
                Replace([space EXCEPT ![n] = Absent, ![m] = space[n]])
    <3>1. PICK n \in Names, m \in Names :
             Replace([space EXCEPT ![n] = Absent, ![m] = space[n]])
      BY <2>3 DEF Present
    <3>2. [space EXCEPT ![n] = Absent, ![m] = space[n]] \in [Names -> Version]
      BY <1>2 DEF Version
    <3> QED
      BY <3>1, <3>2
  <2> QED
    BY <2>1, <2>2, <2>3 DEF EditorSave
<1>4. /\ space' = new /\ seen' \in [Names -> SUBSET Version]
      /\ \A n \in Names : seen[n] \subseteq seen'[n] /\ space'[n] \in seen'[n]
  BY <1>3 DEF Replace, TypeOK
<1>5. TypeOK'
  BY <1>1, <1>2, <1>3, <1>4 DEF TypeOK
<1>6. RgReadTheSpace'
  BY <1>1, <1>4 DEF RgReadTheSpace, TypeOK
<1>7. answer = "none"
  BY <1>1 DEF TypeOK
<1>8. ASSUME NEW row \in found
      PROVE  RowIsTrue(row)' /\ MatchIsTrue(row)'
  <2>1. RowIsTrue(row) /\ MatchIsTrue(row) /\ row.name \in Names
    BY DEF AnswersWereTrue, TypeOK
  <2>2. Resolved[row.name] \in Names
    BY <2>1, ResolvedAssumption
  <2>3. RowIsTrue(row)'
    BY <1>4, <2>1, <2>2 DEF RowIsTrue
  <2> QED
    BY <1>1, <2>1, <2>3 DEF MatchIsTrue
<1>9. AnswersWereTrue' /\ OnlyNamedPagesFail'
  BY <1>1, <1>7, <1>8 DEF AnswersWereTrue, OnlyNamedPagesFail
<1> QED
  BY <1>1, <1>4, <1>5, <1>6, <1>9 DEF SeenIsCurrent, ToolsAreInPlace

-------------------------------------------------------------------------------
(* GET /.fs preserves the invariant. *)
LEMMA ListPagesIInv == IInv /\ ListPages /\ UNCHANGED walkVars => IInv'
<1> SUFFICES ASSUME IInv, ListPages, UNCHANGED walkVars PROVE IInv'
  OBVIOUS
<1> USE DEF IInv
<1> DEFINE rows == {Row(n, space[n], space[n], "listed") : n \in Present \cap query.wanted}
<1>1. /\ query.tool = "list_pages" /\ found' = rows /\ pc = "get"
      /\ UNCHANGED <<space, saves, seen, query, dirs, files, rg>>
  BY DEF ListPages, spaceVars, walkVars
<1>2. \/ pc' = "hydrate" /\ todo' = NamesOf(rows) /\ rows # {} /\ answer' = answer
      \/ pc' = "done" /\ todo' = {} /\ answer' = "ok"
  BY DEF ListPages, Goto, Return
<1>3. ASSUME NEW row \in rows
      PROVE  row \in Rows /\ row.kind = "listed" /\ RowIsTrue(row) /\ MatchIsTrue(row)
  <2>1. PICK n \in Present : row = Row(n, space[n], space[n], "listed")
    BY <1>3
  <2>2. n \in Names /\ space[n] # Absent /\ space[n] \in Version /\ space[n] \in seen[n]
    BY SpaceIsSeen DEF Present
  <2>3. row \in Rows /\ row.kind = "listed" /\ row.first = space[n] /\ row.then = space[n]
        /\ row.name = n
    BY <2>1, <2>2 DEF Row, Rows, Kinds
  <2> QED
    BY <1>1, <2>2, <2>3 DEF SearchTools, RowIsTrue, MatchIsTrue
<1>4. rows \subseteq Rows /\ NamesOf(rows) \subseteq Names /\ (rows # {} => NamesOf(rows) # {})
  BY <1>3 DEF Rows, NamesOf
<1>5. answer = "none"
  BY <1>1 DEF TypeOK
<1> HIDE DEF rows
<1>6. TypeOK'
  BY <1>1, <1>2, <1>4, <1>5 DEF TypeOK, Rows, Answers
<1>7. ToolsAreInPlace' /\ RgReadTheSpace'
  BY <1>1, <1>2, <1>3 DEF ToolsAreInPlace, RgReadTheSpace, MatchKinds
<1> QED
  BY <1>1, <1>2, <1>3, <1>5, <1>6, <1>7, PlainStep

(* A row that is replaced by one of the same name leaves the names. *)
LEMMA SameNames ==
    ASSUME NEW rows, NEW old \in rows, NEW new, new.name = old.name
    PROVE  NamesOf((rows \ {old}) \cup {new}) = NamesOf(rows)
  BY DEF NamesOf

(* The GET for a row's etag preserves the invariant, whether it succeeds,  *)
(* is skipped or fails the list.                                           *)
LEMMA HydrateIInv ==
    ASSUME IInv, UNCHANGED walkVars,
           NEW n \in Names, Hydrate(n) \/ HydrateSkipped(n) \/ HydrateRaises(n)
    PROVE  IInv'
<1> USE DEF IInv
<1> DEFINE row == RowOf(found, n)
           new == Row(n, row.first, space[Resolved[n]], "hydrated")
<1>1. /\ pc = "hydrate" /\ n \in todo /\ query.tool = "list_pages"
      /\ UNCHANGED <<space, saves, seen, query, dirs, files, rg>>
  BY DEF Hydrate, HydrateSkipped, HydrateRaises, ToolsAreInPlace, spaceVars, walkVars
<1>2. answer = "none" /\ todo \subseteq NamesOf(found) /\ found \subseteq Rows
  BY <1>1 DEF TypeOK, Rows
<1>3. row \in found /\ row.name = n /\ row \in Rows
  BY <1>1, <1>2, RowOfIsThere
<1>4. RowIsTrue(row) /\ row.kind \notin MatchKinds
  BY <1>1, <1>3 DEF SearchTools, AnswersWereTrue, ToolsAreInPlace
<1>5. \/ pc' = "done" /\ todo' = {} /\ answer' \in {"ok", "raised"}
      \/ pc' = "hydrate" /\ todo' = todo \ {n} /\ todo' # {} /\ answer' = answer
  BY <1>1 DEF Hydrate, HydrateSkipped, HydrateRaises, NextRow, Goto, Return
<1>6. CASE found' = found
  <2>1. TypeOK'
    BY <1>1, <1>2, <1>5, <1>6 DEF TypeOK, Answers
  <2>2. ToolsAreInPlace' /\ RgReadTheSpace'
    BY <1>1, <1>5, <1>6 DEF ToolsAreInPlace, RgReadTheSpace
  <2> QED
    BY <1>1, <1>2, <1>5, <1>6, <2>1, <2>2, PlainStep
<1>7. CASE space[Resolved[n]] # Absent /\ found' = (found \ {row}) \cup {new}
  <2>1. /\ new.name = n /\ new.first = row.first /\ new.then = space[Resolved[n]]
        /\ new.kind = "hydrated"
    BY DEF Row
  <2>2. Resolved[n] \in Names
    BY ResolvedAssumption
  <2>3. space[Resolved[n]] \in Version /\ space[Resolved[n]] \in seen[Resolved[n]]
    BY <2>2, SpaceIsSeen
  <2>4. new \in Rows
    BY <1>3, <2>3 DEF Row, Rows, Kinds
  <2>5. RowIsTrue(new) /\ MatchIsTrue(new)
    BY <1>1, <1>3, <1>4, <1>7, <2>1, <2>3 DEF SearchTools, RowIsTrue, MatchIsTrue, MatchKinds
  <2>6. NamesOf(found') = NamesOf(found)
    BY <1>3, <1>7, <2>1, SameNames
  <2>7. found' \subseteq Rows /\ \A r \in found' : r \in found \/ r = new
    BY <1>2, <1>7, <2>4
  <2>8. TypeOK'
    BY <1>1, <1>2, <1>5, <2>6, <2>7 DEF TypeOK, Rows, Answers
  <2>9. ToolsAreInPlace' /\ RgReadTheSpace'
    BY <1>1, <1>5, <2>1, <2>7 DEF ToolsAreInPlace, RgReadTheSpace, MatchKinds
  <2> QED
    BY <1>1, <1>2, <1>5, <2>5, <2>7, <2>8, <2>9, PlainStep
<1> QED
  BY <1>6, <1>7 DEF Hydrate, HydrateSkipped, HydrateRaises

(* The page a read tool asks for is a page of the space. *)
LEMMA TargetIsAName ==
    ASSUME IInv, query \in Queries, query.tool \in ReadTools
    PROVE  ReadTarget \in {Resolved[query.name], Resolved[query.other]} /\ ReadTarget \in Names
  BY ResolvedAssumption DEF ReadTarget

(* A call that runs is one of the queries. *)
LEMMA ToolIsAQuery ==
    ASSUME TypeOK, query.tool \in ReadTools
    PROVE  query \in Queries
  BY DEF TypeOK, NoQuery, ReadTools

(* A GET of read_page or diff_pages preserves the invariant. *)
LEMMA ReadPageIInv == IInv /\ ReadPage /\ UNCHANGED walkVars => IInv'
<1> SUFFICES ASSUME IInv, ReadPage, UNCHANGED walkVars PROVE IInv'
  OBVIOUS
<1> USE DEF IInv
<1>1. /\ pc = "get" /\ query.tool \in {"read_page", "diff_pages"} /\ query.tool \in ReadTools
      /\ UNCHANGED <<space, saves, seen, query, dirs, files, rg>>
  BY DEF ReadPage, ReadTools, spaceVars, walkVars
<1>2. answer = "none" /\ found \subseteq Rows
  BY <1>1 DEF TypeOK, Rows
<1>3. /\ ReadTarget \in {Resolved[query.name], Resolved[query.other]} /\ ReadTarget \in Names
      /\ space[ReadTarget] \in Version /\ space[ReadTarget] \in seen[ReadTarget]
  BY <1>1, ToolIsAQuery, TargetIsAName, SpaceIsSeen
<1>4. CASE space[ReadTarget] = Absent /\ Return("not_found") /\ UNCHANGED found
  <2>1. pc' = "done" /\ todo' = {} /\ answer' = "not_found" /\ found' = found
    BY <1>4 DEF Return
  <2>2. TypeOK'
    BY <1>1, <1>2, <2>1 DEF TypeOK, Answers
  <2>3. ToolsAreInPlace' /\ RgReadTheSpace' /\ SeenIsCurrent'
    BY <1>1, <2>1 DEF ToolsAreInPlace, RgReadTheSpace, SeenIsCurrent
  <2>4. \A row \in found : RowIsTrue(row)' /\ MatchIsTrue(row)'
    BY <1>1 DEF AnswersWereTrue, RowIsTrue, MatchIsTrue
  <2>5. AnswersWereTrue'
    BY <2>1, <2>4 DEF AnswersWereTrue
  <2>6. \E n \in {query.name, query.other} : Absent \in seen[Resolved[n]]
    BY <1>3, <1>4
  <2>7. OnlyNamedPagesFail'
    BY <1>1, <2>1, <2>6 DEF OnlyNamedPagesFail
  <2> QED
    BY <2>2, <2>3, <2>5, <2>7
<1>5. CASE space[ReadTarget] # Absent /\ found' = found \cup {ReadRow}
  <2>1. /\ ReadRow \in Rows /\ ReadRow.kind = "read" /\ ReadRow.name = ReadTarget
        /\ ReadRow.first = space[ReadTarget] /\ ReadRow.then = space[ReadTarget]
    BY <1>3 DEF ReadRow, Row, Rows, Kinds
  <2>2. RowIsTrue(ReadRow) /\ MatchIsTrue(ReadRow)
    BY <1>1, <1>3, <1>5, <2>1 DEF SearchTools, RowIsTrue, MatchIsTrue
  <2>3. \/ pc' = "get" /\ query.tool = "diff_pages" /\ todo' = {} /\ answer' = answer
        \/ pc' = "done" /\ todo' = {} /\ answer' = "ok"
    BY <1>5 DEF ReadPage, Goto, Return
  <2>4. TypeOK'
    BY <1>1, <1>2, <1>5, <2>1, <2>3 DEF TypeOK, Rows, Answers
  <2>5. ToolsAreInPlace' /\ RgReadTheSpace'
    BY <1>1, <1>5, <2>1, <2>3 DEF ToolsAreInPlace, RgReadTheSpace, MatchKinds
  <2> QED
    BY <1>1, <1>2, <1>5, <2>2, <2>3, <2>4, <2>5, PlainStep
<1> QED
  BY <1>4, <1>5 DEF ReadPage

(* The GET of page_exists preserves it. *)
LEMMA PageExistsIInv == IInv /\ PageExists /\ UNCHANGED walkVars => IInv'
<1> SUFFICES ASSUME IInv, PageExists, UNCHANGED walkVars PROVE IInv'
  OBVIOUS
<1> USE DEF IInv
<1>1. /\ pc = "get" /\ query.tool = "page_exists" /\ query.tool \in ReadTools
      /\ UNCHANGED <<space, saves, seen, query, found, dirs, files, rg>>
      /\ pc' = "done" /\ todo' = {}
      /\ answer' = IF space[ReadTarget] = Absent THEN "no" ELSE "yes"
  BY DEF PageExists, ReadTools, spaceVars, walkVars, Return
<1>3. ReadTarget \in Names /\ space[ReadTarget] \in seen[ReadTarget]
  BY <1>1, ToolIsAQuery, TargetIsAName, SpaceIsSeen
<1>4. TypeOK'
  BY <1>1 DEF TypeOK, Answers
<1>5. ToolsAreInPlace' /\ RgReadTheSpace' /\ SeenIsCurrent'
  BY <1>1 DEF ToolsAreInPlace, RgReadTheSpace, SeenIsCurrent
<1>6. \A row \in found : RowIsTrue(row)' /\ MatchIsTrue(row)'
  BY <1>1 DEF AnswersWereTrue, RowIsTrue, MatchIsTrue
<1>7. ReadTarget = Resolved[query.name]
  BY <1>1 DEF ReadTarget, ToolsAreInPlace
<1>8. AnswersWereTrue'
  BY <1>1, <1>3, <1>6, <1>7 DEF AnswersWereTrue
<1>9. OnlyNamedPagesFail'
  BY <1>1 DEF OnlyNamedPagesFail
<1> QED
  BY <1>4, <1>5, <1>8, <1>9

(* A GET that fails preserves it. *)
LEMMA GetFailsIInv == IInv /\ GetFails /\ UNCHANGED walkVars => IInv'
<1> SUFFICES ASSUME IInv, GetFails, UNCHANGED walkVars PROVE IInv'
  OBVIOUS
<1> USE DEF IInv
<1>1. /\ UNCHANGED <<space, saves, seen, query, found, dirs, files, rg>>
      /\ pc' = "done" /\ todo' = {} /\ answer' \in {"error", "raised"}
  BY DEF GetFails, spaceVars, walkVars, Return
<1>2. TypeOK'
  BY <1>1 DEF TypeOK, Answers
<1>3. ToolsAreInPlace' /\ RgReadTheSpace'
  BY <1>1 DEF ToolsAreInPlace, RgReadTheSpace
<1> QED
  BY <1>1, <1>2, <1>3, PlainStep

-------------------------------------------------------------------------------
(* Listing a directory preserves the invariant. *)
LEMMA ListDirectoryIInv == ASSUME IInv, NEW d, ListDirectory(d) PROVE IInv'
<1> USE DEF IInv
<1>1. /\ pc = "walk" /\ pc' = "walk"
      /\ UNCHANGED <<space, saves, seen, query, found, answer, rg>>
  BY DEF ListDirectory, spaceVars
<1>2. PICK here : here \subseteq Names /\ files' = files \cup here /\ todo' = todo \cup here
  BY DEF ListDirectory, Present
<1>3. TypeOK'
  BY <1>1, <1>2 DEF TypeOK
<1>4. ToolsAreInPlace' /\ RgReadTheSpace'
  BY <1>1 DEF ToolsAreInPlace, RgReadTheSpace
<1>5. answer' = "none"
  BY <1>1 DEF TypeOK
<1> QED
  BY <1>1, <1>3, <1>4, <1>5, PlainStep

(* The access to one file preserves the invariant. *)
LEMMA VisitIInv == ASSUME IInv, NEW n \in Names, Visit(n) PROVE IInv'
<1> USE DEF IInv
<1> DEFINE new == Row(n, space[n], space[n], "visited")
<1>1. /\ pc = "walk" /\ pc' = "walk" /\ query.tool \notin SearchTools /\ todo' = todo \ {n}
      /\ UNCHANGED <<space, saves, seen, query, answer, dirs, files, rg>>
  BY DEF Visit, Goto, spaceVars, walkVars
<1>2. answer' = "none" /\ found \subseteq Rows
  BY <1>1 DEF TypeOK, Rows
<1>3. found' = found \/ (space[n] # Absent /\ found' = found \cup {new})
  BY DEF Visit
<1>4. /\ new \in Rows /\ new.kind = "visited" /\ new.name = n
      /\ new.first = space[n] /\ new.then = space[n] /\ space[n] \in seen[n]
  BY SpaceIsSeen DEF Row, Rows, Kinds
<1>5. space[n] # Absent => RowIsTrue(new) /\ MatchIsTrue(new)
  BY <1>1, <1>4 DEF RowIsTrue, MatchIsTrue
<1>6. found' \subseteq Rows /\ \A row \in found' : row \in found \/ (row = new /\ space[n] # Absent)
  BY <1>2, <1>3, <1>4
<1>7. TypeOK'
  BY <1>1, <1>6 DEF TypeOK, Rows
<1>8. ToolsAreInPlace' /\ RgReadTheSpace'
  BY <1>1, <1>4, <1>6 DEF ToolsAreInPlace, RgReadTheSpace, MatchKinds
<1> QED
  BY <1>1, <1>2, <1>5, <1>6, <1>7, <1>8, PlainStep

(* The end of the walk preserves it. *)
LEMMA EndWalkIInv == IInv /\ EndWalk => IInv'
<1> SUFFICES ASSUME IInv, EndWalk PROVE IInv'
  OBVIOUS
<1> USE DEF IInv
<1>1. /\ pc = "walk" /\ UNCHANGED <<space, saves, seen, query, dirs, files, rg>>
  BY DEF EndWalk, spaceVars, walkVars
<1>2. answer = "none" /\ found \subseteq Rows /\ files \subseteq Names
  BY <1>1 DEF TypeOK, Rows
<1>3. Top(found) \subseteq found /\ NamesOf(Top(found)) \subseteq Names
  BY <1>2 DEF Top, NamesOf, Rows
<1>4. \/ /\ pc' = "done" /\ todo' = {} /\ answer' = "ok" /\ found' = found
      \/ /\ pc' \in {"rg", "read"} /\ query.tool \in SearchTools /\ files # {}
         /\ todo' = files /\ answer' = answer /\ found' = found
      \/ /\ pc' = "size" /\ query.tool = "recent_pages" /\ Top(found) # {}
         /\ todo' = NamesOf(Top(found)) /\ answer' = answer /\ found' = Top(found)
  BY DEF EndWalk, Return, Goto
<1>5. Top(found) # {} => NamesOf(Top(found)) # {}
  BY DEF NamesOf
<1>6. found' \subseteq found
  BY <1>3, <1>4
<1>7. TypeOK'
  BY <1>1, <1>2, <1>3, <1>4, <1>5, <1>6 DEF TypeOK, Rows, Answers
<1>8. ToolsAreInPlace'
  BY <1>1, <1>4, <1>6 DEF ToolsAreInPlace
<1>9. RgReadTheSpace'
  BY <1>1, <1>4 DEF RgReadTheSpace
<1> QED
  BY <1>1, <1>2, <1>4, <1>6, <1>7, <1>8, <1>9, PlainStep

(* The second stat of recent_pages preserves it. *)
LEMMA SizeIInv == ASSUME IInv, NEW n \in Names, Size(n) PROVE IInv'
<1> USE DEF IInv
<1> DEFINE row == RowOf(found, n)
           new == Row(n, row.first, space[n], "sized")
<1>1. /\ pc = "size" /\ n \in todo /\ query.tool = "recent_pages"
      /\ UNCHANGED <<space, saves, seen, query, dirs, files, rg>>
  BY DEF Size, ToolsAreInPlace, spaceVars, walkVars
<1>2. answer = "none" /\ todo \subseteq NamesOf(found) /\ found \subseteq Rows
  BY <1>1 DEF TypeOK, Rows
<1>3. row \in found /\ row.name = n /\ row \in Rows
  BY <1>1, <1>2, RowOfIsThere
<1>4. RowIsTrue(row) /\ row.kind \notin MatchKinds
  BY <1>1, <1>3 DEF SearchTools, AnswersWereTrue, ToolsAreInPlace
<1>5. space[n] \in Version /\ space[n] \in seen[n]
  BY SpaceIsSeen
<1>6. CASE space[n] = Absent /\ Return("vanished") /\ UNCHANGED found
  <2>1. pc' = "done" /\ todo' = {} /\ answer' = "vanished" /\ found' = found
    BY <1>6 DEF Return
  <2>2. TypeOK'
    BY <1>1, <2>1 DEF TypeOK, Answers
  <2>3. ToolsAreInPlace' /\ RgReadTheSpace' /\ SeenIsCurrent'
    BY <1>1, <2>1 DEF ToolsAreInPlace, RgReadTheSpace, SeenIsCurrent
  <2>4. \A r \in found : RowIsTrue(r)' /\ MatchIsTrue(r)'
    BY <1>1 DEF AnswersWereTrue, RowIsTrue, MatchIsTrue
  <2>5. AnswersWereTrue'
    BY <2>1, <2>4 DEF AnswersWereTrue
  <2>6. n \in NamesOf(found) /\ Absent \in seen[n]
    BY <1>1, <1>2, <1>5, <1>6
  <2>7. OnlyNamedPagesFail'
    BY <1>1, <2>1, <2>6 DEF OnlyNamedPagesFail
  <2> QED
    BY <2>2, <2>3, <2>5, <2>7
<1>7. CASE space[n] # Absent /\ found' = (found \ {row}) \cup {new}
  <2>1. /\ new.name = n /\ new.first = row.first /\ new.then = space[n] /\ new.kind = "sized"
        /\ new \in Rows
    BY <1>3, <1>5 DEF Row, Rows, Kinds
  <2>2. RowIsTrue(new) /\ MatchIsTrue(new)
    BY <1>1, <1>3, <1>4, <1>5, <1>7, <2>1 DEF SearchTools, RowIsTrue, MatchIsTrue, MatchKinds
  <2>3. NamesOf(found') = NamesOf(found)
    BY <1>3, <1>7, <2>1, SameNames
  <2>4. found' \subseteq Rows /\ \A r \in found' : r \in found \/ r = new
    BY <1>2, <1>7, <2>1
  <2>5. \/ pc' = "done" /\ todo' = {} /\ answer' = "ok"
        \/ pc' = "size" /\ todo' = todo \ {n} /\ todo' # {} /\ answer' = answer
    BY <1>1, <1>7 DEF Size, Goto, Return
  <2>6. TypeOK'
    BY <1>1, <1>2, <2>3, <2>4, <2>5 DEF TypeOK, Rows, Answers
  <2>7. ToolsAreInPlace' /\ RgReadTheSpace'
    BY <1>1, <2>1, <2>4, <2>5 DEF ToolsAreInPlace, RgReadTheSpace, MatchKinds
  <2> QED
    BY <1>1, <1>2, <2>2, <2>4, <2>5, <2>6, <2>7, PlainStep
<1> QED
  BY <1>6, <1>7 DEF Size

-------------------------------------------------------------------------------
(* ripgrep's reading of one file preserves the invariant. *)
LEMMA RgReadsIInv == ASSUME IInv, NEW n \in Names, RgReads(n) PROVE IInv'
<1> USE DEF IInv
<1>1. /\ pc = "rg" /\ n \in todo /\ n \in files
      /\ rg' = [rg EXCEPT ![n] = space[n]]
      /\ UNCHANGED <<space, saves, seen, query, found, answer, dirs, files>>
  BY DEF RgReads, spaceVars, Goto, TypeOK
<1>2. \/ pc' = "snippet" /\ todo' = files /\ todo = {n}
      \/ pc' = "rg" /\ todo' = todo \ {n} /\ todo' # {}
  BY <1>1 DEF RgReads, Goto
<1>3. /\ rg \in [Names -> Version] /\ files \subseteq Names
      /\ space[n] \in Version /\ space[n] \in seen[n]
  BY SpaceIsSeen DEF TypeOK
<1>4. rg' \in [Names -> Version]
  BY <1>1, <1>3
<1>5. TypeOK'
  BY <1>1, <1>2, <1>4 DEF TypeOK
<1>6. \A m \in files : (m \notin todo \/ m = n) => rg'[m] \in seen[m]
  BY <1>1, <1>3 DEF RgReadTheSpace
<1>7. RgReadTheSpace'
  BY <1>1, <1>2, <1>6 DEF RgReadTheSpace
<1>8. ToolsAreInPlace' /\ answer' = "none"
  BY <1>1, <1>2 DEF ToolsAreInPlace, TypeOK
<1> QED
  BY <1>1, <1>5, <1>7, <1>8, PlainStep

(* Its failure does. *)
LEMMA RgFailsIInv == IInv /\ RgFails => IInv'
<1> SUFFICES ASSUME IInv, RgFails PROVE IInv'
  OBVIOUS
<1> USE DEF IInv
<1>1. /\ pc = "rg" /\ pc' = "read" /\ todo' = files /\ rg' = NothingRead
      /\ UNCHANGED <<space, saves, seen, query, found, answer, dirs, files>>
  BY DEF RgFails, spaceVars, Goto
<1>2. rg' \in [Names -> Version]
  BY <1>1 DEF NothingRead, Version
<1>3. TypeOK'
  BY <1>1, <1>2 DEF TypeOK
<1>4. ToolsAreInPlace' /\ RgReadTheSpace' /\ answer' = "none"
  BY <1>1 DEF ToolsAreInPlace, RgReadTheSpace, TypeOK
<1> QED
  BY <1>1, <1>3, <1>4, PlainStep

(* A match is added as the body that decided on it says. *)
LEMMA AddMatchIInv ==
    ASSUME IInv, NEW n \in todo, pc \in {"read", "snippet"},
           NEW decided \in Version, decided \in seen[n],
           NEW content \in BOOLEAN,
           query.words = "words" => (content <=> Matches(decided)),
           AddMatch(n, decided, content),
           UNCHANGED <<space, saves, seen, query, dirs, files, rg>>
    PROVE  IInv'
<1> USE DEF IInv
<1> DEFINE new == Row(n, decided, space[n], Kind(n, content))
<1>1. n \in Names /\ answer = "none" /\ found \subseteq Rows /\ query.tool \in SearchTools
  BY DEF TypeOK, Rows, ToolsAreInPlace
<1>2. space[n] \in Version /\ space[n] \in seen[n]
  BY <1>1, SpaceIsSeen
<1>3. /\ new \in Rows /\ new.name = n /\ new.first = decided /\ new.then = space[n]
      /\ new.kind = Kind(n, content) /\ new.kind \in MatchKinds
  BY <1>1, <1>2 DEF Row, Rows, Kinds, Kind, MatchKinds
<1>4. Readable(space[n]) /\ (n \in NameHits \/ content) => RowIsTrue(new) /\ MatchIsTrue(new)
  <2>1. SUFFICES ASSUME Readable(space[n]), n \in NameHits \/ content
                 PROVE  RowIsTrue(new) /\ MatchIsTrue(new)
    OBVIOUS
  <2>2. RowIsTrue(new)
    BY <1>2, <1>3, <2>1 DEF RowIsTrue, Readable, MatchKinds
  <2>3. /\ new.kind \in {"content", "both"} <=> content
        /\ new.kind \in {"name", "both"} <=> n \in NameHits
    BY <1>3, <2>1 DEF Kind
  <2>4. MatchIsTrue(new)
    BY <1>3, <2>3 DEF MatchIsTrue
  <2> QED
    BY <2>2, <2>4
<1>5. \A row \in found' :
         row \in found \/ (row = new /\ Readable(space[n]) /\ (n \in NameHits \/ content))
  <2> DEFINE rows == IF Readable(space[n]) /\ (n \in NameHits \/ content)
                     THEN found \cup {new} ELSE found
  <2>1. found' = Cut(rows) \/ found' = rows
    BY DEF AddMatch
  <2> HIDE DEF new
  <2>2. \A row \in rows :
           row \in found \/ (row = new /\ Readable(space[n]) /\ (n \in NameHits \/ content))
    OBVIOUS
  <2> HIDE DEF rows
  <2>3. Cut(rows) \subseteq rows
    BY DEF Cut, Top
  <2> QED BY <2>1, <2>2, <2>3
<1>6. \/ pc' = "done" /\ todo' = {} /\ answer' = "ok"
      \/ pc' = pc /\ todo' = todo \ {n} /\ todo' # {} /\ answer' = answer
  BY DEF AddMatch, Goto, Return
<1> HIDE DEF new
<1>7. found' \subseteq Rows
  BY <1>1, <1>3, <1>5
<1>8. TypeOK'
  BY <1>1, <1>6, <1>7 DEF TypeOK, Rows, Answers
<1>9. ToolsAreInPlace' /\ RgReadTheSpace'
  BY <1>1, <1>6 DEF ToolsAreInPlace, RgReadTheSpace
<1> QED
  BY <1>1, <1>4, <1>5, <1>6, <1>8, <1>9, PlainStep

(* The reading of a body preserves the invariant, for a decision or for a  *)
(* snippet.                                                                *)
LEMMA ReadIInv == ASSUME IInv, NEW n \in Names, ReadBody(n) \/ ReadSnippet(n) PROVE IInv'
<1> USE DEF IInv
<1>1. /\ n \in todo /\ pc \in {"read", "snippet"} /\ n \in files
      /\ UNCHANGED <<space, saves, seen, query, dirs, files, rg>>
  BY DEF ReadBody, ReadSnippet, spaceVars, walkVars, TypeOK
<1>2. CASE ReadBody(n)
  <2>1. space[n] \in Version /\ space[n] \in seen[n]
    BY SpaceIsSeen
  <2>2. AddMatch(n, space[n], Matches(space[n])) /\ Matches(space[n]) \in BOOLEAN
    BY <1>2 DEF ReadBody, Matches, Readable
  <2> QED
    BY <1>1, <2>1, <2>2, AddMatchIInv
<1>3. CASE ReadSnippet(n)
  <2>1. rg[n] \in Version /\ rg[n] \in seen[n]
    BY <1>1, <1>3 DEF ReadSnippet, RgReadTheSpace, TypeOK
  <2>2. /\ AddMatch(n, rg[n], RgMatches(rg[n])) /\ RgMatches(rg[n]) \in BOOLEAN
        /\ query.words = "words" => (RgMatches(rg[n]) <=> Matches(rg[n]))
    BY <1>3 DEF ReadSnippet, RgMatches, Matches, Readable
  <2> QED
    BY <1>1, <2>1, <2>2, AddMatchIInv
<1> QED
  BY <1>2, <1>3

-------------------------------------------------------------------------------
(* Every step preserves the invariant. *)
LEMMA NextIInv == IInv /\ [Next]_vars => IInv'
<1> SUFFICES ASSUME IInv, [Next]_vars PROVE IInv'
  OBVIOUS
<1>1. CASE UNCHANGED vars
  BY <1>1 DEF vars, IInv, TypeOK, SeenIsCurrent, ToolsAreInPlace, RgReadTheSpace,
     AnswersWereTrue, RowIsTrue, MatchIsTrue, OnlyNamedPagesFail
<1>2. CASE (StartRequest /\ UNCHANGED walkVars) \/ StartWalk
  BY <1>2, StartIInv
<1>3. CASE RequestStep /\ UNCHANGED walkVars
  BY <1>3, ListPagesIInv, ReadPageIInv, PageExistsIInv, GetFailsIInv, HydrateIInv
     DEF RequestStep
<1>4. CASE WalkStep
  BY <1>4, ListDirectoryIInv, VisitIInv, EndWalkIInv, SizeIInv, RgReadsIInv, RgFailsIInv,
     ReadIInv DEF WalkStep
<1>5. CASE EditorSave /\ UNCHANGED walkVars
  BY <1>5, EditorIInv
<1> QED
  BY <1>1, <1>2, <1>3, <1>4, <1>5 DEF Next, QueryStep

(* The inductive invariant holds always. *)
LEMMA SpecIInv == Spec => []IInv
  BY InitIInv, NextIInv, PTL DEF Spec

(* Every variable keeps its kind of value, and a query that runs has a     *)
(* page left to look at.                                                   *)
THEOREM TypeCorrect == Spec => []TypeOK
  BY SpecIInv, PTL DEF IInv

(* What a read-only tool says of a page was so at some instant of the      *)
(* call, however the space changes meanwhile (list_pages with its          *)
(* hydration, the read tools, the journal's walks).                        *)
THEOREM AnswersTrue == Spec => []AnswersWereTrue
  BY SpecIInv, PTL DEF IInv

(* Only a page that the call names, or one of the first of recent_pages,   *)
(* fails a tool by disappearing.                                           *)
THEOREM DisappearanceIsHarmless == Spec => []OnlyNamedPagesFail
  BY SpecIInv, PTL DEF IInv

-------------------------------------------------------------------------------
(***************************************************************************)
(* Which pages an answer has.  A page that nobody touched is the same file *)
(* all along, so what the tool decided of it when it got there is what it  *)
(* should have decided, and only the limit can leave it out.               *)
(***************************************************************************)
ListingTools == ListTools \cup WalkTools

Steady(n) == Untouched(n) /\ (query.tool \in SearchTools => query.words = "words")

Unique(rows) == \A r, s \in rows : r.name = s.name => r = s

(* Which of the files it looked at a walk keeps. *)
Kept(n) ==
    LET file == space[n] IN
    CASE query.tool \in {"histogram", "recent_pages"} -> TRUE
      [] query.tool = "scan"   -> Readable(file)
      [] query.tool \in SearchTools -> Readable(file) /\ (n \in NameHits \/ Matches(file))

Exact(n) ==
    \/ n \in NamesOf(found) /\ Wanted(n)
    \/ n \notin NamesOf(found) /\ ~Wanted(n)
    \/ /\ n \notin NamesOf(found) /\ Limited
       /\ Cardinality(found) = RowLimit
       /\ \A row \in found : Ahead(row, Row(n, space[n], space[n], "listed"))

SeenIsFinite == \A n \in Names : IsFiniteSet(seen[n])

OneRowPerName == query.tool \in ListingTools => Unique(found)

LimitsAreValid ==
    query.tool \in {"recent_pages", "search"} /\ pc \notin {"idle", "done"}
        => query.limit \in Nat /\ query.limit > 0

(* A walk has the files of directories it has listed, the untouched ones   *)
(* all of them.                                                            *)
FilesAreListed ==
    /\ pc = "walk" => query.tool \in WalkTools /\ \A n \in files : Dir[n] \notin dirs
    /\ \A n \in Names : Steady(n) =>
          /\ pc = "walk" =>
                (n \in files <=> n \in query.wanted \cap Markdown /\ Dir[n] \notin dirs)
          /\ pc \in {"rg", "read", "snippet"} =>
                (n \in files <=> n \in query.wanted \cap Markdown)

(* ... and of the untouched files that it has looked at, those it keeps.   *)
RowsAreKept ==
    /\ pc \in {"walk", "read", "snippet"} => NamesOf(found) \subseteq files \ todo
    /\ pc = "rg" \/ (pc = "walk" /\ query.tool \in SearchTools) => found = {}
    /\ pc \in {"read", "snippet"} \/ (pc = "walk" /\ query.tool \notin SearchTools) =>
          \A n \in files \ todo : Steady(n) => (n \in NamesOf(found) <=> Kept(n))

ListsAreExact ==
    query.tool \in ListingTools /\ (pc \in {"hydrate", "size"} \/ answer = "ok") =>
       \A n \in Names : Steady(n) => Exact(n)

ListsAreBounded ==
    Limited /\ (pc = "size" \/ answer = "ok") => Cardinality(found) <= RowLimit

ExactInv ==
    /\ SeenIsFinite
    /\ OneRowPerName
    /\ LimitsAreValid
    /\ FilesAreListed
    /\ RowsAreKept
    /\ ListsAreExact
    /\ ListsAreBounded

EInv == IInv /\ ExactInv

-------------------------------------------------------------------------------
(* An untouched page has been the file it is now.                          *)
LEMMA UntouchedIsSteady ==
    ASSUME SeenIsFinite, SeenIsCurrent, NEW n \in Names, Untouched(n)
    PROVE  seen[n] = {space[n]} /\ space[n] # Absent
<1>1. \E x : seen[n] = {x}
  BY FS_Singleton DEF SeenIsFinite, Untouched
<1> QED
  BY <1>1 DEF SeenIsCurrent, Untouched

(* Rows of different names are as many as their names.                     *)
LEMMA RowsAreCounted ==
    ASSUME NEW rows \in SUBSET Rows, Unique(rows)
    PROVE  /\ IsFiniteSet(rows)
           /\ Cardinality(rows) \in Nat
           /\ Cardinality(rows) = Cardinality(NamesOf(rows))
<1> DEFINE f == [r \in rows |-> r.name]
<1>1. f \in [rows -> NamesOf(rows)] /\ \A r \in rows : f[r] = r.name
  BY DEF NamesOf
<1>2. NamesOf(rows) \in SUBSET Names
  BY DEF NamesOf, Rows
<1>3. IsFiniteSet(NamesOf(rows))
  BY <1>2, FiniteNames, FS_Subset
<1> HIDE DEF f
<1>6. f \in Injection(rows, NamesOf(rows))
  BY <1>1 DEF Unique, Injection, IsInjective
<1>7. f \in Surjection(rows, NamesOf(rows))
  BY <1>1 DEF NamesOf, Surjection
<1>4. f \in Injection(rows, NamesOf(rows)) /\ f \in Surjection(rows, NamesOf(rows))
  BY <1>6, <1>7
<1>5. /\ IsFiniteSet(rows)
      /\ Cardinality(rows) = Cardinality(NamesOf(rows)) <=> f \in Surjection(rows, NamesOf(rows))
  <2> HIDE DEF f
  <2> QED BY <1>3, <1>4, FS_Injection
<1> QED
  BY <1>4, <1>5, FS_CardinalityType

(* The order of the answers is one: by the modification time, the latest   *)
(* first, and by the name, or by the name alone.                           *)
LEMMA AheadIsAnOrder ==
    ASSUME NEW rows \in SUBSET Rows, Unique(rows),
           query.tool = "recent_pages" => \A r \in rows : r.first # Absent
    PROVE  StrictOrder({p \in rows \X rows : Ahead(p[1], p[2])}, rows)
<1> DEFINE R == {p \in rows \X rows : Ahead(p[1], p[2])}
<1>1. \A r \in rows : /\ r.name \in Names /\ Order[r.name] \in Nat
                      /\ query.tool = "recent_pages" => r.first.saved \in Nat
  BY WalkAssumption DEF Rows, Version, File
<1>2. \A r, s \in rows : <<r, s>> \in R <=> Ahead(r, s)
  OBVIOUS
<1>3. \A r, s \in rows : Order[r.name] = Order[s.name] => r = s
  BY <1>1, WalkAssumption DEF Unique
<1> HIDE DEF R
<1>4. \A r \in rows : <<r, r>> \notin R
  BY <1>1, <1>2 DEF Ahead
<1>5. \A r, s, t \in rows : <<r, s>> \in R /\ <<s, t>> \in R => <<r, t>> \in R
  BY <1>1, <1>2 DEF Ahead
<1>6. ASSUME NEW r \in rows, NEW s \in rows
      PROVE  r = s \/ <<r, s>> \in R \/ <<s, r>> \in R
  <2>1. CASE query.tool = "recent_pages" /\ r.first.saved # s.first.saved
    BY <1>1, <1>2, <2>1 DEF Ahead
  <2>2. CASE ~(query.tool = "recent_pages" /\ r.first.saved # s.first.saved)
    <3>1. (Ahead(r, s) <=> Order[r.name] < Order[s.name])
          /\ (Ahead(s, r) <=> Order[s.name] < Order[r.name])
      BY <2>2 DEF Ahead
    <3>2. Order[r.name] \in Nat /\ Order[s.name] \in Nat
      BY <1>1
    <3> QED
      BY <1>2, <1>3, <3>1, <3>2
  <2> QED
    BY <2>1, <2>2
<1> QED
  BY <1>4, <1>5, <1>6 DEF StrictOrder, R

(* The cut keeps as many rows as the limit allows, and only rows that come *)
(* before what it leaves out.                                              *)
LEMMA TopIsCut ==
    ASSUME NEW rows \in SUBSET Rows, Unique(rows), query.limit \in Nat,
           query.tool = "recent_pages" => \A r \in rows : r.first # Absent
    PROVE  /\ Top(rows) \subseteq rows
           /\ Cardinality(Top(rows)) \in Nat
           /\ Cardinality(Top(rows)) <= query.limit
           /\ \A x \in rows \ Top(rows) : /\ Cardinality(Top(rows)) = query.limit
                                          /\ \A y \in Top(rows) : Ahead(y, x)
<1> DEFINE R == {p \in rows \X rows : Ahead(p[1], p[2])}
<1>1. StrictOrder(R, rows) /\ IsFiniteSet(rows)
  BY AheadIsAnOrder, RowsAreCounted
<1>2. \A r, s \in rows : <<r, s>> \in R <=> Ahead(r, s)
  OBVIOUS
<1>3. Top(rows) = Firsts(query.limit, R, rows)
  <2>1. \A x \in rows : Before(x, R, rows) = {s \in rows : Ahead(s, x)}
    BY <1>2 DEF Before
  <2> HIDE DEF R
  <2> QED BY <2>1 DEF Top, Firsts
<1>4. Top(rows) \subseteq rows
  BY DEF Top
<1> HIDE DEF R
<1>5. Cardinality(Top(rows)) \in Nat /\ Cardinality(Top(rows)) <= query.limit
  BY <1>1, <1>3, FirstsAreFew
<1>6. ASSUME NEW x \in rows \ Top(rows)
      PROVE  /\ Cardinality(Top(rows)) = query.limit
             /\ \A y \in Top(rows) : Ahead(y, x)
  <2>1. x \in rows /\ x \notin Firsts(query.limit, R, rows)
    BY <1>3, <1>6
  <2>2. /\ Cardinality(Firsts(query.limit, R, rows)) = query.limit
        /\ \A y \in Firsts(query.limit, R, rows) : <<y, x>> \in R
    BY <1>1, <2>1, FirstsAreFirst
  <2> QED BY <1>2, <1>3, <1>4, <2>1, <2>2
<1> QED
  BY <1>4, <1>5, <1>6

(* A step of a query leaves what the tools decide of a file as it was.     *)
LEMMA SameDecisions ==
    ASSUME UNCHANGED <<space, seen, query>>
    PROVE  /\ \A n : Steady(n)' <=> Steady(n)
           /\ \A n : Wanted(n)' <=> Wanted(n)
           /\ \A n : Kept(n)' <=> Kept(n)
           /\ \A r, s : Ahead(r, s)' <=> Ahead(r, s)
           /\ Limited' <=> Limited
           /\ RowLimit' = RowLimit
<1>1. \A n : Steady(n)' <=> Steady(n)
  BY DEF Steady, Untouched
<1>2. \A n : Wanted(n)' <=> Wanted(n)
  BY DEF Wanted
<1>3. \A n : Kept(n)' <=> Kept(n)
  BY DEF Kept
<1>4. \A r, s : Ahead(r, s)' <=> Ahead(r, s)
  BY DEF Ahead
<1>5. (Limited' <=> Limited) /\ RowLimit' = RowLimit
  BY DEF Limited, RowLimit
<1> QED
  BY <1>1, <1>2, <1>3, <1>4, <1>5

(* An answer that has the pages it should have, all of them.               *)
LEMMA WholeIsExact ==
    ASSUME UNCHANGED <<space, seen, query>>,
           \A n \in Names : Steady(n) => (n \in NamesOf(found') <=> Wanted(n))
    PROVE  ListsAreExact'
<1>1. \A n \in Names : Steady(n)' => (n \in NamesOf(found') <=> Wanted(n)')
  BY SameDecisions
<1> QED
  BY <1>1 DEF ListsAreExact, Exact, NamesOf

(* An answer that has the first of them.                                   *)
LEMMA TopIsExact ==
    ASSUME UNCHANGED <<space, seen, query>>, SeenIsFinite, SeenIsCurrent,
           Limited, query.limit \in Nat,
           NEW rows \in SUBSET Rows, Unique(rows), found' = Top(rows),
           query.tool = "recent_pages" =>
              \A r \in rows : r.first \in seen[r.name] /\ r.first # Absent,
           \A n \in Names : Steady(n) => (n \in NamesOf(rows) <=> Wanted(n))
    PROVE  ListsAreExact' /\ ListsAreBounded' /\ OneRowPerName'
<1>1. /\ Top(rows) \subseteq rows
      /\ Cardinality(Top(rows)) <= query.limit
      /\ \A x \in rows \ Top(rows) : /\ Cardinality(Top(rows)) = query.limit
                                     /\ \A y \in Top(rows) : Ahead(y, x)
  BY TopIsCut
<1>2. RowLimit = query.limit
  BY DEF RowLimit
<1>3. ASSUME NEW n \in Names, Steady(n) PROVE Exact(n)'
  <2>1. CASE ~Wanted(n)
    <3>1. n \notin NamesOf(Top(rows))
      BY <1>1, <1>3, <2>1 DEF NamesOf
    <3> QED
      BY <2>1, <3>1, SameDecisions DEF Exact, NamesOf
  <2>2. CASE Wanted(n) /\ n \in NamesOf(Top(rows))
    BY <2>2, SameDecisions DEF Exact, NamesOf
  <2>3. CASE Wanted(n) /\ n \notin NamesOf(Top(rows))
    <3>1. PICK x \in rows : x.name = n
      BY <1>3, <2>3 DEF NamesOf
    <3>2. x \in rows \ Top(rows)
      BY <2>3, <3>1 DEF NamesOf
    <3>3. query.tool = "recent_pages" => x.first = space[n]
      BY <1>3, <3>1, UntouchedIsSteady DEF Steady
    <3> DEFINE listed == Row(n, space[n], space[n], "listed")
    <3>4. listed.name = n /\ listed.first = space[n]
      BY DEF Row
    <3>5. \A y \in Top(rows) : Ahead(y, listed)
      BY <1>1, <3>1, <3>2, <3>3, <3>4 DEF Ahead
    <3>6. \A y \in found' : Ahead(y, listed)'
      <4> HIDE DEF listed
      <4>1. \A y \in found' : Ahead(y, listed)
        BY <3>5
      <4>2. listed' = listed
        BY DEF listed
      <4>3. \A y : (query.tool = "recent_pages" /\ y.first.saved # listed.first.saved)' <=>
                   (query.tool = "recent_pages" /\ y.first.saved # listed.first.saved)
        BY <4>2
      <4> QED
        BY <4>1, <4>2, SameDecisions DEF Ahead
    <3>7. Cardinality(found') = RowLimit'
      BY <1>1, <1>2, <3>2, SameDecisions
    <3>8. Limited' /\ n \notin NamesOf(found')
      BY <2>3, SameDecisions
    <3> QED
      BY <3>6, <3>7, <3>8 DEF Exact, NamesOf
  <2> QED
    BY <2>1, <2>2, <2>3
<1>4. ListsAreExact'
  BY <1>3, SameDecisions DEF ListsAreExact
<1>5. ListsAreBounded'
  BY <1>1, <1>2, SameDecisions DEF ListsAreBounded
<1>6. OneRowPerName'
  BY <1>1 DEF OneRowPerName, Unique
<1> QED
  BY <1>4, <1>5, <1>6

(* A row that is completed stays the row it was.                           *)
LEMMA CompletedIsExact ==
    ASSUME UNCHANGED <<space, seen, query>>,
           found \in SUBSET Rows, Unique(found),
           NEW row \in found, NEW new \in Rows,
           new.name = row.name, new.first = row.first,
           found' = (found \ {row}) \cup {new}
    PROVE  /\ Unique(found)'
           /\ Cardinality(found') = Cardinality(found)
           /\ \A n : Exact(n) => Exact(n)'
<1>1. NamesOf(found') = NamesOf(found)
  BY SameNames
<1>2. Unique(found)'
  BY DEF Unique
<1>3. Cardinality(found') = Cardinality(found)
  <2>1. Unique(found')
    BY <1>2 DEF Unique
  <2> QED
    BY <1>1, <2>1, RowsAreCounted
<1>4. ASSUME NEW n, Exact(n) PROVE Exact(n)'
  <2> DEFINE listed == Row(n, space[n], space[n], "listed")
  <2>1. listed' = listed
    OBVIOUS
  <2> HIDE DEF listed
  <2>2. (\A r \in found : Ahead(r, listed)) => \A r \in found' : Ahead(r, listed)
    BY DEF Ahead
  <2>3. (\A r \in found' : Ahead(r, listed)) => \A r \in found' : Ahead(r, listed)'
    BY <2>1 DEF Ahead
  <2>4. (n \in NamesOf(found))' <=> n \in NamesOf(found)
    BY <1>1 DEF NamesOf
  <2> QED
    BY <1>3, <1>4, <2>2, <2>3, <2>4, SameDecisions DEF Exact, listed
<1> QED
  BY <1>2, <1>3, <1>4

-------------------------------------------------------------------------------
(* The invariant holds in the initial states. *)
LEMMA InitEInv == Init => EInv
<1> SUFFICES ASSUME Init PROVE ExactInv
  BY InitIInv DEF EInv
<1>1. /\ seen = [n \in Names |-> {space[n]}] /\ query = NoQuery /\ pc = "idle"
      /\ found = {} /\ answer = "none"
  BY DEF Init, InitSpace
<1>2. SeenIsFinite
  BY <1>1, FS_Singleton DEF SeenIsFinite
<1>3. OneRowPerName
  BY <1>1 DEF OneRowPerName, Unique
<1>4. LimitsAreValid /\ FilesAreListed /\ RowsAreKept
  BY <1>1 DEF LimitsAreValid, FilesAreListed, RowsAreKept
<1>5. ListsAreExact /\ ListsAreBounded
  BY <1>1 DEF ListsAreExact, ListsAreBounded
<1> QED
  BY <1>2, <1>3, <1>4, <1>5 DEF ExactInv

(* A call's first step has no row yet, and answers right away only with    *)
(* none: recent_pages for a limit of 0 or less.                            *)
LEMMA StartExact ==
    ASSUME EInv, (StartRequest /\ UNCHANGED walkVars) \/ StartWalk
    PROVE  ExactInv'
<1>1. PICK q \in Queries :
         /\ pc = "idle" /\ answer = "none" /\ query' = q
         /\ seen' = [n \in Names |-> {space[n]}] /\ found' = {} /\ space' = space
         /\ \/ /\ q.tool \in ListTools \cup ReadTools
               /\ pc' = "get" /\ answer' = "none"
            \/ /\ q.tool \in WalkTools /\ StartAnswer(q) = "none"
               /\ pc' = "walk" /\ todo' = {} /\ answer' = "none"
               /\ dirs' = {Dir[n] : n \in Names} /\ files' = {}
            \/ /\ q.tool \in WalkTools /\ StartAnswer(q) # "none"
               /\ pc' = "done" /\ answer' = StartAnswer(q)
  <2>1. CASE StartRequest
    BY <2>1 DEF StartRequest, BeginQuery, Goto, EInv, IInv, TypeOK
  <2>2. CASE StartWalk
    BY <2>2 DEF StartWalk, BeginQuery, Goto, Return, EInv, IInv, TypeOK
  <2> QED
    BY <2>1, <2>2
<1>2. SeenIsFinite'
  BY <1>1, FS_Singleton DEF SeenIsFinite
<1>3. OneRowPerName'
  BY <1>1 DEF OneRowPerName, Unique
<1>4. LimitsAreValid'
  BY <1>1, WalkAssumption
     DEF LimitsAreValid, StartAnswer, SearchHardLimit, ListTools, ReadTools
<1>5. FilesAreListed'
  BY <1>1 DEF FilesAreListed
<1>6. RowsAreKept'
  BY <1>1 DEF RowsAreKept, NamesOf
<1>7. ListsAreExact' /\ ListsAreBounded'
  <2>1. CASE answer' # "ok"
    BY <1>1, <2>1 DEF ListsAreExact, ListsAreBounded
  <2>2. CASE answer' = "ok"
    <3>1. q.tool = "recent_pages" /\ q.limit \in Int /\ q.limit <= 0
      BY <1>1, <2>2, WalkAssumption DEF StartAnswer
    <3>2. Limited' /\ RowLimit' = 0
      BY <1>1, <3>1 DEF Limited, RowLimit
    <3>3. Cardinality(found') = 0
      BY <1>1, FS_EmptySet
    <3>4. \A n : Exact(n)'
      BY <1>1, <3>2, <3>3 DEF Exact, NamesOf
    <3> QED
      BY <3>2, <3>3, <3>4 DEF ListsAreExact, ListsAreBounded
  <2> QED
    BY <2>1, <2>2
<1> QED
  BY <1>2, <1>3, <1>4, <1>5, <1>6, <1>7 DEF ExactInv

(* An outside writer's step leaves fewer pages untouched, each as it was.  *)
LEMMA EditorExact ==
    ASSUME EInv, EditorSave, UNCHANGED walkVars, IInv'
    PROVE  ExactInv'
<1>1. /\ UNCHANGED <<query, pc, todo, found, answer, dirs, files, rg>>
      /\ pc \notin {"idle", "done"}
  BY DEF EditorSave, queryVars, walkVars
<1>2. PICK new : Replace(new)
  BY DEF EditorSave
<1>3. /\ SeenIsFinite /\ SeenIsCurrent /\ SeenIsCurrent'
      /\ DOMAIN seen = Names /\ space' \in [Names -> Version]
  BY DEF EInv, IInv, ExactInv, TypeOK
<1>4. \A n \in Names : seen'[n] = seen[n] \cup {new[n]}
  BY <1>2 DEF Replace
<1>5. SeenIsFinite'
  <2>1. ASSUME NEW n \in Names PROVE IsFiniteSet(seen[n] \cup {new[n]})
    BY <1>3, FS_AddElement DEF SeenIsFinite
  <2> QED
    BY <1>4, <2>1 DEF SeenIsFinite
<1>6. ASSUME NEW n \in Names, Steady(n)'
      PROVE  Steady(n) /\ space'[n] = space[n]
  <2>1. seen'[n] = {space'[n]} /\ space'[n] # Absent
    <3>1. IsFiniteSet(seen'[n]) /\ Cardinality(seen'[n]) = 1 /\ Absent \notin seen'[n]
      BY <1>5, <1>6 DEF Steady, Untouched, SeenIsFinite
    <3>2. \E x : seen'[n] = {x}
      BY <3>1, FS_Singleton
    <3> QED
      BY <1>3, <3>1, <3>2 DEF SeenIsCurrent
  <2>2. seen[n] = {space'[n]} /\ space'[n] = space[n]
    BY <1>3, <1>4, <2>1 DEF SeenIsCurrent
  <2>3. Cardinality(seen[n]) = 1 /\ Absent \notin seen[n]
    BY <2>1, <2>2, FS_Singleton
  <2> QED
    BY <1>1, <1>6, <2>2, <2>3 DEF Steady, Untouched
<1>7. ASSUME NEW n \in Names, Steady(n)'
      PROVE  (Kept(n)' <=> Kept(n)) /\ (Wanted(n)' <=> Wanted(n)) /\ (Exact(n) => Exact(n)')
  <2>1. space'[n] = space[n]
    BY <1>6, <1>7
  <2>2. Kept(n)' <=> Kept(n)
    BY <1>1, <2>1 DEF Kept
  <2>3. Wanted(n)' <=> Wanted(n)
    BY <1>1, <2>1 DEF Wanted
  <2> DEFINE listed == Row(n, space[n], space[n], "listed")
  <2>4. listed' = listed
    BY <2>1
  <2> HIDE DEF listed
  <2>5. (\A r \in found : Ahead(r, listed)) => \A r \in found' : Ahead(r, listed)'
    BY <1>1, <2>4 DEF Ahead
  <2>6. (Limited' <=> Limited) /\ RowLimit' = RowLimit
    BY <1>1 DEF Limited, RowLimit
  <2>7. Exact(n) => Exact(n)'
    BY <1>1, <2>3, <2>5, <2>6 DEF Exact, listed
  <2> QED
    BY <2>2, <2>3, <2>7
<1>8. OneRowPerName' /\ LimitsAreValid' /\ ListsAreBounded'
  BY <1>1 DEF EInv, ExactInv, OneRowPerName, LimitsAreValid, ListsAreBounded, Limited, RowLimit
<1>9. FilesAreListed'
  BY <1>1, <1>6 DEF EInv, ExactInv, FilesAreListed
<1>10. RowsAreKept'
  BY <1>1, <1>3, <1>6, <1>7 DEF EInv, IInv, TypeOK, ExactInv, RowsAreKept
<1>11. ListsAreExact'
  BY <1>1, <1>6, <1>7 DEF EInv, ExactInv, ListsAreExact
<1> QED
  BY <1>5, <1>8, <1>9, <1>10, <1>11 DEF ExactInv

(* What a step of a query leaves as it was.                                *)
LEMMA QueryExact ==
    ASSUME EInv, UNCHANGED <<space, seen, query>>, pc \notin {"idle", "done"},
           OneRowPerName', FilesAreListed', RowsAreKept', ListsAreExact', ListsAreBounded'
    PROVE  ExactInv'
  BY DEF EInv, ExactInv, SeenIsFinite, LimitsAreValid

(* A step to a place where no walk is any more.                            *)
LEMMA QueryEndExact ==
    ASSUME EInv, UNCHANGED <<space, seen, query>>, pc \notin {"idle", "done"},
           pc' \notin {"walk", "rg", "read", "snippet"},
           OneRowPerName', ListsAreExact', ListsAreBounded'
    PROVE  ExactInv'
<1>1. FilesAreListed' /\ RowsAreKept'
  BY DEF FilesAreListed, RowsAreKept
<1> QED
  BY <1>1, QueryExact

(* GET /.fs has every page of the space.                                   *)
LEMMA ListPagesExact ==
    ASSUME EInv, ListPages
    PROVE  ExactInv'
<1> DEFINE rows == {Row(n, space[n], space[n], "listed") : n \in Present \cap query.wanted}
<1>1. /\ query.tool = "list_pages" /\ found' = rows /\ pc = "get"
      /\ UNCHANGED <<space, seen, query>>
      /\ pc' \in {"hydrate", "done"}
  BY DEF ListPages, spaceVars, Goto, Return
<1>2. NamesOf(rows) = Present \cap query.wanted /\ Unique(rows)
  <2> DEFINE RowAt(n) == Row(n, space[n], space[n], "listed")
  <2>1. \A n : RowAt(n).name = n
    BY DEF Row
  <2>2. /\ \A r \in rows : \E n \in Present \cap query.wanted : r = RowAt(n)
        /\ \A n \in Present \cap query.wanted : RowAt(n) \in rows
    OBVIOUS
  <2> HIDE DEF rows, RowAt
  <2> QED
    BY <2>1, <2>2 DEF NamesOf, Unique
<1> HIDE DEF rows
<1>3. OneRowPerName'
  BY <1>1, <1>2 DEF OneRowPerName, Unique
<1>4. \A n \in Names : Steady(n) => (n \in NamesOf(found') <=> Wanted(n))
  <2> SUFFICES ASSUME NEW n \in Names, Steady(n)
               PROVE  n \in NamesOf(found') <=> Wanted(n)
    OBVIOUS
  <2>1. space[n] # Absent
    BY UntouchedIsSteady DEF EInv, IInv, ExactInv, Steady
  <2>2. Wanted(n) <=> n \in query.wanted
    BY <1>1 DEF SearchTools, Wanted
  <2> QED
    BY <1>1, <1>2, <2>1, <2>2 DEF Present
<1>5. ListsAreExact'
  BY <1>1, <1>4, WholeIsExact
<1>6. ListsAreBounded'
  BY <1>1 DEF ListsAreBounded, Limited
<1> QED
  BY <1>1, <1>3, <1>5, <1>6, QueryEndExact

(* A hydrated list has the rows it had.                                    *)
LEMMA HydrateExact ==
    ASSUME EInv, NEW n \in Names, Hydrate(n) \/ HydrateSkipped(n) \/ HydrateRaises(n)
    PROVE  ExactInv'
<1> DEFINE row == RowOf(found, n)
           new == Row(n, row.first, space[Resolved[n]], "hydrated")
<1>1. /\ pc = "hydrate" /\ n \in todo /\ query.tool = "list_pages"
      /\ UNCHANGED <<space, seen, query>>
      /\ pc' \in {"hydrate", "done"}
      /\ query.tool \in ListingTools
  BY DEF Hydrate, HydrateSkipped, HydrateRaises, NextRow, Goto, Return, EInv, IInv,
     ToolsAreInPlace, spaceVars, ListingTools, ListTools
<1>2. /\ found \in SUBSET Rows /\ row \in found /\ row.name = n /\ Unique(found)
      /\ \A m \in Names : Steady(m) => Exact(m)
  BY <1>1, RowOfIsThere
     DEF EInv, IInv, TypeOK, Rows, ExactInv, OneRowPerName, ListsAreExact
<1>3. Unique(found)' /\ \A m : Exact(m) => Exact(m)'
  <2>1. CASE found' = found
    <3>1. \A m : Exact(m) => Exact(m)'
      BY <1>1, <2>1 DEF Exact, Wanted, Limited, RowLimit, Ahead
    <3> QED
      BY <1>2, <2>1, <3>1 DEF Unique
  <2>2. CASE found' = (found \ {row}) \cup {new}
    <3>1. space[Resolved[n]] \in Version /\ row \in Rows
      BY <1>2, ResolvedAssumption DEF EInv, IInv, TypeOK
    <3>2. new \in Rows /\ new.name = row.name /\ new.first = row.first
      BY <1>2, <3>1 DEF Row, Rows, Kinds
    <3> HIDE DEF row, new
    <3> QED
      BY <1>1, <1>2, <2>2, <3>2, CompletedIsExact
  <2> QED
    BY <2>1, <2>2 DEF Hydrate, HydrateSkipped, HydrateRaises
<1>4. OneRowPerName'
  BY <1>3 DEF OneRowPerName
<1>5. ListsAreExact'
  BY <1>1, <1>2, <1>3, SameDecisions DEF ListsAreExact
<1>6. ListsAreBounded'
  BY <1>1 DEF ListsAreBounded, Limited
<1> QED
  BY <1>1, <1>4, <1>5, <1>6, QueryEndExact

(* The tools that read pages by their names list none, and a GET that      *)
(* fails lists none.                                                       *)
LEMMA ReadsExact ==
    ASSUME EInv, ReadPage \/ PageExists \/ GetFails
    PROVE  ExactInv'
<1>1. /\ pc = "get" /\ UNCHANGED <<space, seen, query>>
      /\ pc' \in {"get", "done"}
      /\ \/ query.tool \in ReadTools
         \/ found' = found /\ answer' \in {"error", "raised"}
  BY DEF ReadPage, PageExists, GetFails, ReadTools, spaceVars, Goto, Return
<1>2. query.tool \in ReadTools => query.tool \notin ListingTools /\ ~Limited
  BY DEF SearchTools, ReadTools, ListingTools, ListTools, WalkTools, Limited
<1>3. OneRowPerName'
  BY <1>1, <1>2 DEF EInv, ExactInv, OneRowPerName, Unique
<1>4. ListsAreExact' /\ ListsAreBounded'
  BY <1>1, <1>2, SameDecisions DEF ListsAreExact, ListsAreBounded
<1> QED
  BY <1>1, <1>3, <1>4, QueryEndExact

(* A directory has its untouched files.                                    *)
LEMMA ListDirectoryExact ==
    ASSUME EInv, NEW d \in dirs, ListDirectory(d)
    PROVE  ExactInv'
<1> DEFINE here == {n \in Present \cap Markdown \cap query.wanted : Dir[n] = d}
<1>1. /\ pc = "walk" /\ pc' = "walk" /\ answer = "none"
      /\ UNCHANGED <<space, seen, query, found, answer>>
      /\ files' = files \cup here /\ todo' = todo \cup here /\ dirs' = dirs \ {d}
  BY DEF ListDirectory, spaceVars, EInv, IInv, TypeOK
<1>2. \A n \in Names : Steady(n) => space[n] # Absent
  BY UntouchedIsSteady DEF EInv, IInv, ExactInv, Steady
<1>3. FilesAreListed'
  <2>1. query.tool \in WalkTools /\ \A n \in files : Dir[n] \notin dirs
    BY <1>1 DEF EInv, ExactInv, FilesAreListed
  <2>2. \A n \in files' : Dir[n] \notin dirs'
    BY <1>1, <2>1
  <2>3. ASSUME NEW n \in Names, Steady(n)
        PROVE  n \in files' <=> n \in query.wanted \cap Markdown /\ Dir[n] \notin dirs'
    <3>1. n \in files <=> n \in query.wanted \cap Markdown /\ Dir[n] \notin dirs
      BY <1>1, <2>3 DEF EInv, ExactInv, FilesAreListed
    <3>2. n \in here <=> n \in query.wanted \cap Markdown /\ Dir[n] = d
      BY <1>2, <2>3 DEF Present
    <3> HIDE DEF here
    <3> QED
      BY <1>1, <3>1, <3>2
  <2> QED
    BY <1>1, <2>1, <2>2, <2>3, SameDecisions DEF FilesAreListed
<1>4. RowsAreKept'
  <2>1. /\ NamesOf(found) \subseteq files \ todo
        /\ query.tool \in SearchTools => found = {}
        /\ query.tool \notin SearchTools =>
              \A n \in files \ todo : Steady(n) => (n \in NamesOf(found) <=> Kept(n))
    BY <1>1 DEF EInv, ExactInv, RowsAreKept
  <2>2. files' \ todo' \subseteq files \ todo
    BY <1>1
  <2>3. here \cap files = {}
    BY <1>1 DEF EInv, ExactInv, FilesAreListed
  <2>4. NamesOf(found') \subseteq files' \ todo'
    BY <1>1, <2>1, <2>3
  <2> QED
    BY <1>1, <2>1, <2>2, <2>4, SameDecisions DEF RowsAreKept, NamesOf
<1>5. OneRowPerName' /\ ListsAreExact' /\ ListsAreBounded'
  BY <1>1 DEF EInv, ExactInv, OneRowPerName, Unique, ListsAreExact, ListsAreBounded
<1> QED
  BY <1>1, <1>3, <1>4, <1>5, QueryExact

(* A file that is looked at is kept or not as it should be.                *)
LEMMA VisitExact ==
    ASSUME EInv, NEW n \in Names, Visit(n)
    PROVE  ExactInv'
<1> DEFINE new == Row(n, space[n], space[n], "visited")
           skipped == space[n] = Absent \/ (query.tool = "scan" /\ ~Readable(space[n]))
<1>1. /\ pc = "walk" /\ pc' = "walk" /\ answer = "none" /\ answer' = answer
      /\ query.tool \notin SearchTools /\ n \in todo /\ n \in files /\ todo' = todo \ {n}
      /\ UNCHANGED <<space, seen, query, dirs, files>>
      /\ query.tool \in {"histogram", "scan", "recent_pages"}
      /\ found' = IF skipped THEN found ELSE found \cup {new}
  BY DEF Visit, Goto, spaceVars, walkVars, EInv, IInv, TypeOK, ExactInv, FilesAreListed, WalkTools
<1>2. new.name = n
  BY DEF Row
<1>3. /\ NamesOf(found) \subseteq files \ todo
      /\ \A m \in files \ todo : Steady(m) => (m \in NamesOf(found) <=> Kept(m))
      /\ Unique(found)
  BY <1>1 DEF EInv, ExactInv, RowsAreKept, OneRowPerName, ListingTools, WalkTools
<1>4. Steady(n) => (Kept(n) <=> ~skipped)
  BY <1>1, UntouchedIsSteady DEF EInv, IInv, ExactInv, Steady, Kept, Readable
<1> HIDE DEF new, skipped
<1>5. NamesOf(found') = IF skipped THEN NamesOf(found) ELSE NamesOf(found) \cup {n}
  BY <1>1, <1>2 DEF NamesOf
<1>6. OneRowPerName'
  BY <1>1, <1>2, <1>3 DEF OneRowPerName, Unique, NamesOf
<1>7. FilesAreListed'
  BY <1>1, SameDecisions DEF EInv, ExactInv, FilesAreListed
<1>8. RowsAreKept'
  <2>1. NamesOf(found') \subseteq files' \ todo'
    BY <1>1, <1>3, <1>5
  <2>2. \A m \in files' \ todo' : Steady(m) => (m \in NamesOf(found') <=> Kept(m))
    BY <1>1, <1>3, <1>4, <1>5
  <2> QED
    BY <1>1, <2>1, <2>2, SameDecisions DEF RowsAreKept, NamesOf
<1>9. ListsAreExact' /\ ListsAreBounded'
  BY <1>1 DEF ListsAreExact, ListsAreBounded
<1> QED
  BY <1>1, <1>6, <1>7, <1>8, <1>9, QueryExact

(* The walk is over: all the untouched files it wants are listed, and the  *)
(* tools that look at them as they go have their rows.                     *)
LEMMA EndWalkExact ==
    ASSUME EInv, EndWalk
    PROVE  ExactInv'
<1>1. /\ pc = "walk" /\ answer = "none" /\ dirs = {}
      /\ UNCHANGED <<space, seen, query, dirs, files>>
      /\ query.tool \in WalkTools /\ query.tool \in ListingTools /\ Unique(found)
      /\ SeenIsFinite /\ SeenIsCurrent /\ found \in SUBSET Rows
  BY DEF EndWalk, spaceVars, walkVars, EInv, IInv, TypeOK, Rows, ExactInv, FilesAreListed,
     OneRowPerName, ListingTools
<1>2. \A n \in Names : Steady(n) => (n \in files <=> n \in query.wanted \cap Markdown)
  BY <1>1 DEF EInv, ExactInv, FilesAreListed
<1>3. CASE query.tool \in SearchTools
  <2>1. found = {} /\ found' = {} /\ (Limited => query.limit \in Nat)
    BY <1>1, <1>3 DEF EInv, ExactInv, RowsAreKept, LimitsAreValid, EndWalk, Limited
  <2>2. OneRowPerName'
    BY <2>1 DEF OneRowPerName, Unique
  <2>3. CASE files = {}
    <3>1. pc' = "done" /\ answer' = "ok"
      BY <1>3, <2>3 DEF EndWalk, Return
    <3>2. \A n \in Names : Steady(n) => (n \in NamesOf(found') <=> Wanted(n))
      BY <1>2, <1>3, <2>1, <2>3 DEF SearchTools, NamesOf, Wanted
    <3>3. ListsAreExact'
      BY <1>1, <3>2, WholeIsExact
    <3>4. ListsAreBounded'
      <4>1. Cardinality(found') = 0
        BY <2>1, FS_EmptySet
      <4>2. Limited' => RowLimit' \in Nat
        BY <1>1, <2>1 DEF Limited, RowLimit
      <4> QED
        BY <4>1, <4>2 DEF ListsAreBounded
    <3> QED
      BY <1>1, <2>2, <3>1, <3>3, <3>4, QueryEndExact
  <2>4. CASE files # {}
    <3>1. pc' \in {"rg", "read"} /\ todo' = files /\ answer' = answer
      BY <1>3, <2>4 DEF EndWalk, Goto
    <3>2. FilesAreListed'
      BY <1>1, <1>2, <3>1, SameDecisions DEF FilesAreListed
    <3>3. RowsAreKept'
      BY <1>1, <2>1, <3>1 DEF RowsAreKept, NamesOf
    <3>4. ListsAreExact' /\ ListsAreBounded'
      BY <1>1, <3>1 DEF ListsAreExact, ListsAreBounded
    <3> QED
      BY <1>1, <2>2, <3>2, <3>3, <3>4, QueryExact
  <2> QED
    BY <2>3, <2>4
<1>4. CASE query.tool \notin SearchTools
  <2>1. todo = {} /\ \A n \in files : Steady(n) => (n \in NamesOf(found) <=> Kept(n))
    BY <1>1, <1>4 DEF EndWalk, EInv, ExactInv, RowsAreKept
  <2>2. NamesOf(found) \subseteq files
    BY <1>1 DEF EInv, ExactInv, RowsAreKept
  <2>3. ASSUME NEW n \in Names, Steady(n)
        PROVE  n \in NamesOf(found) <=> Wanted(n)
    <3>1. Wanted(n) <=> n \in query.wanted \cap Markdown /\ Kept(n)
      BY <1>1, <1>4 DEF Wanted, Kept, WalkTools
    <3> QED
      BY <1>2, <2>1, <2>2, <2>3, <3>1
  <2>4. CASE query.tool = "recent_pages"
    <3>1. query.limit \in Nat /\ query.limit > 0 /\ Limited
      BY <1>1, <2>4 DEF EInv, ExactInv, LimitsAreValid, Limited
    <3>2. \A r \in found : r.first \in seen[r.name] /\ r.first # Absent
      BY <1>1, <1>4 DEF EInv, IInv, AnswersWereTrue, RowIsTrue, ToolsAreInPlace, MatchKinds
    <3>3. found' = Top(found) /\ pc' \in {"size", "done"}
      <4>1. CASE Top(found) # {}
        BY <2>4, <4>1 DEF SearchTools, EndWalk, Goto
      <4>2. CASE Top(found) = {}
        <5>1. Cardinality(Top(found)) = 0
          BY <4>2, FS_EmptySet
        <5>2. \A x \in found \ Top(found) : Cardinality(Top(found)) = query.limit
          BY <1>1, <3>1, <3>2, TopIsCut
        <5>3. found = {}
          BY <3>1, <4>2, <5>1, <5>2
        <5> QED
          BY <1>4, <4>2, <5>3 DEF EndWalk, Return
      <4> QED
        BY <4>1, <4>2
    <3>4. ListsAreExact' /\ ListsAreBounded' /\ OneRowPerName'
      BY <1>1, <2>3, <3>1, <3>2, <3>3, TopIsExact
    <3> QED
      BY <1>1, <3>3, <3>4, QueryEndExact
  <2>5. CASE query.tool # "recent_pages"
    <3>1. found' = found /\ pc' = "done"
      BY <1>4, <2>5 DEF EndWalk, Return
    <3>2. ListsAreExact'
      BY <1>1, <2>3, <3>1, WholeIsExact
    <3>3. ListsAreBounded' /\ OneRowPerName'
      BY <1>1, <1>4, <2>5, <3>1 DEF SearchTools, ListsAreBounded, OneRowPerName, Unique, Limited
    <3> QED
      BY <1>1, <3>1, <3>2, <3>3, QueryEndExact
  <2> QED
    BY <2>4, <2>5
<1> QED
  BY <1>3, <1>4

(* The sizes leave the rows as they were.                                  *)
LEMMA SizeExact ==
    ASSUME EInv, NEW n \in Names, Size(n)
    PROVE  ExactInv'
<1> DEFINE row == RowOf(found, n)
           new == Row(n, row.first, space[n], "sized")
<1>1. /\ pc = "size" /\ n \in todo /\ query.tool = "recent_pages"
      /\ query.tool \in ListingTools /\ Limited
      /\ UNCHANGED <<space, seen, query>>
      /\ pc' \in {"size", "done"}
  BY DEF Size, Goto, Return, EInv, IInv, ToolsAreInPlace, spaceVars, ListingTools, WalkTools,
     Limited
<1>2. /\ found \in SUBSET Rows /\ row \in found /\ row.name = n /\ Unique(found)
      /\ \A m \in Names : Steady(m) => Exact(m)
      /\ Cardinality(found) <= RowLimit
  BY <1>1, RowOfIsThere
     DEF EInv, IInv, TypeOK, Rows, ExactInv, OneRowPerName, ListsAreExact, ListsAreBounded
<1>3. CASE pc' = "done" /\ answer' = "vanished" /\ found' = found
  <2>1. OneRowPerName' /\ ListsAreExact' /\ ListsAreBounded'
    BY <1>1, <1>2, <1>3 DEF OneRowPerName, Unique, ListsAreExact, ListsAreBounded
  <2> QED
    BY <1>1, <1>3, <2>1, QueryEndExact
<1>4. CASE found' = (found \ {row}) \cup {new}
  <2>1. space[n] \in Version /\ row \in Rows
    BY <1>2 DEF EInv, IInv, TypeOK
  <2>2. new \in Rows /\ new.name = row.name /\ new.first = row.first
    BY <1>2, <2>1 DEF Row, Rows, Kinds
  <2> HIDE DEF row, new
  <2>3. /\ Unique(found)' /\ Cardinality(found') = Cardinality(found)
        /\ \A m : Exact(m) => Exact(m)'
    BY <1>1, <1>2, <1>4, <2>2, CompletedIsExact
  <2>4. OneRowPerName'
    BY <2>3 DEF OneRowPerName
  <2>5. ListsAreExact'
    BY <1>1, <1>2, <2>3, SameDecisions DEF ListsAreExact
  <2>6. ListsAreBounded'
    BY <1>1, <1>2, <2>3, SameDecisions DEF ListsAreBounded
  <2> QED
    BY <1>1, <2>4, <2>5, <2>6, QueryEndExact
<1> QED
  BY <1>3, <1>4 DEF Size, Return

(* ripgrep finds no row yet, whether it succeeds or fails.                 *)
LEMMA RgExact ==
    ASSUME EInv, RgFails \/ \E n \in Names : RgReads(n)
    PROVE  ExactInv'
<1>1. /\ pc = "rg" /\ answer = "none" /\ answer' = answer
      /\ UNCHANGED <<space, seen, query, found, dirs, files>>
      /\ pc' = "rg" \/ (pc' \in {"read", "snippet"} /\ todo' = files)
  BY DEF RgFails, RgReads, spaceVars, Goto, EInv, IInv, TypeOK
<1>2. found = {}
  BY <1>1 DEF EInv, ExactInv, RowsAreKept
<1>3. FilesAreListed'
  BY <1>1, SameDecisions DEF EInv, ExactInv, FilesAreListed
<1>4. RowsAreKept'
  BY <1>1, <1>2 DEF RowsAreKept, NamesOf
<1>5. OneRowPerName' /\ ListsAreExact' /\ ListsAreBounded'
  BY <1>1, <1>2 DEF OneRowPerName, Unique, ListsAreExact, ListsAreBounded
<1> QED
  BY <1>1, <1>3, <1>4, <1>5, QueryExact

(* A file that was listed is a match or not as it should be, decided by    *)
(* the body that the bridge or ripgrep has read.                           *)
LEMMA AddMatchExact ==
    ASSUME EInv, NEW n \in todo, pc \in {"read", "snippet"},
           NEW decided \in Version, decided \in seen[n],
           NEW content \in BOOLEAN,
           query.words = "words" => (content <=> Matches(decided)),
           AddMatch(n, decided, content),
           UNCHANGED <<space, seen, query, files>>
    PROVE  ExactInv'
<1> DEFINE new == Row(n, decided, space[n], Kind(n, content))
           kept == Readable(space[n]) /\ (n \in NameHits \/ content)
           rows == IF kept THEN found \cup {new} ELSE found
<1>1. /\ query.tool \in SearchTools /\ answer = "none"
      /\ query.tool = "search" => Limited /\ query.limit \in Nat
      /\ n \in Names /\ n \in files /\ found \in SUBSET Rows /\ files \subseteq Names
      /\ SeenIsFinite /\ SeenIsCurrent /\ space[n] \in Version
  BY DEF EInv, IInv, TypeOK, Rows, ToolsAreInPlace, ExactInv, LimitsAreValid, Limited
<1>2. new \in Rows /\ new.name = n
  BY <1>1 DEF Row, Rows, Kinds, Kind
<1>3. /\ NamesOf(found) \subseteq files \ todo
      /\ \A m \in files \ todo : Steady(m) => (m \in NamesOf(found) <=> Kept(m))
      /\ Unique(found)
  BY <1>1 DEF EInv, ExactInv, RowsAreKept, OneRowPerName, ListingTools, WalkTools
<1>4. Steady(n) => (Kept(n) <=> kept)
  <2>1. Steady(n) => decided = space[n] /\ query.words = "words"
    BY <1>1, UntouchedIsSteady DEF Steady
  <2> QED
    BY <1>1, <2>1 DEF SearchTools, Kept
<1>5. \/ pc' = "done" /\ todo = {n} /\ found' = Cut(rows)
      \/ pc' = pc /\ todo' = todo \ {n} /\ answer' = answer /\ found' = rows
  BY DEF AddMatch, Goto, Return
<1> HIDE DEF new, kept
<1>6. NamesOf(rows) = IF kept THEN NamesOf(found) \cup {n} ELSE NamesOf(found)
  BY <1>2 DEF NamesOf
<1>7. rows \in SUBSET Rows /\ Unique(rows)
  BY <1>1, <1>2, <1>3 DEF Unique, NamesOf
<1> HIDE DEF rows
<1>8. /\ NamesOf(rows) \subseteq files \ (todo \ {n})
      /\ \A m \in files \ (todo \ {n}) : Steady(m) => (m \in NamesOf(rows) <=> Kept(m))
  BY <1>1, <1>3, <1>4, <1>6
<1>9. CASE pc' = "done" /\ todo = {n} /\ found' = Cut(rows)
  <2>1. ASSUME NEW m \in Names, Steady(m)
        PROVE  m \in NamesOf(rows) <=> Wanted(m)
    <3>1. m \in files <=> m \in query.wanted \cap Markdown
      BY <2>1 DEF EInv, ExactInv, FilesAreListed
    <3>2. Wanted(m) <=> m \in query.wanted \cap Markdown /\ Kept(m)
      BY <1>1 DEF SearchTools, Wanted, Kept
    <3> QED
      BY <1>8, <1>9, <2>1, <3>1, <3>2
  <2>2. CASE query.tool = "search"
    <3>1. found' = Top(rows) /\ query.tool # "recent_pages"
      BY <1>9, <2>2 DEF Cut
    <3>2. ListsAreExact' /\ ListsAreBounded' /\ OneRowPerName'
      BY <1>1, <1>7, <2>1, <2>2, <3>1, TopIsExact
    <3> QED
      BY <1>9, <3>2, QueryEndExact
  <2>3. CASE query.tool = "topic"
    <3>1. found' = rows /\ ~Limited'
      BY <1>9, <2>3 DEF Cut, Limited
    <3>2. ListsAreExact'
      BY <2>1, <3>1, WholeIsExact
    <3>3. ListsAreBounded' /\ OneRowPerName'
      BY <1>7, <3>1 DEF ListsAreBounded, OneRowPerName, Unique
    <3> QED
      BY <1>9, <3>2, <3>3, QueryEndExact
  <2> QED
    BY <1>1, <2>2, <2>3 DEF SearchTools
<1>10. CASE pc' = pc /\ todo' = todo \ {n} /\ answer' = answer /\ found' = rows
  <2>1. FilesAreListed'
    BY <1>10, SameDecisions DEF EInv, ExactInv, FilesAreListed
  <2>2. RowsAreKept'
    BY <1>8, <1>10, SameDecisions DEF RowsAreKept, NamesOf
  <2>3. OneRowPerName'
    BY <1>7, <1>10 DEF OneRowPerName, Unique
  <2>4. ListsAreExact' /\ ListsAreBounded'
    BY <1>1, <1>10 DEF ListsAreExact, ListsAreBounded
  <2> QED
    BY <2>1, <2>2, <2>3, <2>4, QueryExact
<1> QED
  BY <1>5, <1>9, <1>10

(* The reading of a body, for the decision or for the snippet.             *)
LEMMA ReadExact ==
    ASSUME EInv, NEW n \in Names, ReadBody(n) \/ ReadSnippet(n)
    PROVE  ExactInv'
<1>1. /\ n \in todo /\ pc \in {"read", "snippet"} /\ n \in files
      /\ UNCHANGED <<space, seen, query, files>>
  BY DEF ReadBody, ReadSnippet, spaceVars, walkVars, EInv, IInv, TypeOK
<1>2. CASE ReadBody(n)
  <2>1. space[n] \in Version /\ space[n] \in seen[n]
    BY SpaceIsSeen DEF EInv, IInv
  <2>2. AddMatch(n, space[n], Matches(space[n])) /\ Matches(space[n]) \in BOOLEAN
    BY <1>2 DEF ReadBody, Matches, Readable
  <2> QED
    BY <1>1, <2>1, <2>2, AddMatchExact
<1>3. CASE ReadSnippet(n)
  <2>1. rg[n] \in Version /\ rg[n] \in seen[n]
    BY <1>1, <1>3 DEF ReadSnippet, EInv, IInv, RgReadTheSpace, TypeOK
  <2>2. /\ AddMatch(n, rg[n], RgMatches(rg[n])) /\ RgMatches(rg[n]) \in BOOLEAN
        /\ query.words = "words" => (RgMatches(rg[n]) <=> Matches(rg[n]))
    BY <1>3 DEF ReadSnippet, RgMatches, Matches, Readable
  <2> QED
    BY <1>1, <2>1, <2>2, AddMatchExact
<1> QED
  BY <1>2, <1>3

-------------------------------------------------------------------------------
(* Every step preserves the invariant. *)
LEMMA NextEInv == EInv /\ [Next]_vars => EInv'
<1> SUFFICES ASSUME EInv, [Next]_vars PROVE EInv'
  OBVIOUS
<1>1. IInv'
  BY NextIInv DEF EInv
<1>2. CASE UNCHANGED vars
  <2>1. ListsAreExact'
    BY <1>2, SameDecisions
       DEF vars, EInv, ExactInv, ListsAreExact, Exact, Ahead
  <2>2. FilesAreListed' /\ RowsAreKept'
    BY <1>2, SameDecisions DEF vars, EInv, ExactInv, FilesAreListed, RowsAreKept
  <2>3. SeenIsFinite' /\ OneRowPerName' /\ LimitsAreValid' /\ ListsAreBounded'
    BY <1>2 DEF vars, EInv, ExactInv, SeenIsFinite, OneRowPerName, Unique, LimitsAreValid,
       ListsAreBounded, Limited, RowLimit
  <2> QED
    BY <1>1, <2>1, <2>2, <2>3 DEF EInv, ExactInv
<1>3. CASE (StartRequest /\ UNCHANGED walkVars) \/ StartWalk
  BY <1>1, <1>3, StartExact DEF EInv
<1>4. CASE RequestStep /\ UNCHANGED walkVars
  BY <1>1, <1>4, ListPagesExact, ReadsExact, HydrateExact DEF RequestStep, EInv
<1>5. CASE WalkStep
  BY <1>1, <1>5, ListDirectoryExact, VisitExact, EndWalkExact, SizeExact, RgExact, ReadExact
     DEF WalkStep, EInv
<1>6. CASE EditorSave /\ UNCHANGED walkVars
  BY <1>1, <1>6, EditorExact DEF EInv
<1> QED
  BY <1>2, <1>3, <1>4, <1>5, <1>6 DEF Next, QueryStep

(* The second inductive invariant holds always. *)
LEMMA SpecEInv == Spec => []EInv
  BY InitEInv, NextEInv, PTL DEF Spec

(* A page nobody touches during the call is in the answer of list_pages,   *)
(* histogram, scan, recent_pages, topic and search exactly when it should  *)
(* be, or the answer is full of pages that go ahead of it.                 *)
THEOREM UntouchedExact == Spec => []UntouchedPagesAreExact
<1>1. EInv => UntouchedPagesAreExact
  BY DEF EInv, ExactInv, ListsAreExact, ListingTools, Exact, Steady, UntouchedPagesAreExact
<1> QED
  BY <1>1, SpecEInv, PTL

(* An answer is never longer than its limit and has no page twice.         *)
THEOREM AnswersBounded == Spec => []AnswersAreBounded
<1>1. EInv => AnswersAreBounded
  <2> SUFFICES ASSUME EInv PROVE AnswersAreBounded
    OBVIOUS
  <2>1. found \in SUBSET Rows
    BY DEF EInv, IInv, TypeOK, Rows
  <2>2. query.tool \in ListTools \cup WalkTools => Unique(found)
    BY DEF EInv, ExactInv, OneRowPerName, ListingTools
  <2>3. query.tool \in ListTools \cup WalkTools =>
           Cardinality(found) = Cardinality(NamesOf(found))
    BY <2>1, <2>2, RowsAreCounted
  <2> QED
    BY <2>3 DEF EInv, ExactInv, ListsAreBounded, AnswersAreBounded
<1> QED
  BY <1>1, SpecEInv, PTL
===============================================================================
