--------------------------------- MODULE Space ---------------------------------
(***************************************************************************)
(* The files of a space while one of the bridge's read-only tools looks at *)
(* them.  The tools see them in two ways, through SilverBullet's HTTP API  *)
(* (PageList) and in the mounted directory (JournalWalk), in both one page *)
(* at a time; outside writers act in between.                              *)
(***************************************************************************)
EXTENDS Naturals, FiniteSets

CONSTANTS
    Names,         \* the files' names
    Content,       \* what a file can hold
    Absent,        \* no such file
    InitialSpaces, \* the spaces a query may find
    Queries,       \* the tools with their arguments
    MaxSaves,      \* bound on the steps of outside writers
    Faults         \* may responses be lost or be errors?

File == [content : Content, saved : Nat]      \* saved: the modification time

ASSUME SpaceAssumption ==
    /\ Absent \notin File
    /\ InitialSpaces \subseteq [Names -> File \cup {Absent}]
    /\ MaxSaves \in Nat
    /\ Faults \in BOOLEAN

(* What counts the rows of an answer counts names of files on a disk. *)
ASSUME FiniteNames == IsFiniteSet(Names)

VARIABLES
    space,       \* the files
    saves,       \* steps of outside writers, and the clock
    seen,        \* history: what each name stood for since the query began
    query,       \* the tool that runs, with its arguments
    pc,          \* where it is
    todo,        \* the names it has still to look at
    found,       \* the rows it has
    answer       \* what it told the client

spaceVars == <<space, saves, seen>>
queryVars == <<query, pc, todo, found, answer>>

NoQuery == [tool |-> "none"]

(* A row of an answer: the file the name stood for when the row was made,  *)
(* and when it was completed, by what it is there. *)
Row(n, first, then, kind) == [name |-> n, first |-> first, then |-> then, kind |-> kind]

NamesOf(rows) == {row.name : row \in rows}
RowOf(rows, n) == CHOOSE row \in rows : row.name = n
Present == {n \in Names : space[n] # Absent}

InitSpace ==
    /\ space \in InitialSpaces
    /\ saves = 0
    /\ seen = [n \in Names |-> {space[n]}]
    /\ query = NoQuery
    /\ pc = "idle"
    /\ todo = {}
    /\ found = {}
    /\ answer = "none"

(* The query's view begins: nothing that was there before counts. *)
BeginQuery(q) ==
    /\ pc = "idle"
    /\ query' = q
    /\ seen' = [n \in Names |-> {space[n]}]
    /\ found' = {}
    /\ UNCHANGED <<space, saves>>

Return(told) ==
    /\ pc' = "done"
    /\ todo' = {}
    /\ answer' = told

Goto(label, names) ==
    /\ pc' = label
    /\ todo' = names
    /\ UNCHANGED answer

(* A writer outside the bridge writes, deletes or renames a file.  Before  *)
(* the query that is another initial space; after it, it makes no          *)
(* difference.                                                             *)
Replace(new) ==
    /\ space' = new
    /\ seen' = [n \in Names |-> seen[n] \cup {new[n]}]

EditorSave ==
    /\ saves < MaxSaves
    /\ pc \notin {"idle", "done"}
    /\ saves' = saves + 1
    /\ \/ \E n \in Names, c \in Content :
             Replace([space EXCEPT ![n] = [content |-> c, saved |-> saves + 1]])
       \/ \E n \in Present : Replace([space EXCEPT ![n] = Absent])
       \/ \E n \in Present : \E m \in Names \ {n} :
             Replace([space EXCEPT ![n] = Absent, ![m] = space[n]])
    /\ UNCHANGED queryVars
===============================================================================
