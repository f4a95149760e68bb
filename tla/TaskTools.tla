------------------------------- MODULE TaskTools -------------------------------
(***************************************************************************)
(* What the text algorithms of PageText amount to when their answers are   *)
(* combined: list_tasks, find_backlinks and check_task each find a line of *)
(* the page in their own way, and append_to_page, prepend_to_page and      *)
(* patch_page_lines rebuild the page around it.  A call is one step here:  *)
(* RmwTools has its round trips, and takes from PageBody the line edits    *)
(* that EditsAreLineEdits compares with these.                             *)
(***************************************************************************)
EXTENDS PageText, TLC

CONSTANTS
    Pages,       \* the pages the calls are made on
    Texts,       \* the texts they bring
    MaxCalls     \* bound on the calls made on one page

ASSUME TaskAssumption ==
    /\ Pages \cup Texts \subseteq Text
    /\ MaxCalls \in Nat

VARIABLES
    page,        \* the body of the page
    call,        \* the last call, with its arguments and its answer
    calls        \* how many there were

vars == <<page, call, calls>>

NoCall == [tool |-> "none", answer |-> "none"]

Init ==
    /\ page \in Pages
    /\ call = NoCall
    /\ calls = 0

Called(record) == call' = record

AppendToPage ==
    \E text \in Texts \ {<< >>} :
       /\ page' = Appended(page, text)
       /\ Called([tool |-> "append_to_page", text |-> text, answer |-> "ok"])

PrependToPage ==
    \E text \in Texts \ {<< >>}, top \in BOOLEAN :
       /\ page' = Prepended(page, text, top)
       /\ Called([tool |-> "prepend_to_page", text |-> text, top |-> top,
                  answer |-> "ok"])

PatchPageLines ==
    \E text \in Texts :
    \E first \in 1..Len(SplitBodyLines(page)), last \in 1..Len(SplitBodyLines(page)) + 1 :
       LET answer == IF last > Len(SplitBodyLines(page)) THEN "refused" ELSE "ok" IN
       /\ first <= last
       /\ page' = IF answer = "ok" THEN LinesPatched(page, first, last, text) ELSE page
       /\ Called([tool |-> "patch_page_lines", first |-> first, last |-> last,
                  text |-> text, answer |-> answer])

RowsWith(body, ref) == {row \in ParseTasks(body) : row.ref = ref}

(* check_task finds its bullet one way and counts the candidates another. *)
CheckTaskAnswer(body, ref) ==
    IF FindTaskBullet(body, ref) = NoMatch THEN "no_task"
    ELSE IF Cardinality(RowsWith(body, ref)) > 1 THEN "multiple"
    ELSE IF Flipped(body, ref, "todo") = << >> THEN "assertion"
    ELSE "ok"

CheckTask ==
    \E ref \in Refs, state \in States : \E answer \in {CheckTaskAnswer(page, ref)} :
       /\ page' = IF answer = "ok" THEN Flipped(page, ref, state) ELSE page
       /\ Called([tool |-> "check_task", ref |-> ref, state |-> state,
                  answer |-> answer])

Next ==
    /\ calls < MaxCalls
    /\ calls' = calls + 1
    /\ AppendToPage \/ PrependToPage \/ PatchPageLines \/ CheckTask

Spec == Init /\ [][Next]_vars

-------------------------------------------------------------------------------
(***************************************************************************)
(* Properties                                                              *)
(***************************************************************************)
(* Every edit leaves a text. *)
TypeOK ==
    /\ page \in Text
    /\ call.answer \in {"none", "ok", "refused", "no_task", "multiple", "assertion"}
    /\ calls \in 0..MaxCalls

Holds(body, S) == \E i \in DOMAIN body : body[i] \in S

FrontmatterNames(body, ref) ==
    LET lines == Split(body)
    IN \E j \in 1..FrontmatterEnd(lines) : IsBullet(lines[j]) /\ RefOf(lines[j]) = ref

(* Where the page and the count of its bytes agree up to the bullet, where *)
(* no bullet of the frontmatter has the reference as well, and where one   *)
(* blank follows the dash and the box: the pages on which a flip is what   *)
(* the tool's description says it is.                                      *)
LineStart(lines, i) ==
    SumFunctionOnSet([j \in DOMAIN lines |-> Len(lines[j]) + 1], 1..i - 1)

ListedLine(body, ref) == (CHOOSE row \in RowsWith(body, ref) : TRUE).line

MarkPosition(body, ref) ==
    LET lines == Split(body)
        i == ListedLine(body, ref)
    IN LineStart(lines, i) + Len(Bullet(lines[i]).leading) + 4

Flippable(body, ref) ==
    LET lines == Split(body)
        i == ListedLine(body, ref)
        p == MarkPosition(body, ref)
    IN /\ RowsWith(body, ref) # {}
       /\ ~Holds(SubSeq(body, 1, LineStart(lines, i) + Len(lines[i])), Wide)
       /\ ~FrontmatterNames(body, ref)
       /\ SubSeq(body, p - 3, p - 1) = <<Dash, Space, Open>>
       /\ body[p + 2] = Space /\ body[p + 3] \notin Blank

MarkReplaced(body, ref, state) == [body EXCEPT ![MarkPosition(body, ref)] = MarkOf(state)]

(* check_task changes the character between the brackets of the one task   *)
(* that list_tasks shows with the reference, and nothing else.             *)
FlipTouchesOnlyTheMark ==
    [][call'.tool = "check_task" /\ call'.answer = "ok" /\ Flippable(page, call'.ref)
          => page' = MarkReplaced(page, call'.ref, call'.state)]_vars

(* Its description promises that on every page: "only the character inside *)
(* the square brackets changes".                                           *)
FlipTouchesOnlyTheMarkAlways ==
    [][call'.tool = "check_task" /\ call'.answer = "ok"
          => /\ RowsWith(page, call'.ref) # {}
             /\ page' = MarkReplaced(page, call'.ref, call'.state)]_vars

(* A task that a listing shows with a reference no other task of it has    *)
(* can be named to check_task, whose walks over the server's text then     *)
(* find it and count it once.  What is found is the line listed, unless a  *)
(* bullet of the frontmatter has the reference as well, and it is flipped, *)
(* unless bytes and characters differ.                                     *)
Checkable(body, rows) ==
    \A row \in rows :
       row.ref # NoRef /\ {other \in rows : other.ref = row.ref} = {row} =>
          /\ CheckTaskAnswer(body, row.ref)
               \in IF Holds(body, Wide) THEN {"ok", "assertion"} ELSE {"ok"}
          /\ ~FrontmatterNames(body, row.ref) => FindTaskBullet(body, row.ref).line = row.line

EndsInLineFeeds(body) ==
    LET lines == Split(body)
    IN \A k \in DOMAIN lines : \A i \in DOMAIN lines[k] :
          lines[k][i] = CR => i = Len(lines[k]) /\ k < Len(lines)

TextsOf(body) == {body, ReadText(body)}
SameFrontmatter(body) ==
    \A a, b \in TextsOf(body) : FrontmatterEnd(Split(a)) = FrontmatterEnd(Split(b))

Listings(body) ==
    {ParseTasks(text) : text \in IF EndsInLineFeeds(body) /\ SameFrontmatter(body)
                                 THEN TextsOf(body) ELSE {body}}

(* So it is for the listing of a page on every page.  The listing of the   *)
(* space reads the file as a text: there every line has to end in LF or    *)
(* CR LF, and no fence in CR LF, which is one to that listing only.        *)
ListedTaskIsCheckable ==
    \A rows \in Listings(page) : Checkable(page, rows)

(* The line numbers of the listings are those of patch_page_lines:         *)
(* replacing the line by a text without a task or a link takes that row    *)
(* out of the answer and leaves the others as they are.  For the listing   *)
(* of a page that is so on every page.  The listing of the space and       *)
(* find_backlinks count in another text than the one that is patched:      *)
(* there every line has to end in LF or CR LF, and for find_backlinks no   *)
(* other boundary of str.splitlines may stand in the page.                 *)
Note == {text \in Texts : ~Holds(text, Refs \cup Syntax)}

ListedLineIsPatchable ==
    \A text \in Note \ {<< >>} :
       LET Patched(i) == LinesPatched(page, i, i, text) IN
       /\ \A row \in ParseTasks(page) :
             ParseTasks(Patched(row.line)) = ParseTasks(page) \ {row}
       /\ EndsInLineFeeds(page) =>
             \A row \in SpaceTasks(page) :
                SpaceTasks(Patched(row.line)) = SpaceTasks(page) \ {row}
       /\ EndsInLineFeeds(page) /\ ~Holds(page, {FF}) =>
             \A ref \in Refs : \A i \in BacklinkLines(page, ref) :
                BacklinkLines(Patched(i), ref) = BacklinkLines(page, ref) \ {i}

(* How often each task occurs in the listing, wherever it stands. *)
TaskBag(body) ==
    [like \in Marks \X (Refs \cup {NoRef}) |->
        Cardinality({row \in ParseTasks(body) : <<row.state, row.ref>> = like})]

(* A page as an editor leaves it: line feeds only, and where it opens with *)
(* dashes, a closed frontmatter block, its last line ended, and no blank   *)
(* line at the end of the page.                                            *)
WellFenced(body) ==
    LET lines == Split(body)
        fm == FrontmatterEnd(lines)
    IN /\ ~Holds(body, {CR, FF})
       /\ IsPrefix(Fence, body) =>
             /\ fm \in 1..Len(lines) - 1
             /\ EndsWithLF(body) => ~EndsWithLF(Front(body))

(* Lines without tasks that are added at the end of a page, or on top of   *)
(* its text, make no task appear or disappear.                             *)
PlainLines == {text \in Texts : EndsWithLF(text) /\ ~Holds(text, {Dash, CR})}

TasksSurviveAdditions ==
    [][\/ call'.tool = "append_to_page"
       \/ call'.tool = "prepend_to_page" /\ ~call'.top /\ WellFenced(page)
       => (call'.text \in PlainLines => TaskBag(page') = TaskBag(page))]_vars

-------------------------------------------------------------------------------
(***************************************************************************)
(* The edits of PageBody.  A page is seen as a sequence of lines there: the *)
(* frontmatter block is one, and so is the task with the reference Watched. *)
(***************************************************************************)
Watched == CHOOSE ref \in Refs : TRUE

PB == INSTANCE PageBody WITH Line <- STRING, BadText <- 0

StateOf(mark) == CHOOSE state \in States : MarkOf(state) = mark

SeenLine(line) ==
    IF IsBullet(line) /\ RefOf(line) = Watched
    THEN PB!TaskLine(StateOf(Bullet(line).state))
    ELSE ToString(line)

Seen(body) ==
    LET lines == SplitBodyLines(body)
        fm == FrontmatterEnd(Split(body))
        block == IF fm = 0 THEN << >> ELSE <<PB!FrontMatter>>
    IN block \o [i \in 1..Len(lines) - fm |-> SeenLine(lines[fm + i])]

Tidy(body) ==
    /\ WellFenced(body) /\ ~Holds(body, Wide)
    /\ body = << >> \/ EndsWithLF(body)
    /\ RowsWith(body, Watched) # {} => Flippable(body, Watched)
    /\ RowsWith(body, Watched) = {} => FindTaskBullet(body, Watched) = NoMatch

TidyTexts == {text \in PlainLines : Len(Split(text)) = 2}

SeenEdit(c) ==
    LET fm == FrontmatterEnd(Split(page))
        shift == IF fm = 0 THEN 0 ELSE fm - 1
    IN CASE c.tool = "append_to_page" ->
              [tool |-> c.tool, text |-> SeenLine(Front(c.text))]
         [] c.tool = "prepend_to_page" ->
              [tool |-> c.tool, text |-> SeenLine(Front(c.text)), top |-> FALSE]
         [] c.tool = "patch_page_lines" ->
              [tool |-> c.tool, text |-> SeenLine(Front(c.text)),
               first |-> c.first - shift, last |-> c.last - shift]
         [] c.tool = "check_task" ->
              [tool |-> c.tool, state |-> c.state]

SeenByPageBody(c) ==
    CASE c.tool = "check_task"       -> c.ref = Watched
      [] c.tool = "patch_page_lines" -> /\ c.first > FrontmatterEnd(Split(page))
                                        /\ c.text \in TidyTexts
      [] c.tool = "prepend_to_page"  -> ~c.top /\ c.text \in TidyTexts
      [] c.tool = "append_to_page"   -> c.text \in TidyTexts

(* On such pages the edits of PageBody are what the text algorithms        *)
(* compute, and a call is refused exactly when PageBody says so.           *)
EditsAreLineEdits ==
    [][Tidy(page) /\ SeenByPageBody(call') =>
          LET e == SeenEdit(call') IN
          /\ call'.answer = "ok" <=> PB!Applicable(e, Seen(page))
          /\ call'.answer = "ok" => Seen(page') = PB!Edited(e, Seen(page))]_vars
===============================================================================
