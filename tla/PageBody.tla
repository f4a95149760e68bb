------------------------------- MODULE PageBody -------------------------------
(***************************************************************************)
(* The text of one page and what each read-modify-write tool of the bridge *)
(* computes from it.  A body is a sequence of lines; a leading YAML        *)
(* frontmatter block is the single line FrontMatter, and the one task that *)
(* carries the wikilink a check_task call asks for is one of TaskLines.    *)
(* Every line has unit size, so Len is the byte count of the body.         *)
(***************************************************************************)
EXTENDS Naturals, Sequences

CONSTANTS
    Line,        \* the lines a page can hold
    BadText      \* an argument the validators refuse: a text that is empty or
                 \* above 256 KiB, a task state that is not one

FrontMatter == "---"

(* check_task's markers: the states of the task the call refers to. *)
TaskStates == {"todo", "done", "cancelled"}
TaskLine(state) == CASE state = "todo"      -> "- [ ] ref"
                     [] state = "done"      -> "- [x] ref"
                     [] state = "cancelled" -> "- [X] ref"
TaskLines == {TaskLine(s) : s \in TaskStates}

ASSUME LineAssumption ==
    /\ FrontMatter \in Line
    /\ TaskLines \subseteq Line
    /\ FrontMatter \notin TaskLines
    /\ BadText \notin Line \cup TaskStates

Body == Seq(Line)

(***************************************************************************)
(* The edits a call can ask for, with the arguments of each tool.  The     *)
(* arguments are what a client may send; WellFormed is what the tool       *)
(* accepts before it makes any request.                                    *)
(***************************************************************************)
Text == Line \cup {BadText}

Edits ==
         [tool : {"append_to_page"}, text : Text]
    \cup [tool : {"prepend_to_page"}, text : Text, top : BOOLEAN]
    \cup [tool : {"patch_page_lines"}, first : Nat, last : Nat, text : Text]
    \cup [tool : {"patch_page_replace"}, find : Line, text : Text, all : BOOLEAN]
    \cup [tool : {"check_task"}, state : TaskStates \cup {BadText}]

WellFormedRange(e) ==   \* mutant: only the line range is validated
    e.tool = "patch_page_lines" => 1 <= e.first /\ e.first <= e.last

WellFormed(e) ==
    /\ IF e.tool = "check_task" THEN e.state # BadText ELSE e.text # BadText
    /\ e.tool = "patch_page_lines" => 1 <= e.first /\ e.first <= e.last

LinesWith(body, S) == {i \in DOMAIN body : body[i] \in S}
OneLineWith(body, S) == \E i \in DOMAIN body : LinesWith(body, S) = {i}

(* The semantic errors: a line range out of bounds, a find text that is    *)
(* absent or ambiguous, a reference no task or several tasks carry.        *)
RangeFits(e, body) == e.last <= Len(body)

FindFits(e, body) ==
    /\ LinesWith(body, {e.find}) # {}
    /\ e.all \/ OneLineWith(body, {e.find})

ReferenceFits(body) == OneLineWith(body, TaskLines)

Applicable(e, body) ==
    /\ e.tool = "patch_page_lines"   => RangeFits(e, body)
    /\ e.tool = "patch_page_replace" => FindFits(e, body)
    /\ e.tool = "check_task"         => ReferenceFits(body)

Substitute(body, S, line) ==
    [i \in DOMAIN body |-> IF body[i] \in S THEN line ELSE body[i]]

HasFrontMatter(body) == body # << >> /\ Head(body) = FrontMatter

Prepended(e, body) ==
    IF e.top \/ ~HasFrontMatter(body)
    THEN <<e.text>> \o body
    ELSE <<FrontMatter, e.text>> \o Tail(body)

LinesPatched(e, body) ==
    SubSeq(body, 1, e.first - 1) \o <<e.text>> \o SubSeq(body, e.last + 1, Len(body))

(* The body an applicable edit produces. *)
Edited(e, body) ==
    CASE e.tool = "append_to_page"     -> Append(body, e.text)
      [] e.tool = "prepend_to_page"    -> Prepended(e, body)
      [] e.tool = "patch_page_lines"   -> LinesPatched(e, body)
      [] e.tool = "patch_page_replace" -> Substitute(body, {e.find}, e.text)
      [] e.tool = "check_task"         -> Substitute(body, TaskLines, TaskLine(e.state))
===============================================================================
