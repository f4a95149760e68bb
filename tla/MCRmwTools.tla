------------------------------ MODULE MCRmwTools ------------------------------
(***************************************************************************)
(* Small instances of RmwTools: the lines, the requests and the outside    *)
(* writers' pages that the .cfg files choose from.                         *)
(***************************************************************************)
EXTENDS RmwTools, TLC

MCLine == {"a", "b", "e", FrontMatter} \cup TaskLines

AppendEdit  == [tool |-> "append_to_page", text |-> "a"]
PrependEdit == [tool |-> "prepend_to_page", text |-> "a", top |-> FALSE]
TopEdit     == [tool |-> "prepend_to_page", text |-> "a", top |-> TRUE]
LinesEdit   == [tool |-> "patch_page_lines", first |-> 1, last |-> 2, text |-> "b"]
ReplaceEdit == [tool |-> "patch_page_replace", find |-> "e", text |-> "b", all |-> FALSE]
ReplaceAll  == [tool |-> "patch_page_replace", find |-> "e", text |-> "b", all |-> TRUE]
CheckEdit   == [tool |-> "check_task", state |-> "done"]
BadEdits    == {[tool |-> "append_to_page", text |-> BadText],
                [tool |-> "patch_page_lines", first |-> 2, last |-> 1, text |-> "b"],
                [tool |-> "check_task", state |-> BadText]}

AllEdits == {AppendEdit, PrependEdit, TopEdit, LinesEdit, ReplaceEdit, ReplaceAll,
             CheckEdit} \cup BadEdits

Ask(edits, tokens, dry, budgets) ==
    [edit : edits, if_match : tokens, dry_run : dry, max_retries : budgets]

\* Every tool with every kind of argument.
EveryRequest == Ask(AllEdits, IfMatchArgs, BOOLEAN, {-1, 0, 1})
\* What concurrent clients normally ask for: no token of their own, a budget.
LiveRequests == Ask({AppendEdit, ReplaceEdit, CheckEdit}, {"none"}, {FALSE}, {0, 1})
\* Two calls that undo each other's work.
FlipRequests == Ask({CheckEdit, [CheckEdit EXCEPT !.state = "todo"]}, {"none"}, {FALSE}, {2})
\* The default retry budget.
CheckRequests == Ask({CheckEdit}, {"none"}, {FALSE}, {3})

TaskPage == <<"e", TaskLine("todo")>>
MCInitialPage == TaskPage
MCEditorPages == {Absent, TaskPage, <<FrontMatter, "e">>}
MCEditorLines == {"e"}
NoPages == {}
NoLines == {}
===============================================================================
