--------------------------- MODULE MCWholePageTools ---------------------------
(***************************************************************************)
(* Small instances of WholePageTools.                                      *)
(***************************************************************************)
EXTENDS WholePageTools, TLC

MCLine == {"x", "y", FrontMatter} \cup TaskLines
X == <<"x">>
Y == <<"y">>
Long == <<"x", "y">>
Huge == <<"x", "x", "x">>

Write(names, contents, tokens) ==
    [tool : {"write_page"}, name : names, content : contents, if_match : tokens]
Create(names, contents) == [tool : {"create_page"}, name : names, content : contents]
Remove(names, tokens) == [tool : {"delete_page"}, name : names, if_match : tokens]
Move(from, to, tokens, budgets) ==
    [tool : {"move_page"}, name : from, new_name : to, if_match : tokens,
     max_retries : budgets]

\* Every tool with every kind of argument.
EveryRequest ==
         Write({"p"}, {<< >>, Y, Huge}, IfMatchArgs)
    \cup Create({"q"}, {Y, Huge})
    \cup Remove({"p"}, IfMatchArgs)
    \cup Move({"p"}, {"p", "q"}, IfMatchArgs, {-1, 0, 1})
\* Calls that meet on two names.
MeetingRequests ==
         Write({"p"}, {Long}, {"seen"})
    \cup Create({"q"}, {Y})
    \cup Remove({"p"}, {"seen"})
    \cup Move({"p"}, {"q"}, {"none", "seen"}, {0, 1})
    \cup Move({"q"}, {"p"}, {"seen"}, {1})
EachRequest == EveryRequest \cup MeetingRequests

CreateAnywhere == Create({"p", "q"}, {Y})
MoveAway == Move({"p"}, {"q"}, {"none"}, {0})

MCEditorBodies == {Absent, X, Y}
WithHuge == {Absent, X, Huge}
TooBig == {Huge}
MCInitialPages == [n \in {"p", "q"} |-> IF n = "p" THEN X ELSE Absent]
===============================================================================
