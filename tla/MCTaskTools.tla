------------------------------ MODULE MCTaskTools ------------------------------
(***************************************************************************)
(* Small instances of TaskTools: every page of one or two lines of each   *)
(* kind, some of three, and pages with a frontmatter block of one line and *)
(* one or two lines after it, each with and without a final line feed.     *)
(***************************************************************************)
EXTENDS TaskTools

PlainLine  == <<"a">>
LinkLine   == <<"a", "R">>
TodoLine   == <<Dash, Space, Open, Space, Close, Space, "R">>
DoneLine   == <<Dash, Space, Open, "x", Close, Space, "a", "R", "S">>
NestedLine == <<Space, Dash, Space, Open, "X", Close, Space, "S">>
SpacedLine == <<Dash, Space, Open, Space, Close, Space, Space, "R">>
WideLine   == <<"e'">>
WideTask   == <<Dash, Space, Open, Space, Close, Space, "e'", "S">>
CrLine     == <<"R", CR>>
LoneCr     == <<"a", CR>> \o TodoLine
FfLine     == <<"a", FF>> \o TodoLine
CrFence    == Fence \o <<CR>>
CrTask     == TodoLine \o <<CR>>
LongFence  == <<Dash>> \o Fence
EmptyLine  == << >>

Tame  == {PlainLine, LinkLine, TodoLine, NestedLine, Fence}
Kinds == Tame \cup {EmptyLine, DoneLine, SpacedLine, WideLine, WideTask,
                    CrLine, CrFence, CrTask, LoneCr, FfLine, LongFence}

Joined(seqs) == {Join(s) : s \in seqs} \cup {Join(s) \o <<LF>> : s \in seqs}

UpTo(n, kinds) == UNION {[1..k -> kinds] : k \in 1..n}
WithFrontmatter(fence, kinds) ==
    {<<fence, key, fence>> \o rest : key \in kinds, rest \in UpTo(2, kinds)}

MCPages == {<< >>}
             \cup Joined(UpTo(2, Kinds))
             \cup Joined({<<first, LinkLine, last>> : first, last \in Kinds})
             \cup Joined(WithFrontmatter(Fence, {TodoLine, NestedLine, PlainLine}))
             \cup Joined(WithFrontmatter(CrFence, {TodoLine, CrTask}))

\* Pages with characters that take two bytes.
WidePages == Joined(UpTo(2, {PlainLine, TodoLine, WideLine, WideTask}))

MCTexts == {<< >>, <<"b">>, <<"b", LF>>, NestedLine \o <<LF>>}
===============================================================================
