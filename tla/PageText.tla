------------------------------- MODULE PageText -------------------------------
(***************************************************************************)
(* The text of a page character by character, and the algorithms of the    *)
(* bridge that cut it into lines, find the tasks in it and splice an edit  *)
(* into it.  PageBody takes the lines for granted; here they are computed, *)
(* by each function in its own way: one splits at line feeds, another at   *)
(* every boundary Unicode knows, a third counts bytes and slices           *)
(* characters, and the tools combine their answers.                        *)
(*                                                                         *)
(* A whole wikilink is one character: nothing here looks inside it.        *)
(***************************************************************************)
EXTENDS Naturals, FiniteSets, SequencesExt

CONSTANTS
    Plain,       \* characters without a role
    Wide,        \* characters that take two bytes in UTF-8
    Refs         \* wikilinks [[r]], each named by its target

LF == "LF"
CR == "CR"       \* a carriage return
FF == "FF"       \* a form feed or another byte that only str.splitlines breaks at
Space == " "
Dash == "-"
Open == "["
Close == "]"

States == {"todo", "done", "cancelled"}
MarkOfName(state) == state    \* mutant: the name itself is written
MarkOf(state) ==              \* _STATE_TO_MARKER
    CASE state = "todo" -> " " [] state = "done" -> "x" [] state = "cancelled" -> "X"

Marks == {" ", "x", "X"}

Syntax == {LF, CR, FF, Space, Dash, Open, Close, "x", "X"}

ASSUME CharAssumption ==
    /\ Plain \cup Wide \cup Refs \subseteq STRING
    /\ (Plain \cup Wide \cup Refs) \cap (Syntax \cup {"none"}) = {}
    /\ Plain \cap (Wide \cup Refs) = {} /\ Wide \cap Refs = {}

Char == Plain \cup Wide \cup Refs \cup Syntax
Text == Seq(Char)
Blank == {Space, LF, CR, FF}  \* what \s matches

Fence == <<Dash, Dash, Dash>>
NoRef == "none"

\* s[from:to] of the code, which cuts off what reaches beyond the end.
Slice(s, from, to) == SubSeq(s, from + 1, Min({to, Len(s)}))

EndsWithLF(s) == s # << >> /\ Last(s) = LF
WithoutLastEmpty(lines) ==
    IF lines # << >> /\ Last(lines) = << >> THEN Front(lines) ELSE lines

-------------------------------------------------------------------------------
(***************************************************************************)
(* Lines.                                                                  *)
(***************************************************************************)
\* The pieces of s before, between and after the given positions.
CutAt(s, positions) ==
    LET stops == positions \cup {Len(s) + 1}
        Stop(k) == CHOOSE p \in stops : Cardinality({q \in stops : q <= p}) = k
        Start(k) == IF k = 1 THEN 1 ELSE Stop(k - 1) + 1
    IN [k \in 1..Cardinality(stops) |-> SubSeq(s, Start(k), Stop(k) - 1)]

\* str.split("\n")
Split(body) == CutAt(body, {i \in DOMAIN body : body[i] = LF})

\* str.splitlines(): a CR LF pair is one boundary.
SplitLines(body) ==
    LET BeforeLF(i) == i < Len(body) /\ body[i + 1] = LF
        pieces == CutAt(body, {i \in DOMAIN body :
                                 \/ body[i] \in {LF, FF}
                                 \/ body[i] = CR /\ ~BeforeLF(i)})
        Line(piece) == IF piece # << >> /\ Last(piece) = CR THEN Front(piece) ELSE piece
    IN WithoutLastEmpty([k \in DOMAIN pieces |-> Line(pieces[k])])

\* "\n".join(lines)
Join(lines) ==
    IF lines = << >> THEN << >>
    ELSE FoldLeft(LAMBDA text, line : text \o <<LF>> \o line,
                  Head(lines), Tail(lines))

SplitBodyLines(body) == WithoutLastEmpty(Split(body))

\* The lines of a page with CR LF for a line feed.
UnixLines(body) ==
    LET lines == Split(body)
        InCRLF(k) == k < Len(lines) /\ lines[k] # << >> /\ Last(lines[k]) = CR
    IN [k \in DOMAIN lines |-> IF InCRLF(k) THEN Front(lines[k]) ELSE lines[k]]

\* Path.read_text(): the text of a file in the space directory.  CR LF and a CR
\* of its own become line feeds; what the server answers keeps them.
ReadText(body) ==
    LET text == Join(UnixLines(body))
    IN [i \in DOMAIN text |-> IF text[i] = CR THEN LF ELSE text[i]]

-------------------------------------------------------------------------------
(***************************************************************************)
(* Frontmatter, twice.  0 stands for a page that has none.                 *)
(***************************************************************************)
ClosingFence(lines) ==
    LET closing == {i \in 2..Len(lines) : lines[i] = Fence}
    IN IF closing = {} THEN 0 ELSE Min(closing)

\* The task parser wants the first line to be the fence ...
FrontmatterEnd(lines) ==
    IF lines[1] = Fence THEN ClosingFence(lines) ELSE 0

\* ... prepend_to_page wants the page to start with one, and puts both halves
\* together again from their lines.
SplitFrontmatterBlock(body) ==
    LET lines == SplitLines(body)
        close == IF IsPrefix(Fence, body) THEN ClosingFence(lines) ELSE 0
        block == Join(SubSeq(lines, 1, close))
        rest  == Join(SubSeq(lines, close + 1, Len(lines)))
    IN IF close = 0
       THEN [frontmatter |-> << >>, rest |-> body]
       ELSE [frontmatter |-> IF Slice(body, Len(block), Len(block) + 1) = <<LF>>
                             THEN Append(block, LF) ELSE block,
             rest |-> IF EndsWithLF(body) /\ rest # << >> /\ ~EndsWithLF(rest)
                      THEN Append(rest, LF) ELSE rest]

-------------------------------------------------------------------------------
(***************************************************************************)
(* Tasks.                                                                  *)
(***************************************************************************)
\* The first position from i on that is not blank.
SkipBlanks(s, i) ==
    IF \A k \in i..Len(s) : s[k] \in Blank THEN Len(s) + 1
    ELSE CHOOSE k \in i..Len(s) : s[k] \notin Blank /\ \A j \in i..k - 1 : s[j] \in Blank

NoBullet == [state |-> 0]

\* _TASK_BULLET_RE: blanks, a dash, blanks, a box, blanks, and the rest of the
\* line, which a final line feed is not part of.
Bullet(s) ==
    LET dash == SkipBlanks(s, 1)
        box  == SkipBlanks(s, dash + 1)
        from == SkipBlanks(s, box + 3)
        rest == SubSeq(s, from, Len(s))
        text == IF EndsWithLF(rest) THEN Front(rest) ELSE rest
    IN IF /\ box + 3 <= Len(s)
          /\ s[dash] = Dash /\ box > dash + 1
          /\ s[box] = Open /\ s[box + 1] \in Marks /\ s[box + 2] = Close
          /\ from > box + 3
          /\ ~Contains(text, LF)
       THEN [leading |-> SubSeq(s, 1, dash - 1), state |-> s[box + 1], text |-> text]
       ELSE NoBullet

IsBullet(s) == Bullet(s) # NoBullet

\* _extract_first_wikilink
FirstLink(text) ==
    LET links == {i \in DOMAIN text : text[i] \in Refs}
    IN IF links = {} THEN NoRef ELSE text[Min(links)]

RefOf(line) == FirstLink(Bullet(line).text)

ParseTasksOffByFence(body) ==   \* mutant: the closing fence is not counted
    LET lines == Split(body)
        fm == FrontmatterEnd(lines)
    IN {[line |-> IF fm = 0 THEN i ELSE i - 1,
         state |-> Bullet(lines[i]).state, ref |-> RefOf(lines[i])] :
           i \in {j \in fm + 1..Len(lines) : IsBullet(lines[j])}}

\* _parse_tasks: the rows of list_tasks for a page, numbered the way an editor
\* does.
ParseTasks(body) ==
    LET lines == Split(body)
        fm == FrontmatterEnd(lines)
    IN {[line |-> i, state |-> Bullet(lines[i]).state, ref |-> RefOf(lines[i])] :
           i \in {j \in fm + 1..Len(lines) : IsBullet(lines[j])}}

\* _list_tasks_for_space: the rows of the page in the walk over the directory.
SpaceTasks(body) == ParseTasks(ReadText(body))

ByteLen(s) == Len(s) + Cardinality({i \in DOMAIN s : s[i] \in Wide})

NoMatch == [line |-> 0]

FindTaskBulletAtMargin(body, ref) ==   \* mutant: nested bullets are missed
    LET lines == SplitBodyLines(body)
        hits  == {i \in DOMAIN lines : /\ IsBullet(lines[i]) /\ lines[i][1] = Dash
                                       /\ RefOf(lines[i]) = ref}
    IN IF hits = {} THEN NoMatch
       ELSE LET start == SumFunctionOnSet([i \in DOMAIN lines |-> ByteLen(lines[i]) + 1],
                                          1..Min(hits) - 1)
            IN [line |-> Min(hits), start |-> start,
                end |-> start + ByteLen(lines[Min(hits)])]

\* _find_task_bullet: the first bullet of the whole page with this reference,
\* and the offsets of its line, counted in bytes.
FindTaskBullet(body, ref) ==
    LET lines == SplitBodyLines(body)
        hits  == {i \in DOMAIN lines : IsBullet(lines[i]) /\ RefOf(lines[i]) = ref}
        line  == Min(hits)
        start == SumFunctionOnSet([i \in DOMAIN lines |-> ByteLen(lines[i]) + 1],
                                  1..line - 1)
    IN IF hits = {} THEN NoMatch
       ELSE [line |-> line, start |-> start, end |-> start + ByteLen(lines[line])]

FlippedAtMargin(body, ref, state) ==   \* mutant: the indentation is not put back
    LET found  == FindTaskBullet(body, ref)
        bullet == Bullet(Slice(body, found.start, found.end))
    IN IF bullet = NoBullet THEN << >>
       ELSE Slice(body, 0, found.start)
              \o <<Dash, Space, Open, MarkOf(state), Close, Space>> \o bullet.text
              \o Slice(body, found.end, Len(body))

\* _apply_checkbox_flip of a bullet that was found: the offsets slice the
\* characters of the body, and what they cut out is taken apart again.  It
\* need not be a bullet: no text stands for the assertion that fails then.
Flipped(body, ref, state) ==
    LET found  == FindTaskBullet(body, ref)
        bullet == Bullet(Slice(body, found.start, found.end))
    IN IF bullet = NoBullet THEN << >>
       ELSE Slice(body, 0, found.start)
              \o bullet.leading
              \o <<Dash, Space, Open, MarkOf(state), Close, Space>> \o bullet.text
              \o Slice(body, found.end, Len(body))

-------------------------------------------------------------------------------
(***************************************************************************)
(* The bodies the tools put together.                                      *)
(***************************************************************************)
Appended(body, text) ==
    IF body # << >> /\ ~EndsWithLF(body) THEN body \o <<LF>> \o text ELSE body \o text

PrependedOnTop(body, text, top) ==   \* mutant: the frontmatter is pushed down
    text \o body

Prepended(body, text, top) ==
    LET split == SplitFrontmatterBlock(body)
    IN IF top THEN text \o body ELSE split.frontmatter \o text \o split.rest

LinesPatchedShort(body, first, last, text) ==   \* mutant: the last line stays
    LET lines == SplitBodyLines(body)
        patched == Join(SubSeq(lines, 1, first - 1) \o SplitBodyLines(text)
                          \o SubSeq(lines, last, Len(lines)))
    IN IF EndsWithLF(body) /\ patched # << >> THEN Append(patched, LF) ELSE patched

\* _apply_line_patch and the trailing newline patch_page_lines restores.
LinesPatched(body, first, last, text) ==
    LET lines == SplitBodyLines(body)
        patched == Join(SubSeq(lines, 1, first - 1) \o SplitBodyLines(text)
                          \o SubSeq(lines, last + 1, Len(lines)))
    IN IF EndsWithLF(body) /\ patched # << >> THEN Append(patched, LF) ELSE patched

\* find_backlinks: the lines with a link to the target, numbered by splitlines.
BacklinkLines(body, ref) ==
    LET lines == SplitLines(ReadText(body))
    IN {i \in DOMAIN lines : Contains(lines[i], ref)}
===============================================================================
