---------------------------- MODULE TaskTools_proofs ----------------------------
(***************************************************************************)
(* Proofs about TaskTools, for every alphabet, every set of pages and of   *)
(* texts and any number of calls: every edit leaves a text, the rows of    *)
(* list_tasks can be named to check_task, the line numbers of list_tasks   *)
(* and find_backlinks are those of patch_page_lines, added lines disturb   *)
(* no task, and a flip changes one character.                              *)
(***************************************************************************)
EXTENDS TaskTools, PageText_proofs

-------------------------------------------------------------------------------
(***************************************************************************)
(* Type correctness, which is inductive.                                   *)
(***************************************************************************)
(* Before any call the page is one of Pages.                               *)
LEMMA InitTypeOK ==
    ASSUME Init
    PROVE  TypeOK
<1>1. page \in Text
  BY TaskAssumption DEF Init
<1>2. calls \in 0..MaxCalls
  BY TaskAssumption DEF Init
<1>3. call.answer = "none"
  BY DEF Init, NoCall
<1> QED
  BY <1>1, <1>2, <1>3 DEF TypeOK

(* append_to_page leaves a text.                                           *)
LEMMA AppendTyped ==
    ASSUME TypeOK, AppendToPage
    PROVE  page' \in Text /\ call'.answer = "ok"
<1>1. PICK text \in Texts :
         /\ page' = Appended(page, text)
         /\ Called([tool |-> "append_to_page", text |-> text, answer |-> "ok"])
  BY DEF AppendToPage
<1>2. page \in Text /\ text \in Text
  BY TaskAssumption DEF TypeOK
<1>3. call'.answer = "ok"
  BY <1>1 DEF Called
<1> QED
  BY <1>1, <1>2, <1>3, AppendedType

(* prepend_to_page leaves a text.                                          *)
LEMMA PrependTyped ==
    ASSUME TypeOK, PrependToPage
    PROVE  page' \in Text /\ call'.answer = "ok"
<1>1. PICK text \in Texts, top \in BOOLEAN :
         /\ page' = Prepended(page, text, top)
         /\ Called([tool |-> "prepend_to_page", text |-> text, top |-> top, answer |-> "ok"])
  BY DEF PrependToPage
<1>2. page \in Text /\ text \in Text
  BY TaskAssumption DEF TypeOK
<1>3. call'.answer = "ok"
  BY <1>1 DEF Called
<1> QED
  BY <1>1, <1>2, <1>3, PrependedType

(* patch_page_lines leaves a text, and refuses a range beyond the page.    *)
LEMMA PatchTyped ==
    ASSUME TypeOK, PatchPageLines
    PROVE  page' \in Text /\ call'.answer \in {"ok", "refused"}
<1> DEFINE n == Len(SplitBodyLines(page))
           Answer(last) == IF last > n THEN "refused" ELSE "ok"
<1>1. PICK text \in Texts, first \in 1..n, last \in 1..n + 1 :
         /\ first <= last
         /\ page' = IF Answer(last) = "ok" THEN LinesPatched(page, first, last, text) ELSE page
         /\ Called([tool |-> "patch_page_lines", first |-> first, last |-> last,
                    text |-> text, answer |-> Answer(last)])
  BY Zenon DEF PatchPageLines
<1>2. page \in Text /\ text \in Text /\ n \in Nat
  BY TaskAssumption, SplitBodyLinesType DEF TypeOK
<1>3. first \in Nat /\ last \in Nat /\ 1 <= first
  BY <1>2
<1>4. Answer(last) = "ok" => last <= n
  BY <1>2, <1>3
<1>5. page' \in Text
  BY <1>1, <1>2, <1>3, <1>4, LinesPatchedType
<1>6. call'.answer = Answer(last)
  BY <1>1 DEF Called
<1> QED
  BY <1>5, <1>6

(* check_task leaves a text: where it could not, it refuses.               *)
LEMMA CheckTyped ==
    ASSUME TypeOK, CheckTask
    PROVE  page' \in Text /\ call'.answer \in {"no_task", "multiple", "assertion", "ok"}
<1>1. PICK ref \in Refs, state \in States :
         /\ page' = IF CheckTaskAnswer(page, ref) = "ok" THEN Flipped(page, ref, state) ELSE page
         /\ Called([tool |-> "check_task", ref |-> ref, state |-> state,
                    answer |-> CheckTaskAnswer(page, ref)])
  BY Zenon DEF CheckTask
<1>2. page \in Text
  BY DEF TypeOK
<1>3. CheckTaskAnswer(page, ref) = "ok" => FindTaskBullet(page, ref) # NoMatch
  BY DEF CheckTaskAnswer
<1>4. page' \in Text
  BY <1>1, <1>2, <1>3, FlippedType
<1>5. call'.answer = CheckTaskAnswer(page, ref)
  BY <1>1 DEF Called
<1>6. CheckTaskAnswer(page, ref) \in {"no_task", "multiple", "assertion", "ok"}
  BY DEF CheckTaskAnswer
<1> QED
  BY <1>4, <1>5, <1>6

(* Every step leaves a text.                                               *)
LEMMA NextTypeOK ==
    ASSUME TypeOK, [Next]_vars
    PROVE  TypeOK'
<1>1. CASE UNCHANGED vars
  BY <1>1 DEF vars, TypeOK
<1>2. CASE Next
  <2>1. calls' \in 0..MaxCalls
    BY <1>2, TaskAssumption DEF Next, TypeOK
  <2>2. page' \in Text /\ call'.answer \in {"ok", "refused", "no_task", "multiple", "assertion"}
    BY <1>2, AppendTyped, PrependTyped, PatchTyped, CheckTyped DEF Next
  <2> QED BY <2>1, <2>2 DEF TypeOK
<1> QED
  BY <1>1, <1>2

(* Every edit of every page leaves a text over the same alphabet, and      *)
(* every call an answer: in particular the flip of a checkbox, which       *)
(* slices characters with a count of bytes, and prepend_to_page, which     *)
(* puts the page together again from the lines of its frontmatter.         *)
THEOREM TypeCorrect == Spec => []TypeOK
  BY InitTypeOK, NextTypeOK, PTL DEF Spec

-------------------------------------------------------------------------------
(***************************************************************************)
(* The rows of list_tasks.                                                 *)
(***************************************************************************)
TaskRow(lines, i) == [line |-> i, state |-> Bullet(lines[i]).state, ref |-> RefOf(lines[i])]
RowsFrom(lines, from) == {TaskRow(lines, i) : i \in {j \in from..Len(lines) : IsBullet(lines[j])}}

(* The listing is the rows behind the frontmatter.                         *)
LEMMA RowsOfLines ==
    ASSUME NEW body
    PROVE  ParseTasks(body) = RowsFrom(Split(body), FrontmatterEnd(Split(body)) + 1)
BY Zenon DEF ParseTasks, RowsFrom, TaskRow

(* The frontmatter ends at a line, or there is none.                       *)
LEMMA FrontmatterEndType ==
    ASSUME NEW lines \in Seq(Text), lines # << >>
    PROVE  FrontmatterEnd(lines) \in 0..Len(lines)
<1>1. ClosingFence(lines) \in 0..Len(lines) /\ 0 \in 0..Len(lines)
  BY ClosingFenceType
<1> QED
  BY <1>1 DEF FrontmatterEnd

(* A row stands for a task line behind the frontmatter.                    *)
LEMMA RowIsLine ==
    ASSUME NEW body \in Text, NEW row \in ParseTasks(body)
    PROVE  /\ row.line \in DOMAIN Split(body)
           /\ row.line > FrontmatterEnd(Split(body))
           /\ IsBullet(Split(body)[row.line])
           /\ row = TaskRow(Split(body), row.line)
           /\ row.line \in DOMAIN SplitBodyLines(body)
           /\ SplitBodyLines(body)[row.line] = Split(body)[row.line]
<1> DEFINE lines == Split(body)
           fm == FrontmatterEnd(lines)
<1>1. lines \in Seq(Text) /\ lines # << >>
  BY SplitType
<1>2. fm \in 0..Len(lines)
  BY <1>1, FrontmatterEndType
<1>3. PICK i \in fm + 1..Len(lines) : IsBullet(lines[i]) /\ row = TaskRow(lines, i)
  BY RowsOfLines DEF RowsFrom
<1> HIDE DEF lines, fm
<1>4. i \in DOMAIN lines /\ i > fm
  BY <1>1, <1>2
<1>5. row.line = i
  BY <1>3 DEF TaskRow
<1>6. lines[i] \in Text
  BY <1>1, <1>4
<1>7. lines[i] # << >>
  <2>1. Len(lines[i]) > 3
    BY <1>3, <1>6, BulletType
  <2>2. Len(<< >>) = 0
    OBVIOUS
  <2> QED BY <2>1, <2>2
<1>8. i \in DOMAIN SplitBodyLines(body)
  BY <1>4, <1>7, BodyLine DEF lines
<1>9. SplitBodyLines(body)[i] = lines[i]
  BY <1>8, BodyLine DEF lines
<1> QED
  BY <1>3, <1>4, <1>5, <1>8, <1>9 DEF lines, fm

-------------------------------------------------------------------------------
(***************************************************************************)
(* The line numbers of patch_page_lines.                                   *)
(***************************************************************************)
(* A task line is no fence: it has a box behind its dash.                  *)
LEMMA BulletNotFence ==
    ASSUME NEW s \in Text, IsBullet(s)
    PROVE  s # Fence
<1>1. Len(s) > 3
  BY BulletType
<1>2. Len(Fence) = 3
  BY DEF Fence
<1> QED
  BY <1>1, <1>2

(* A task line behind the frontmatter that gives way to a line which is    *)
(* neither a task nor a fence takes its row with it, and no other.         *)
LEMMA RowReplaced ==
    ASSUME NEW lines, NEW new, NEW i, NEW text, Replaced(Text, lines, new, i, text),
           i > FrontmatterEnd(lines), IsBullet(lines[i]), ~IsBullet(text), text # Fence
    PROVE  RowsFrom(new, FrontmatterEnd(new) + 1)
              = RowsFrom(lines, FrontmatterEnd(lines) + 1) \ {TaskRow(lines, i)}
<1> DEFINE n == Len(lines)
           fm == FrontmatterEnd(lines)
<1>1. /\ lines \in Seq(Text) /\ new \in Seq(Text) /\ n \in Nat /\ i \in 1..n
      /\ Len(new) = n
      /\ \A k \in 1..n : new[k] = IF k = i THEN text ELSE lines[k]
  BY DEF Replaced
<1>2. lines[i] # Fence
  BY <1>1, BulletNotFence
<1>3. \A k \in 1..n : new[k] = Fence <=> lines[k] = Fence
  BY <1>1, <1>2
<1>4. ClosingFence(new) = ClosingFence(lines)
  <2>1. \A k \in 2..n : k \in 1..n
    BY <1>1
  <2>2. {k \in 2..Len(new) : new[k] = Fence} = {k \in 2..n : lines[k] = Fence}
    BY <1>1, <1>3, <2>1
  <2> QED BY <2>2 DEF ClosingFence
<1>5. FrontmatterEnd(new) = fm
  <2>1. 1 \in 1..n
    BY <1>1
  <2> QED BY <1>3, <1>4, <2>1 DEF FrontmatterEnd
<1>6. fm \in 0..n
  <2>1. lines # << >>
    BY <1>1
  <2> QED BY <1>1, <2>1, FrontmatterEndType
<1> HIDE DEF fm
<1>7. \A k \in fm + 1..n : k \in 1..n
  BY <1>1, <1>6
<1>8. \A k \in 1..n : k # i => TaskRow(new, k) = TaskRow(lines, k) /\ TaskRow(lines, k) # TaskRow(lines, i)
  <2> SUFFICES ASSUME NEW k \in 1..n, k # i
               PROVE  TaskRow(new, k) = TaskRow(lines, k) /\ TaskRow(lines, k) # TaskRow(lines, i)
    OBVIOUS
  <2>1. new[k] = lines[k]
    BY <1>1
  <2>2. TaskRow(lines, k).line = k /\ TaskRow(lines, i).line = i
    BY DEF TaskRow
  <2> QED BY <2>1, <2>2 DEF TaskRow
<1>9. ~IsBullet(new[i])
  BY <1>1
<1>10. {k \in fm + 1..n : IsBullet(new[k])} = {k \in fm + 1..n : IsBullet(lines[k])} \ {i}
  BY <1>1, <1>7, <1>9
<1>11. RowsFrom(new, fm + 1) = {TaskRow(new, k) : k \in {j \in fm + 1..n : IsBullet(lines[j])} \ {i}}
  BY <1>1, <1>10 DEF RowsFrom
<1>12. RowsFrom(lines, fm + 1) = {TaskRow(lines, k) : k \in {j \in fm + 1..n : IsBullet(lines[j])}}
  BY DEF RowsFrom
<1> QED
  BY <1>5, <1>7, <1>8, <1>11, <1>12 DEF fm

(* A note is one line without a task, a fence, a link or a line break.     *)
LEMMA NoteLine ==
    ASSUME NEW text \in Note \ {<< >>}
    PROVE  /\ text \in LineText /\ text \in Text /\ text # << >>
           /\ text \in Seq(Unbroken)
           /\ ~IsBullet(text) /\ text # Fence
           /\ \A ref \in Refs : ~Contains(text, ref)
<1>1. text \in Text /\ text # << >> /\ \A i \in DOMAIN text : text[i] \notin Refs \cup Syntax
  BY TaskAssumption DEF Note, Holds
<1>2. LF \in Syntax /\ CR \in Syntax /\ FF \in Syntax /\ Dash \in Syntax
  BY DEF Syntax
<1>3. \A i \in DOMAIN text : text[i] # LF /\ text[i] # CR /\ text[i] # FF /\ text[i] # Dash
  BY <1>1, <1>2
<1>4. text \in Seq(Unbroken)
  BY <1>1, <1>3 DEF Text, Unbroken
<1>5. ~IsBullet(text)
  BY <1>1, <1>3, BulletType
<1>6. text # Fence
  <2>1. 1 \in DOMAIN Fence /\ Fence[1] = Dash
    BY DEF Fence
  <2> QED BY <1>3, <2>1
<1>7. \A ref \in Refs : ~Contains(text, ref)
  <2>1. DOMAIN text = 1..Len(text)
    BY <1>1 DEF Text
  <2> QED BY <1>1, <2>1 DEF Contains
<1> QED
  BY <1>1, <1>3, <1>4, <1>5, <1>6, <1>7 DEF LineText

(* A row's line number is the one patch_page_lines wants.                  *)
LEMMA RowIsPatchable ==
    ASSUME NEW body \in Text, NEW text \in Note \ {<< >>}, NEW row \in ParseTasks(body)
    PROVE  ParseTasks(LinesPatched(body, row.line, row.line, text)) = ParseTasks(body) \ {row}
<1> DEFINE lines == Split(body)
           i == row.line
           patched == LinesPatched(body, i, i, text)
           new == [lines EXCEPT ![i] = text]
<1>1. /\ i \in DOMAIN lines /\ i > FrontmatterEnd(lines) /\ IsBullet(lines[i])
      /\ row = TaskRow(lines, i) /\ i \in DOMAIN SplitBodyLines(body)
  BY RowIsLine
<1>2. lines \in Seq(Text)
  BY SplitType
<1>3. text \in LineText /\ text \in Text /\ text # << >> /\ ~IsBullet(text) /\ text # Fence
  BY NoteLine
<1>4. Split(patched) = new
  BY <1>1, <1>3, LinePatched
<1>5. Replaced(Text, lines, new, i, text)
  <2>1. i \in 1..Len(lines)
    BY <1>1, <1>2
  <2> HIDE DEF lines
  <2> QED BY <1>1, <1>2, <1>3, <2>1, ExceptSeq DEF Replaced
<1>6. ParseTasks(patched) = RowsFrom(new, FrontmatterEnd(new) + 1)
  BY <1>4, RowsOfLines
<1>7. ParseTasks(body) = RowsFrom(lines, FrontmatterEnd(lines) + 1)
  BY RowsOfLines
<1> HIDE DEF lines, i, new
<1>8. RowsFrom(new, FrontmatterEnd(new) + 1)
         = RowsFrom(lines, FrontmatterEnd(lines) + 1) \ {TaskRow(lines, i)}
  BY <1>1, <1>3, <1>5, RowReplaced
<1> QED
  BY <1>1, <1>6, <1>7, <1>8 DEF i

(* The lines of the file, as the walks over the directory see them, before *)
(* and after one of them is patched in the text of the server.             *)
LEMMA ReadLines ==
    ASSUME NEW body \in Text, EndsInLineFeeds(body), NEW text \in Note \ {<< >>},
           NEW i \in DOMAIN SplitBodyLines(body)
    PROVE  LET u == UnixOf(Split(body))
               new == [u EXCEPT ![i] = text]
               patched == LinesPatched(body, i, i, text) IN
           /\ patched \in Text /\ EndsInLineFeeds(patched)
           /\ Split(ReadText(body)) = u /\ Split(ReadText(patched)) = new
           /\ ReadText(body) \in Text /\ ReadText(patched) \in Text
           /\ u \in LineSeqs /\ new \in LineSeqs /\ i \in DOMAIN u
<1> DEFINE lines == Split(body)
           all == [lines EXCEPT ![i] = text]
           u == UnixOf(lines)
           new == [u EXCEPT ![i] = text]
           patched == LinesPatched(body, i, i, text)
<1>1. /\ text \in LineText /\ text \in Text /\ text # << >>
      /\ text \in Seq(Char) /\ \A j \in DOMAIN text : text[j] # CR
  <2>1. text \in LineText /\ text \in Text /\ text # << >> /\ text \in Seq(Unbroken)
    BY NoteLine
  <2> QED BY <2>1 DEF Unbroken, Text
<1>2. lines \in LineSeqs /\ i \in DOMAIN lines /\ lines \in Seq(Seq(Char)) /\ CrAtEnds(lines)
  <2>1. CrAtEnds(lines)
    BY DEF EndsInLineFeeds, CrAtEnds
  <2> QED BY <2>1, JoinOfSplit, BodyLine, SplitType DEF Text
<1>3. patched \in Text
  <2>1. i \in Nat /\ 1 <= i /\ i <= Len(SplitBodyLines(body))
    BY SplitBodyLinesType
  <2> QED BY <1>1, <2>1, LinesPatchedType
<1>4. Split(patched) = all
  BY <1>1, LinePatched
<1> HIDE DEF lines, patched
<1>5. CrAtEnds(all) /\ UnixOf(all) = new
  BY <1>1, <1>2, UnixReplaced
<1>6. u \in LineSeqs
  BY <1>2, UnixLineSeqs
<1>7. DOMAIN u = DOMAIN lines
  BY DEF UnixOf
<1>8. EndsInLineFeeds(patched)
  BY <1>4, <1>5 DEF EndsInLineFeeds, CrAtEnds
<1>9. Char \in SUBSET Char /\ LF \in Char /\ body \in Seq(Char) /\ patched \in Seq(Char)
  BY <1>3 DEF Text, Char, Syntax
<1>10. Split(ReadText(body)) = u /\ ReadText(body) \in Text
  BY <1>2, <1>9, ReadTextIs DEF lines
<1>11. Split(ReadText(patched)) = new /\ ReadText(patched) \in Text
  BY <1>4, <1>5, <1>9, ReadTextIs
<1>12. new \in LineSeqs
  BY <1>11, JoinOfSplit
<1> QED
  BY <1>2, <1>3, <1>6, <1>7, <1>8, <1>10, <1>11, <1>12 DEF lines, patched

(* A line of the file that is not empty is one of the page that is patched. *)
LEMMA ReadLine ==
    ASSUME NEW body \in Text, EndsInLineFeeds(body), NEW i \in DOMAIN Split(ReadText(body)),
           Split(ReadText(body))[i] # << >>
    PROVE  i \in DOMAIN SplitBodyLines(body)
<1> DEFINE lines == Split(body)
<1>1. CrAtEnds(lines) /\ lines \in Seq(Seq(Char))
  BY SplitType DEF EndsInLineFeeds, CrAtEnds, Text
<1>2. Char \in SUBSET Char /\ LF \in Char /\ body \in Seq(Char)
  BY DEF Text, Char, Syntax
<1>3. Split(ReadText(body)) = UnixOf(lines)
  BY <1>1, <1>2, ReadTextIs
<1>4. i \in DOMAIN lines /\ UnixOf(lines)[i] # << >>
  BY <1>3 DEF UnixOf
<1>5. lines[i] # << >>
  <2> HIDE DEF lines
  <2> QED BY <1>1, <1>4, UnixLine
<1> QED
  BY <1>4, <1>5, BodyLine

(* So the line number of a row of the space's listing is the one           *)
(* patch_page_lines wants, whether lines end in LF or CR LF.               *)
LEMMA SpaceRowIsPatchable ==
    ASSUME NEW body \in Text, EndsInLineFeeds(body), NEW text \in Note \ {<< >>},
           NEW row \in SpaceTasks(body)
    PROVE  SpaceTasks(LinesPatched(body, row.line, row.line, text)) = SpaceTasks(body) \ {row}
<1> DEFINE i == row.line
           read == ReadText(body)
           lines == Split(read)
           patched == LinesPatched(body, i, i, text)
           new == [lines EXCEPT ![i] = text]
<1>1. read \in Text
  <2>1. CrAtEnds(Split(body)) /\ Char \in SUBSET Char /\ LF \in Char /\ body \in Seq(Char)
    BY DEF EndsInLineFeeds, CrAtEnds, Text, Char, Syntax
  <2> QED BY <2>1, ReadTextIs
<1>2. /\ i \in DOMAIN lines /\ i > FrontmatterEnd(lines) /\ IsBullet(lines[i])
      /\ row = TaskRow(lines, i) /\ lines \in Seq(Text)
  BY <1>1, RowIsLine, SplitType DEF SpaceTasks
<1>3. lines[i] # << >>
  <2>1. lines[i] \in Text
    BY <1>2
  <2>2. Len(lines[i]) > 3 /\ Len(<< >>) = 0
    BY <1>2, <2>1, BulletType
  <2> QED BY <2>2
<1>4. i \in DOMAIN SplitBodyLines(body)
  BY <1>2, <1>3, ReadLine
<1>5. Split(ReadText(patched)) = new
  BY <1>4, ReadLines
<1>6. text \in Text /\ ~IsBullet(text) /\ text # Fence
  BY NoteLine
<1>7. Replaced(Text, lines, new, i, text)
  <2>1. i \in 1..Len(lines)
    BY <1>2
  <2> HIDE DEF lines
  <2> QED BY <1>2, <1>6, <2>1, ExceptSeq DEF Replaced
<1>8. SpaceTasks(patched) = RowsFrom(new, FrontmatterEnd(new) + 1)
  BY <1>5, RowsOfLines DEF SpaceTasks
<1>9. SpaceTasks(body) = RowsFrom(lines, FrontmatterEnd(lines) + 1)
  BY RowsOfLines DEF SpaceTasks
<1> HIDE DEF lines, i, new
<1>10. RowsFrom(new, FrontmatterEnd(new) + 1)
         = RowsFrom(lines, FrontmatterEnd(lines) + 1) \ {TaskRow(lines, i)}
  BY <1>2, <1>6, <1>7, RowReplaced
<1> QED
  BY <1>2, <1>8, <1>9, <1>10 DEF i

(* The lines with a link, on a page whose lines end in LF or CR LF and have *)
(* no other boundary of str.splitlines in them.                            *)
LEMMA BacklinksOfLines ==
    ASSUME NEW body \in Text, EndsInLineFeeds(body), ~Holds(body, {FF}), NEW ref \in Refs
    PROVE  LET u == Split(ReadText(body)) IN
           BacklinkLines(body, ref) = {k \in DOMAIN u : Contains(u[k], ref)}
<1> DEFINE read == ReadText(body)
           u == Split(read)
           sl == SplitBodyLines(read)
           C == Char \ {FF}
<1>1. C \in SUBSET Char /\ LF \in C /\ body \in Seq(C)
  <2>1. \A k \in DOMAIN body : body[k] \in C
    BY DEF Holds, Text
  <2>2. body \in Seq(Char) /\ LF \in C
    BY DEF Text, Char, Syntax, LF, FF
  <2> HIDE DEF C
  <2>3. body \in Seq(C)
    BY <2>1, <2>2
  <2> QED BY <2>2, <2>3 DEF C
<1>2. CrAtEnds(Split(body))
  BY DEF EndsInLineFeeds, CrAtEnds
<1>3. read \in Seq(C \ {CR}) /\ read \in Text
  <2> HIDE DEF C
  <2> QED BY <1>1, <1>2, ReadTextIs
<1>4. C \ {CR} = Unbroken
  BY DEF Unbroken
<1>5. SplitLines(read) = sl
  BY <1>3, <1>4, SplitLinesPlain
<1>6. BacklinkLines(body, ref) = {k \in DOMAIN sl : Contains(sl[k], ref)}
  BY <1>5 DEF BacklinkLines
<1>7. /\ \A k \in DOMAIN sl : k \in DOMAIN u /\ sl[k] = u[k]
      /\ \A k \in DOMAIN u : u[k] # << >> => k \in DOMAIN sl
  BY <1>3, BodyLine
<1>8. ~Contains(<< >>, ref)
  BY DEF Contains
<1> HIDE DEF u, sl
<1> QED
  BY <1>6, <1>7, <1>8 DEF u

(* So find_backlinks counts on such a page as patch_page_lines does.       *)
LEMMA BacklinkIsPatchable ==
    ASSUME NEW body \in Text, EndsInLineFeeds(body), ~Holds(body, {FF}),
           NEW text \in Note \ {<< >>}, NEW ref \in Refs, NEW i \in BacklinkLines(body, ref)
    PROVE  BacklinkLines(LinesPatched(body, i, i, text), ref) = BacklinkLines(body, ref) \ {i}
<1> DEFINE u == Split(ReadText(body))
           patched == LinesPatched(body, i, i, text)
           new == [u EXCEPT ![i] = text]
<1>1. BacklinkLines(body, ref) = {k \in DOMAIN u : Contains(u[k], ref)}
  BY BacklinksOfLines
<1>2. i \in DOMAIN u /\ u[i] # << >>
  <2>1. ~Contains(<< >>, ref)
    BY DEF Contains
  <2> QED BY <1>1, <2>1
<1>3. i \in DOMAIN SplitBodyLines(body)
  BY <1>2, ReadLine
<1>4. /\ patched \in Text /\ EndsInLineFeeds(patched)
      /\ Split(ReadText(patched)) = new
  BY <1>3, ReadLines
<1>5. /\ text \in LineText /\ text # << >> /\ text \in Seq(Unbroken) /\ text \in Text
      /\ ~Contains(text, ref)
  BY NoteLine
<1>6. ~Holds(patched, {FF})
  <2> DEFINE C == Char \ {FF}
             s == Split(body)
             all == [s EXCEPT ![i] = text]
  <2>1. C \in SUBSET Char /\ LF \in C
    BY DEF Char, Syntax, LF, FF
  <2>2. \A k \in DOMAIN body : body[k] \in C
    BY DEF Holds, Text
  <2>3. body \in Seq(Char) /\ s \in LineSeqs /\ Join(s) = body
    BY JoinOfSplit DEF Text
  <2>4. text \in Seq(C)
    BY <1>5 DEF Unbroken
  <2>5. i \in DOMAIN s
    BY <1>3, BodyLine
  <2>6. Split(patched) = all
    BY <1>3, <1>5, LinePatched
  <2> HIDE DEF C, s
  <2>7. body \in Seq(C)
    BY <2>2, <2>3
  <2>8. s \in Seq(Seq(C))
    BY <2>3, <2>7, LinesWithout
  <2>9. all \in Seq(Seq(C))
    BY <2>4, <2>5, <2>8, ExceptSeq
  <2> HIDE DEF all
  <2>10. patched \in Seq(C)
    BY <1>4, <2>1, <2>6, <2>9, JoinChars, JoinOfSplit
  <2> QED BY <2>10 DEF C, Holds
<1>7. BacklinkLines(patched, ref) = {k \in DOMAIN new : Contains(new[k], ref)}
  <2>1. BacklinkLines(patched, ref)
          = {k \in DOMAIN Split(ReadText(patched)) : Contains(Split(ReadText(patched))[k], ref)}
    <3> HIDE DEF patched
    <3> QED BY <1>4, <1>6, BacklinksOfLines
  <2> HIDE DEF patched, new
  <2> QED BY <1>4, <2>1
<1>8. DOMAIN new = DOMAIN u /\ \A k \in DOMAIN u : new[k] = IF k = i THEN text ELSE u[k]
  <2> HIDE DEF u
  <2> QED BY <1>2
<1> HIDE DEF new, u
<1> QED
  BY <1>1, <1>5, <1>7, <1>8

(* Replacing the line of a row by a note takes that row and no other out   *)
(* of the listing: of the listing of a page on every page, although it     *)
(* numbers the lines of the text and patch_page_lines those without the    *)
(* last empty one; of the listing of the space, which numbers the lines of *)
(* another text, and of find_backlinks, which splits that text in a third  *)
(* way, on the pages where these agree.                                    *)
THEOREM LinesPatchable == Spec => []ListedLineIsPatchable
<1>1. TypeOK => ListedLineIsPatchable
  BY RowIsPatchable, SpaceRowIsPatchable, BacklinkIsPatchable DEF TypeOK, ListedLineIsPatchable
<1> QED
  BY <1>1, TypeCorrect, PTL

-------------------------------------------------------------------------------
(***************************************************************************)
(* What additions do to the listing.                                       *)
(***************************************************************************)
(* Lines that hold the same tasks from somewhere on, k lines further down. *)
Shifted(lines, from, new, start, k) ==
    /\ lines \in Seq(Text) /\ new \in Seq(Text)
    /\ from \in Nat /\ start \in Nat /\ k \in Nat
    /\ \A j \in from..Len(lines) :
          IsBullet(lines[j]) => j + k \in start..Len(new) /\ new[j + k] = lines[j]
    /\ \A j \in start..Len(new) :
          IsBullet(new[j]) => j - k \in from..Len(lines) /\ lines[j - k] = new[j]

RowsLike(rows, like) == {row \in rows : <<row.state, row.ref>> = like}

(* They hold each kind of task equally often.                              *)
LEMMA SameRows ==
    ASSUME NEW lines, NEW from, NEW new, NEW start, NEW k,
           Shifted(lines, from, new, start, k), NEW like
    PROVE  Cardinality(RowsLike(RowsFrom(lines, from), like))
              = Cardinality(RowsLike(RowsFrom(new, start), like))
<1> DEFINE I == {j \in from..Len(lines) : IsBullet(lines[j])}
           J == {j \in start..Len(new) : IsBullet(new[j])}
           S == RowsLike(RowsFrom(lines, from), like)
           T == RowsLike(RowsFrom(new, start), like)
           Like(row) == <<row.state, row.ref>> = like
           f == [row \in S |-> TaskRow(new, row.line + k)]
<1>1. /\ lines \in Seq(Text) /\ new \in Seq(Text)
      /\ from \in Nat /\ start \in Nat /\ k \in Nat
      /\ Len(lines) \in Nat /\ Len(new) \in Nat
  BY DEF Shifted
<1>2. \A j \in I : j \in Int /\ j + k \in J /\ new[j + k] = lines[j]
  <2> SUFFICES ASSUME NEW j \in I PROVE j \in Int /\ j + k \in J /\ new[j + k] = lines[j]
    OBVIOUS
  <2>1. j \in from..Len(lines) /\ IsBullet(lines[j])
    OBVIOUS
  <2>2. j + k \in start..Len(new) /\ new[j + k] = lines[j]
    BY <2>1 DEF Shifted
  <2> QED BY <1>1, <2>1, <2>2
<1>3. \A j \in J : j \in Int /\ j - k \in I /\ lines[j - k] = new[j] /\ (j - k) + k = j
  <2> SUFFICES ASSUME NEW j \in J
               PROVE  j \in Int /\ j - k \in I /\ lines[j - k] = new[j] /\ (j - k) + k = j
    OBVIOUS
  <2>1. j \in start..Len(new) /\ IsBullet(new[j])
    OBVIOUS
  <2>2. j - k \in from..Len(lines) /\ lines[j - k] = new[j]
    BY <2>1 DEF Shifted
  <2> QED BY <1>1, <2>1, <2>2
<1>4. IsFiniteSet(I)
  <2>1. IsFiniteSet(from..Len(lines)) /\ I \in SUBSET (from..Len(lines))
    BY <1>1, FS_Interval
  <2> QED BY <2>1, FS_Subset
<1> HIDE DEF I, J
<1>5. RowsFrom(lines, from) = {TaskRow(lines, j) : j \in I}
  BY DEF RowsFrom, I
<1>6. RowsFrom(new, start) = {TaskRow(new, j) : j \in J}
  BY DEF RowsFrom, J
<1>7. \A j : /\ TaskRow(lines, j).line = j
             /\ new[j + k] = lines[j] =>
                   /\ TaskRow(new, j + k).line = j + k
                   /\ Like(TaskRow(new, j + k)) <=> Like(TaskRow(lines, j))
  BY DEF TaskRow
<1>8. \A row \in S : /\ row.line \in I /\ row = TaskRow(lines, row.line)
                     /\ Like(row)
  BY <1>5, <1>7 DEF RowsLike
<1>9. \A j \in J : Like(TaskRow(new, j)) => TaskRow(new, j) \in T
  BY <1>6 DEF RowsLike
<1>10. \A row \in T : \E j \in J : row = TaskRow(new, j) /\ Like(row)
  BY <1>6 DEF RowsLike
<1>11. \A j \in I : Like(TaskRow(lines, j))
                       => TaskRow(lines, j) \in S
  BY <1>5 DEF RowsLike
<1> HIDE DEF S, T
<1>12. f \in [S -> T]
  <2> SUFFICES ASSUME NEW row \in S PROVE TaskRow(new, row.line + k) \in T
    OBVIOUS
  <2> DEFINE j == row.line
  <2>1. j \in I /\ row = TaskRow(lines, j) /\ Like(row)
    BY <1>8
  <2> HIDE DEF j
  <2>2. j + k \in J /\ new[j + k] = lines[j]
    BY <1>2, <2>1
  <2> QED BY <1>7, <1>9, <2>1, <2>2 DEF j
<1>13. \A r, s \in S : f[r] = f[s] => r = s
  <2> SUFFICES ASSUME NEW r \in S, NEW s \in S, f[r] = f[s] PROVE r = s
    OBVIOUS
  <2>1. r.line \in I /\ r = TaskRow(lines, r.line) /\ s.line \in I /\ s = TaskRow(lines, s.line)
    BY <1>8
  <2>2. r.line + k = s.line + k
    <3>1. f[r].line = r.line + k /\ f[s].line = s.line + k
      BY DEF TaskRow
    <3> QED BY <3>1
  <2>3. r.line = s.line
    BY <1>1, <1>2, <2>1, <2>2
  <2> QED BY <2>1, <2>3
<1>14. \A row \in T : \E r \in S : f[r] = row
  <2> SUFFICES ASSUME NEW row \in T PROVE \E r \in S : f[r] = row
    OBVIOUS
  <2>1. PICK j \in J : row = TaskRow(new, j) /\ Like(row)
    BY <1>10
  <2> DEFINE i == j - k
  <2>2. i \in I /\ lines[i] = new[j] /\ i + k = j
    BY <1>3
  <2> HIDE DEF i
  <2>3. Like(TaskRow(lines, i))
    BY <1>7, <2>1, <2>2
  <2>4. TaskRow(lines, i) \in S
    BY <1>11, <2>2, <2>3
  <2>5. f[TaskRow(lines, i)] = row
    BY <1>7, <2>1, <2>2, <2>4
  <2> QED BY <2>4, <2>5
<1> HIDE DEF f
<1>15. f \in Bijection(S, T)
  BY <1>12, <1>13, <1>14 DEF Bijection, Injection, Surjection, IsInjective
<1>16. IsFiniteSet(S)
  <2> DEFINE P == {j \in I : TaskRow(lines, j) \in S}
             h == [j \in P |-> TaskRow(lines, j)]
  <2>1. h \in Surjection(P, S)
    <3>1. h \in [P -> S]
      OBVIOUS
    <3>2. \A row \in S : row.line \in P /\ h[row.line] = row
      BY <1>8
    <3> HIDE DEF h, P
    <3> QED BY <3>1, <3>2 DEF Surjection
  <2>2. IsFiniteSet(P)
    BY <1>4, FS_Subset
  <2> HIDE DEF h, P
  <2> QED BY <2>1, <2>2, FS_Surjection
<1> QED
  BY <1>15, <1>16, FS_Bijection DEF ExistsBijection, S, T

(* So the listings have the same tasks equally often.                      *)
LEMMA SameBags ==
    ASSUME NEW body, NEW new, NEW k,
           Shifted(Split(body), FrontmatterEnd(Split(body)) + 1,
                   Split(new), FrontmatterEnd(Split(new)) + 1, k)
    PROVE  TaskBag(new) = TaskBag(body)
<1> DEFINE Count(b, like) == Cardinality(RowsLike(ParseTasks(b), like))
<1>1. \A like : Count(body, like) = Count(new, like)
  BY SameRows, RowsOfLines
<1>2. \A b : TaskBag(b) = [like \in Marks \X (Refs \cup {NoRef}) |-> Count(b, like)]
  BY Zenon DEF TaskBag, RowsLike
<1> HIDE DEF Count
<1> QED
  BY <1>1, <1>2

(* Where the fences are the same, so is the frontmatter.                   *)
LEMMA SameFences ==
    ASSUME NEW lines \in Seq(Text), NEW new \in Seq(Text), lines # << >>, new # << >>,
           \A k \in 1..Len(lines) : lines[k] = Fence => k \in 1..Len(new) /\ new[k] = Fence,
           \A k \in 1..Len(new) : new[k] = Fence => k \in 1..Len(lines) /\ lines[k] = Fence
    PROVE  FrontmatterEnd(new) = FrontmatterEnd(lines)
<1>1. \A k \in 2..Len(lines) : k \in 1..Len(lines)
  OBVIOUS
<1>2. \A k \in 2..Len(new) : k \in 1..Len(new)
  OBVIOUS
<1>3. \A k : k \in 2..Len(new) /\ k \in 1..Len(lines) => k \in 2..Len(lines)
  OBVIOUS
<1>4. \A k : k \in 2..Len(lines) /\ k \in 1..Len(new) => k \in 2..Len(new)
  OBVIOUS
<1>5. {k \in 2..Len(new) : new[k] = Fence} = {k \in 2..Len(lines) : lines[k] = Fence}
  BY <1>1, <1>2, <1>3, <1>4
<1>6. new[1] = Fence <=> lines[1] = Fence
  <2>1. 1 \in 1..Len(lines) /\ 1 \in 1..Len(new)
    OBVIOUS
  <2> QED BY <2>1
<1> QED
  BY <1>5, <1>6 DEF FrontmatterEnd, ClosingFence

(* The lines of a text without a dash.                                     *)
NoTask(line) == ~IsBullet(line) /\ line # Fence

(* An empty line is one of them.                                           *)
LEMMA EmptyLine == << >> \in LineText /\ << >> \in Text /\ NoTask(<< >>)
<1>1. << >> \in LineText /\ << >> \in Text
  BY DEF LineText, Text
<1>2. Len(<< >>) = 0 /\ Len(Fence) = 3
  BY DEF Fence
<1>3. ~IsBullet(<< >>)
  <2>1. IsBullet(<< >>) => Len(<< >>) > 3
    BY <1>1, BulletType
  <2> QED BY <1>2, <2>1
<1> QED
  BY <1>1, <1>2, <1>3 DEF NoTask

(* Lines without a dash hold neither a task nor a fence.                   *)
LEMMA PlainLinesLines ==
    ASSUME NEW text \in PlainLines
    PROVE  /\ text \in Text
           /\ \E lines \in LineSeqs :
                 EndedBy(text, lines) /\ \A i \in DOMAIN lines : NoTask(lines[i])
<1>1. text \in Text /\ EndsWithLF(text) /\ ~Holds(text, {Dash, CR})
  BY TaskAssumption DEF PlainLines
<1>2. text # << >>
  BY <1>1 DEF EndsWithLF
<1>3. PICK lines \in LineSeqs : EndedBy(text, lines)
  BY <1>1, <1>2, PageEnds
<1> DEFINE C == Char \ {Dash}
<1>4. text \in Seq(C)
  <2>1. \A i \in DOMAIN text : text[i] # Dash
    BY <1>1 DEF Holds
  <2> QED BY <1>1, <2>1 DEF Text
<1>5. \A i \in DOMAIN lines : NoTask(lines[i])
  <2> SUFFICES ASSUME NEW i \in DOMAIN lines PROVE NoTask(lines[i])
    OBVIOUS
  <2>1. SplitBodyLines(text) = lines /\ lines \in Seq(LineText)
    BY <1>3 DEF EndedBy, LineSeqs
  <2>2. i \in DOMAIN Split(text) /\ lines[i] = Split(text)[i]
    BY <1>1, <2>1, BodyLine
  <2>3. Split(text) \in Seq(Seq(C))
    <3> HIDE DEF C
    <3> QED BY <1>4, CutType DEF Split
  <2>4. lines[i] \in Seq(C) /\ lines[i] \in Text
    BY <2>1, <2>2, <2>3 DEF LineText
  <2>5. \A j \in DOMAIN lines[i] : lines[i][j] # Dash
    BY <2>4
  <2>6. ~IsBullet(lines[i])
    BY <2>4, <2>5, BulletType
  <2>7. lines[i] # Fence
    <3>1. 1 \in DOMAIN Fence /\ Fence[1] = Dash
      BY DEF Fence
    <3> QED BY <2>5, <3>1
  <2> QED BY <2>6, <2>7 DEF NoTask
<1> QED
  BY <1>1, <1>3, <1>5

(* Lines whose tasks and fences are all among the first ones.              *)
StartsWith(lines, front) ==
    /\ lines \in Seq(Text) /\ front \in Seq(Text) /\ lines # << >>
    /\ Len(front) <= Len(lines)
    /\ \A k \in 1..Len(front) : lines[k] = front[k]
    /\ \A k \in Len(front) + 1..Len(lines) : NoTask(lines[k])

(* Lines without tasks behind others make such a list.                     *)
LEMMA StartsWithConcat ==
    ASSUME NEW front \in Seq(Text), NEW rest \in Seq(Text), front \o rest # << >>,
           \A i \in DOMAIN rest : NoTask(rest[i])
    PROVE  StartsWith(front \o rest, front)
<1> DEFINE n == Len(front)
           m == Len(rest)
           all == front \o rest
<1>1. n \in Nat /\ m \in Nat /\ DOMAIN rest = 1..m
  OBVIOUS
<1>2. /\ all \in Seq(Text) /\ Len(all) = n + m
      /\ \A k \in 1..n + m : all[k] = IF k <= n THEN front[k] ELSE rest[k - n]
  BY ConcatProperties
<1> HIDE DEF all, n, m
<1>3. \A k \in 1..n : all[k] = front[k]
  <2>1. \A k \in 1..n : k \in 1..n + m /\ k <= n
    BY <1>1
  <2> QED BY <1>2, <2>1
<1>4. \A k \in n + 1..n + m : all[k] = rest[k - n] /\ k - n \in DOMAIN rest
  <2>1. \A k \in n + 1..n + m : k \in 1..n + m /\ ~(k <= n) /\ k - n \in 1..m
    BY <1>1
  <2> QED BY <1>1, <1>2, <2>1
<1>5. \A k \in n + 1..n + m : NoTask(all[k])
  BY <1>4
<1>6. all # << >> /\ n <= Len(all)
  BY <1>1, <1>2 DEF all
<1> QED
  BY <1>2, <1>3, <1>5, <1>6 DEF StartsWith, all, n

(* Two lists with the same beginning have the same frontmatter and rows.   *)
LEMMA SameStart ==
    ASSUME NEW lines, NEW new, NEW front, StartsWith(lines, front), StartsWith(new, front)
    PROVE  /\ FrontmatterEnd(new) = FrontmatterEnd(lines)
           /\ Shifted(lines, FrontmatterEnd(lines) + 1, new, FrontmatterEnd(new) + 1, 0)
<1> DEFINE n == Len(front)
           fm == FrontmatterEnd(lines)
<1>1. /\ lines \in Seq(Text) /\ new \in Seq(Text) /\ lines # << >> /\ new # << >>
      /\ n \in Nat /\ Len(lines) \in Nat /\ Len(new) \in Nat
      /\ n <= Len(lines) /\ n <= Len(new)
      /\ \A k \in 1..n : lines[k] = front[k] /\ new[k] = front[k]
  BY DEF StartsWith
<1>2. \A k \in n + 1..Len(lines) : NoTask(lines[k])
  BY DEF StartsWith
<1>3. \A k \in n + 1..Len(new) : NoTask(new[k])
  BY DEF StartsWith
<1> HIDE DEF n
<1>4. \A k \in 1..Len(lines) : k \in 1..n \/ k \in n + 1..Len(lines)
  BY <1>1
<1>5. \A k \in 1..Len(new) : k \in 1..n \/ k \in n + 1..Len(new)
  BY <1>1
<1>6. \A k \in 1..n : k \in 1..Len(lines) /\ k \in 1..Len(new) /\ lines[k] = new[k]
  BY <1>1
<1>7. \A k \in 1..Len(lines) : lines[k] = Fence => k \in 1..Len(new) /\ new[k] = Fence
  BY <1>2, <1>4, <1>6 DEF NoTask
<1>8. \A k \in 1..Len(new) : new[k] = Fence => k \in 1..Len(lines) /\ lines[k] = Fence
  BY <1>3, <1>5, <1>6 DEF NoTask
<1>9. FrontmatterEnd(new) = fm /\ fm \in Nat
  BY <1>1, <1>7, <1>8, SameFences, FrontmatterEndType
<1> HIDE DEF fm
<1>10. \A j \in fm + 1..Len(lines) :
          IsBullet(lines[j]) => j + 0 \in fm + 1..Len(new) /\ new[j + 0] = lines[j]
  <2> SUFFICES ASSUME NEW j \in fm + 1..Len(lines), IsBullet(lines[j])
               PROVE  j + 0 \in fm + 1..Len(new) /\ new[j + 0] = lines[j]
    OBVIOUS
  <2>1. j \in 1..Len(lines) /\ j + 0 = j
    BY <1>1, <1>9
  <2>2. j \in 1..n
    BY <1>2, <1>4, <2>1 DEF NoTask
  <2> QED BY <1>1, <1>6, <1>9, <2>1, <2>2
<1>11. \A j \in fm + 1..Len(new) :
          IsBullet(new[j]) => j - 0 \in fm + 1..Len(lines) /\ lines[j - 0] = new[j]
  <2> SUFFICES ASSUME NEW j \in fm + 1..Len(new), IsBullet(new[j])
               PROVE  j - 0 \in fm + 1..Len(lines) /\ lines[j - 0] = new[j]
    OBVIOUS
  <2>1. j \in 1..Len(new) /\ j - 0 = j
    BY <1>1, <1>9
  <2>2. j \in 1..n
    BY <1>3, <1>5, <2>1 DEF NoTask
  <2> QED BY <1>1, <1>6, <1>9, <2>1, <2>2
<1> QED
  BY <1>1, <1>9, <1>10, <1>11 DEF Shifted, fm

(* Text appended is lines appended; only an empty line can give way.       *)
LEMMA AppendedLines ==
    ASSUME NEW body \in Text, NEW text \in Text
    PROVE  \E front \in Seq(LineText) :
              /\ Split(Appended(body, text)) = front \o Split(text)
              /\ Split(body) = front \/ Split(body) = Append(front, << >>)
<1> DEFINE more == Split(text)
<1>1. more \in LineSeqs /\ more \in Seq(LineText) /\ Join(more) = text
  BY JoinOfSplit DEF LineSeqs
<1> HIDE DEF more
<1>2. CASE body = << >> /\ Split(body) = <<<< >>>> /\ SplitBodyLines(body) = << >>
  <2>1. Appended(body, text) = text
    <3>1. << >> \o text = text
      BY ConcatEmptySeq DEF Text
    <3> QED BY <1>2, <3>1 DEF Appended
  <2>2. << >> \in Seq(LineText) /\ << >> \o more = more
    BY <1>1, ConcatEmptySeq
  <2>3. Append(<< >>, << >>) = <<<< >>>>
    OBVIOUS
  <2> QED BY <1>2, <2>1, <2>2, <2>3 DEF more
<1>3. CASE \E front \in LineSeqs : EndedBy(body, front)
  <2>1. PICK front \in LineSeqs : EndedBy(body, front)
    BY <1>3
  <2>2. /\ EndsWithLF(body) /\ body = Append(Join(front), LF)
        /\ Split(body) = Append(front, << >>) /\ front \in Seq(LineText)
    BY <2>1 DEF EndedBy, LineSeqs
  <2>3. Join(front) \in Text /\ front \o more \in LineSeqs
    BY <1>1, JoinConcat
  <2>4. body = Join(front) \o <<LF>>
    BY <2>2, <2>3, AppendIsConcat DEF Text, Char, Syntax
  <2>5. Appended(body, text) = Join(front \o more)
    BY <1>1, <2>2, <2>4, JoinConcat DEF Appended
  <2> QED BY <2>2, <2>3, <2>5, SplitOfJoin DEF more
<1>4. CASE body # << >> /\ ~EndsWithLF(body)
  <2>1. Split(body) \in LineSeqs /\ Split(body) \in Seq(LineText) /\ Join(Split(body)) = body
    BY JoinOfSplit DEF LineSeqs
  <2>2. Appended(body, text) = Join(Split(body) \o more) /\ Split(body) \o more \in LineSeqs
    BY <1>1, <1>4, <2>1, JoinConcat DEF Appended
  <2> QED BY <2>1, <2>2, SplitOfJoin DEF more
<1> QED
  BY <1>2, <1>3, <1>4, PageEnds

(* append_to_page keeps the listing, on every page.                        *)
LEMMA AppendKeepsTasks ==
    ASSUME NEW body \in Text, NEW text \in PlainLines
    PROVE  TaskBag(Appended(body, text)) = TaskBag(body)
<1> DEFINE L == Split(body)
           N == Split(Appended(body, text))
<1>1. PICK lines \in LineSeqs : EndedBy(text, lines) /\ \A i \in DOMAIN lines : NoTask(lines[i])
  BY PlainLinesLines
<1>2. Split(text) = Append(lines, << >>) /\ lines \in Seq(LineText) /\ text \in Text
  BY <1>1, PlainLinesLines DEF EndedBy, LineSeqs
<1> DEFINE more == Append(lines, << >>)
<1>3. more \in Seq(Text) /\ more # << >> /\ \A i \in DOMAIN more : NoTask(more[i])
  <2>1. << >> \in LineText
    BY EmptyLine
  <2>2. /\ more \in Seq(LineText) /\ DOMAIN more = 1..Len(lines) + 1 /\ Len(lines) \in Nat
        /\ more[Len(lines) + 1] = << >> /\ \A i \in 1..Len(lines) : more[i] = lines[i]
    BY <1>2, <2>1, AppendProperties
  <2>3. \A i \in 1..Len(lines) + 1 : i \in DOMAIN lines \/ i = Len(lines) + 1
    BY <1>2
  <2>4. \A i \in DOMAIN lines : i \in 1..Len(lines)
    BY <1>2
  <2>5. \A i \in DOMAIN more : NoTask(more[i])
    BY <1>1, <2>2, <2>3, <2>4, EmptyLine
  <2>6. more # << >>
    BY <1>2, <2>1, AppendProperties
  <2> HIDE DEF more
  <2> QED BY <2>2, <2>5, <2>6, LineSeqTexts
<1> HIDE DEF more
<1>4. PICK front \in Seq(LineText) :
         /\ N = front \o more
         /\ L = front \/ L = Append(front, << >>)
  BY <1>2, AppendedLines DEF more
<1>5. front \in Seq(Text) /\ L # << >> /\ L \in Seq(Text)
  BY LineSeqTexts, SplitType
<1>6. StartsWith(N, front)
  <2>1. front \o more # << >>
    BY <1>3, <1>5, ConcatEqualIffEmpty
  <2> QED BY <1>3, <1>4, <1>5, <2>1, StartsWithConcat
<1>7. StartsWith(L, front)
  <2>1. CASE L = front
    <3> DEFINE none == << >>
    <3>1. none \in Seq(Text) /\ front \o none = front /\ \A i \in DOMAIN none : NoTask(none[i])
      BY <1>5, ConcatEmptySeq
    <3> HIDE DEF none
    <3> QED BY <1>5, <2>1, <3>1, StartsWithConcat
  <2>2. CASE L = Append(front, << >>)
    <3> DEFINE last == <<<< >>>>
    <3>1. last \in Seq(Text) /\ \A i \in DOMAIN last : NoTask(last[i])
      BY EmptyLine
    <3>2. L = front \o last
      BY <1>5, <2>2, EmptyLine, AppendIsConcat
    <3> HIDE DEF last, L
    <3> QED BY <1>5, <3>1, <3>2, StartsWithConcat
  <2> QED BY <1>4, <2>1, <2>2
<1>8. Shifted(L, FrontmatterEnd(L) + 1, N, FrontmatterEnd(N) + 1, 0)
  <2> HIDE DEF L, N
  <2> QED BY <1>6, <1>7, SameStart
<1> QED
  BY <1>8, SameBags

(* Lines without a task between the frontmatter and the text behind it     *)
(* push the tasks down.                                                    *)
LEMMA PushedDown ==
    ASSUME NEW a \in Seq(Text), NEW m \in Seq(Text), NEW b \in Seq(Text),
           \A i \in DOMAIN m : NoTask(m[i])
    PROVE  Shifted(a \o b, Len(a) + 1, a \o m \o b, Len(a) + 1, Len(m))
<1> DEFINE L == a \o b
           N == a \o m \o b
           p == Len(a)
           q == Len(m)
           r == Len(b)
<1>1. /\ L \in Seq(Text) /\ Len(L) = p + r
      /\ p \in Nat /\ q \in Nat /\ r \in Nat /\ DOMAIN m = 1..q
      /\ \A i \in 1..r : L[p + i] = b[i]
  <2>1. /\ L \in Seq(Text) /\ Len(L) = p + r
        /\ \A i \in 1..p + r : L[i] = IF i <= p THEN a[i] ELSE b[i - p]
    BY ConcatProperties
  <2>2. p \in Nat /\ q \in Nat /\ r \in Nat /\ DOMAIN m = 1..q
    OBVIOUS
  <2> HIDE DEF L, p, r
  <2>3. ASSUME NEW i \in 1..r PROVE L[p + i] = b[i]
    <3>1. p + i \in 1..p + r /\ ~(p + i <= p) /\ (p + i) - p = i
      BY <2>2
    <3> QED BY <2>1, <3>1
  <2> QED BY <2>1, <2>2, <2>3
<1>2. /\ N \in Seq(Text) /\ Len(N) = p + q + r
      /\ \A i \in 1..q : N[p + i] = m[i]
      /\ \A i \in 1..r : N[p + q + i] = b[i]
  BY ThreeParts
<1>3. \A i \in 1..q : NoTask(m[i])
  BY <1>1
<1> HIDE DEF L, N, p, q, r
<1>4. ASSUME NEW j \in p + 1..p + r
      PROVE  j + q \in p + 1..p + q + r /\ N[j + q] = L[j]
  <2> DEFINE i == j - p
  <2>1. i \in 1..r /\ p + i = j /\ p + q + i = j + q /\ j + q \in p + 1..p + q + r
    BY <1>1
  <2> HIDE DEF i
  <2> QED BY <1>1, <1>2, <2>1
<1>5. ASSUME NEW j \in p + 1..p + q + r, IsBullet(N[j])
      PROVE  j - q \in p + 1..p + r /\ L[j - q] = N[j]
  <2>1. j > p + q
    <3> SUFFICES ASSUME ~(j > p + q) PROVE FALSE
      OBVIOUS
    <3> DEFINE i == j - p
    <3>1. i \in 1..q /\ p + i = j
      BY <1>1
    <3> HIDE DEF i
    <3>2. NoTask(N[j])
      BY <1>2, <1>3, <3>1
    <3> QED BY <1>5, <3>2 DEF NoTask
  <2> DEFINE i == j - (p + q)
  <2>2. i \in 1..r /\ p + q + i = j /\ p + i = j - q /\ j - q \in p + 1..p + r
    BY <1>1, <2>1
  <2> HIDE DEF i
  <2> QED BY <1>1, <1>2, <2>2
<1>6. p + 1 \in Nat
  BY <1>1
<1>7. Shifted(L, p + 1, N, p + 1, q)
  BY <1>1, <1>2, <1>4, <1>5, <1>6 DEF Shifted
<1> QED
  BY <1>7 DEF L, N, p, q

(* A page that opens with the fence starts with it.                        *)
LEMMA FenceFirst ==
    ASSUME NEW body \in Text, Split(body)[1] = Fence
    PROVE  IsPrefix(Fence, body)
<1>1. Split(body) \in LineSeqs /\ Join(Split(body)) = body
  BY JoinOfSplit
<1>2. PICK rest \in Text : body = Fence \o rest
  BY <1>1, FirstLineFirst
<1>3. Fence \in Text /\ Len(Fence) = 3
  BY DEF Fence, Text, Char, Syntax
<1>4. Fence \in Seq(Char) /\ rest \in Seq(Char)
  BY <1>3 DEF Text
<1>5. Len(Fence) <= Len(body)
  <2>1. Len(body) = Len(Fence) + Len(rest)
    BY <1>2, <1>4, ConcatProperties
  <2>2. Len(rest) \in Nat
    BY <1>4
  <2> QED BY <1>3, <2>1, <2>2
<1>6. SubSeq(body, 1, 3) = SubSeq(Fence, 1, 3)
  <2>1. 1 \in 1..Len(Fence) /\ 3 \in 1..Len(Fence)
    BY <1>3
  <2> QED BY <1>2, <1>4, <2>1, SubSeqOfConcat1
<1> QED
  BY <1>3, <1>5, <1>6 DEF IsPrefix

(* Text on top of a page without a frontmatter.                            *)
LEMMA PrependOnTop ==
    ASSUME NEW body \in Text, ~IsPrefix(Fence, body), NEW text \in PlainLines
    PROVE  TaskBag(text \o body) = TaskBag(body)
<1> DEFINE b == Split(body)
           new == text \o body
<1>1. PICK m \in LineSeqs : EndedBy(text, m) /\ \A i \in DOMAIN m : NoTask(m[i])
  BY PlainLinesLines
<1>2. b \in LineSeqs /\ b \in Seq(Text) /\ b # << >> /\ Join(b) = body
  BY JoinOfSplit, LineSeqTexts DEF LineSeqs
<1> HIDE DEF b
<1>3. m \in Seq(Text) /\ m # << >> /\ m \o b \in LineSeqs
      /\ Join(m \o b) = Join(m) \o <<LF>> \o Join(b) /\ Join(m) \in Text
  BY <1>1, <1>2, JoinConcat, LineSeqTexts DEF LineSeqs
<1>4. text = Join(m) \o <<LF>>
  BY <1>1, <1>3, AppendIsConcat DEF EndedBy, Text, Char, Syntax
<1>5. Split(new) = m \o b
  <2>1. new = Join(m \o b)
    BY <1>2, <1>3, <1>4
  <2> QED BY <1>3, <2>1, SplitOfJoin
<1>6. b[1] # Fence
  BY FenceFirst DEF b
<1>7. FrontmatterEnd(b) = 0
  BY <1>6 DEF FrontmatterEnd
<1>8. FrontmatterEnd(m \o b) = 0
  <2>1. 1 \in DOMAIN m /\ (m \o b)[1] = m[1]
    BY <1>2, <1>3
  <2>2. m[1] # Fence
    BY <1>1, <2>1 DEF NoTask
  <2> QED BY <2>1, <2>2 DEF FrontmatterEnd
<1>9. Shifted(b, 1, m \o b, 1, Len(m))
  <2> DEFINE a == << >>
  <2>1. a \in Seq(Text) /\ Len(a) + 1 = 1 /\ a \o b = b /\ a \o m = m
    BY <1>2, <1>3, ConcatEmptySeq
  <2> HIDE DEF a
  <2>2. Shifted(a \o b, Len(a) + 1, a \o m \o b, Len(a) + 1, Len(m))
    BY <1>1, <1>2, <1>3, <2>1, PushedDown
  <2> QED BY <2>1, <2>2
<1>10. 0 + 1 = 1
  OBVIOUS
<1> QED
  BY <1>5, <1>7, <1>8, <1>9, <1>10, SameBags DEF b

(* The closing fence is the first fence after the first line.              *)
LEMMA ClosingIs ==
    ASSUME NEW lines \in Seq(Text), NEW c \in 2..Len(lines), lines[c] = Fence,
           \A i \in 2..c - 1 : lines[i] # Fence
    PROVE  ClosingFence(lines) = c
<1> DEFINE d == ClosingFence(lines)
<1>1. d = 0 => FALSE
  <2>1. d = 0 => \A i \in 2..Len(lines) : lines[i] # Fence
    BY ClosingFenceType
  <2> HIDE DEF d
  <2> QED BY <2>1
<1>2. d \in 2..Len(lines) /\ lines[d] = Fence /\ \A i \in 2..d - 1 : lines[i] # Fence
  BY <1>1, ClosingFenceType
<1> HIDE DEF d
<1>3. d < c => FALSE
  <2> SUFFICES ASSUME d < c PROVE FALSE
    OBVIOUS
  <2>1. d \in 2..c - 1
    BY <1>2
  <2> QED BY <1>2, <2>1
<1>4. c < d => FALSE
  <2> SUFFICES ASSUME c < d PROVE FALSE
    OBVIOUS
  <2>1. c \in 2..d - 1
    BY <1>2
  <2> QED BY <1>2, <2>1
<1>5. d = c
  BY <1>2, <1>3, <1>4
<1> QED
  BY <1>5 DEF d

(* The lines of a closed frontmatter block, and the lines behind it: with  *)
(* an empty line at the end in the listing's view, without it in the other.*)
Halves(lines, front, back) ==
    /\ front \in LineSeqs /\ back \in LineSeqs /\ lines = front \o back
    /\ lines[1] = Fence /\ front[1] = Fence /\ front[Len(front)] = Fence
    /\ Len(front) \in 2..Len(lines)
    /\ \A i \in 2..Len(front) - 1 : front[i] # Fence

(* A list of lines with a closed frontmatter has these halves.             *)
LEMMA HalvesExist ==
    ASSUME NEW lines \in LineSeqs, FrontmatterEnd(lines) \in 1..Len(lines) - 1
    PROVE  \E front, back \in LineSeqs :
              Halves(lines, front, back) /\ FrontmatterEnd(lines) = Len(front)
<1> DEFINE c == FrontmatterEnd(lines)
           front == SubSeq(lines, 1, c)
           back == SubSeq(lines, c + 1, Len(lines))
<1>1. lines \in Seq(LineText) /\ lines \in Seq(Text) /\ Len(lines) \in Nat
  BY LineSeqTexts DEF LineSeqs
<1>2. lines[1] = Fence /\ ClosingFence(lines) = c /\ c # 0
  <2>1. c # 0
    BY <1>1
  <2> QED BY <2>1 DEF FrontmatterEnd
<1>3. c \in 2..Len(lines) /\ lines[c] = Fence /\ \A i \in 2..c - 1 : lines[i] # Fence
  BY <1>1, <1>2, ClosingFenceType
<1>4. c \in 2..Len(lines) - 1
  BY <1>1, <1>3
<1> HIDE DEF c
<1>5. /\ c \in Nat /\ c >= 2 /\ c + 1 <= Len(lines)
      /\ 1 \in 1..Len(lines) + 1 /\ c \in 1 - 1..Len(lines) /\ Len(lines) \in c..Len(lines)
  BY <1>1, <1>4
<1>6. front \o back = lines
  <2>1. front \o back = SubSeq(lines, 1, Len(lines))
    BY <1>1, <1>5, ConcatAdjacentSubSeq
  <2> QED BY <1>1, <2>1, SubSeqFull
<1>7. /\ front \in Seq(LineText)
      /\ Len(front) = c /\ \A i \in 1..c : front[i] = lines[i]
  <2>1. 1 \in Int /\ c \in Int /\ \A i \in 1..c : lines[i] \in LineText
    BY <1>1, <1>5
  <2>2. /\ front \in Seq(LineText)
        /\ Len(front) = IF 1 <= c THEN c - 1 + 1 ELSE 0
        /\ \A i \in 1..c - 1 + 1 : front[i] = lines[1 + i - 1]
    BY <2>1, SubSeqProperties
  <2> HIDE DEF front
  <2>3. Len(front) = c
    BY <1>5, <2>2
  <2>4. \A i \in 1..c : i \in 1..c - 1 + 1 /\ 1 + i - 1 = i
    BY <1>5
  <2> QED BY <2>2, <2>3, <2>4
<1>8. back \in Seq(LineText) /\ back # << >>
  <2> DEFINE d == c + 1
             n == Len(lines)
  <2>1. n \in Int /\ d \in Int /\ d <= n /\ \A i \in d..n : lines[i] \in LineText
    BY <1>1, <1>5
  <2> DEFINE part == SubSeq(lines, d, n)
  <2> HIDE DEF d, n
  <2>2. part \in Seq(LineText) /\ Len(part) = IF d <= n THEN n - d + 1 ELSE 0
    BY <2>1, SubSeqProperties
  <2>3. Len(part) # 0
    BY <2>1, <2>2
  <2> HIDE DEF part
  <2>4. part \in Seq(LineText) /\ part # << >>
    BY <2>2, <2>3
  <2> QED BY <2>4 DEF part, d, n
<1> HIDE DEF front, back
<1>9. front \in LineSeqs /\ back \in LineSeqs
  <2>1. front # << >>
    BY <1>5, <1>7
  <2> QED BY <1>7, <1>8, <2>1 DEF LineSeqs
<1>10. front[1] = Fence /\ front[c] = Fence /\ \A i \in 2..c - 1 : front[i] # Fence
  <2>1. 1 \in 1..c /\ c \in 1..c /\ \A i \in 2..c - 1 : i \in 1..c
    BY <1>5
  <2> QED BY <1>2, <1>3, <1>7, <2>1
<1> QED
  BY <1>2, <1>3, <1>6, <1>7, <1>9, <1>10 DEF Halves, c

(* What splitlines leaves of the page: the same two halves, the second     *)
(* without the empty line at its end.                                      *)
LEMMA HalvesOfBody ==
    ASSUME NEW body \in Text, NEW a, NEW b, Halves(Split(body), a, b)
    PROVE  LET lines == SplitBodyLines(body)
               rest == SubSeq(lines, Len(a) + 1, Len(lines)) IN
           /\ lines \in Seq(LineText)
           /\ ClosingFence(lines) = Len(a) /\ SubSeq(lines, 1, Len(a)) = a
           /\ rest \in Seq(LineText)
           /\ \/ rest = b /\ ~EndsWithLF(body)
              \/ b = Append(rest, << >>) /\ EndsWithLF(body) /\ EndedBy(body, a \o rest)
<1> DEFINE L == Split(body)
           lines == SplitBodyLines(body)
           c == Len(a)
           n == Len(lines)
           rest == SubSeq(lines, c + 1, n)
<1>1. /\ a \in Seq(LineText) /\ b \in Seq(LineText) /\ b # << >> /\ L = a \o b
      /\ a[1] = Fence /\ a[c] = Fence /\ c \in 2..Len(L) /\ \A i \in 2..c - 1 : a[i] # Fence
      /\ c \in Nat
  BY DEF Halves, LineSeqs
<1>2. lines \in Seq(LineText) /\ lines \in Seq(Text) /\ n \in Nat
  BY BodyLine, LineSeqTexts
<1>3. \A i \in 1..c : i \in DOMAIN L /\ L[i] = a[i]
  BY <1>1
<1>4. c \in DOMAIN lines
  <2>1. c \in DOMAIN L /\ L[c] # << >>
    <3>1. Len(Fence) = 3 /\ Len(<< >>) = 0
      BY DEF Fence
    <3>2. c \in 1..c
      BY <1>1
    <3> HIDE DEF L, c
    <3>3. c \in DOMAIN L /\ L[c] = Fence
      BY <1>1, <1>3, <3>2
    <3>4. Fence # << >>
      BY <3>1
    <3> QED BY <3>3, <3>4
  <2> QED BY <2>1, BodyLine
<1>5. c \in 2..n
  BY <1>1, <1>2, <1>4
<1>6. \A i \in 1..c : lines[i] = a[i]
  <2>1. \A i \in 1..c : i \in DOMAIN lines
    BY <1>2, <1>5
  <2> QED BY <1>3, <2>1, BodyLine
<1> HIDE DEF L, lines
<1>7. ClosingFence(lines) = c
  <2>1. c \in 1..c /\ \A i \in 2..c - 1 : i \in 1..c
    BY <1>1
  <2>2. lines[c] = Fence
    BY <1>1, <1>6, <2>1
  <2>3. \A i \in 2..c - 1 : lines[i] # Fence
    BY <1>1, <1>6, <2>1
  <2> QED BY <1>2, <1>5, <2>2, <2>3, ClosingIs
<1> DEFINE front == SubSeq(lines, 1, c)
<1>8. front \in Seq(LineText) /\ rest \in Seq(LineText) /\ front \o rest = lines
  <2>1. /\ 1 \in 1..n + 1 /\ c \in 1 - 1..n /\ n \in c..n /\ 1 \in Nat /\ c \in Int /\ c <= n
        /\ c + 1 \in Nat /\ c + 1 >= 1 /\ n \in Int /\ n <= n /\ 1 >= 1
    BY <1>1, <1>2, <1>5
  <2>2. front \o rest = SubSeq(lines, 1, n)
    BY <1>2, <2>1, ConcatAdjacentSubSeq
  <2>3. front \in Seq(LineText)
    BY <1>2, <2>1, PartType
  <2> DEFINE d == c + 1
  <2>4. SubSeq(lines, d, n) \in Seq(LineText)
    <3> HIDE DEF d
    <3>1. d \in Nat /\ d >= 1 /\ n \in Int /\ n <= n
      BY <2>1 DEF d
    <3> QED BY <1>2, <3>1, PartType
  <2> QED BY <1>2, <2>2, <2>3, <2>4, SubSeqFull
<1>9. front = a
  <2>1. 1 \in Int /\ c \in Int /\ \A i \in 1..c : lines[i] \in LineText
    BY <1>2, <1>5
  <2>2. /\ Len(front) = IF 1 <= c THEN c - 1 + 1 ELSE 0
        /\ \A i \in 1..c - 1 + 1 : front[i] = lines[1 + i - 1]
    BY <2>1, SubSeqProperties
  <2> HIDE DEF front
  <2>3. Len(front) = c
    BY <1>5, <2>2
  <2>4. \A i \in 1..c : i \in 1..c - 1 + 1 /\ 1 + i - 1 = i
    BY <1>5
  <2>5. \A i \in 1..c : front[i] = a[i]
    BY <1>6, <2>2, <2>4
  <2> QED BY <1>1, <1>8, <2>3, <2>5, SeqEqual
<1>10. lines = a \o rest
  BY <1>8, <1>9
<1> HIDE DEF front, rest, c
<1>11. CASE \E f \in LineSeqs : EndedBy(body, f)
  <2>1. EndedBy(body, lines)
    BY <1>11 DEF EndedBy, lines
  <2>2. EndsWithLF(body) /\ L = Append(lines, << >>)
    BY <2>1 DEF EndedBy, L
  <2> DEFINE last == <<<< >>>>
  <2>3. last \in Seq(LineText) /\ << >> \in LineText
    BY EmptyLine
  <2>4. L = lines \o last /\ Append(rest, << >>) = rest \o last
    BY <1>2, <1>8, <2>2, <2>3, AppendIsConcat
  <2> HIDE DEF last
  <2>5. lines \o last = a \o (rest \o last)
    <3>0. a \in Seq(LineText) /\ rest \in Seq(LineText) /\ last \in Seq(LineText)
      BY <1>1, <1>8, <2>3
    <3>1. (a \o rest) \o last = a \o (rest \o last)
      BY <3>0, ConcatAssociative
    <3> QED BY <1>10, <3>1
  <2>6. a \o b = a \o (rest \o last)
    BY <1>1, <2>4, <2>5
  <2>7. rest \o last \in Seq(LineText)
    BY <1>8, <2>3, ConcatProperties
  <2>8. b = rest \o last
    BY <1>1, <2>6, <2>7, ConcatSimplifications
  <2> QED BY <1>2, <1>7, <1>8, <1>9, <1>10, <2>1, <2>2, <2>4, <2>8 DEF front, rest, c, lines
<1>12. CASE ~EndsWithLF(body) /\ lines = L
  <2>1. a \o b = a \o rest
    BY <1>1, <1>10, <1>12
  <2>2. b = rest
    BY <1>1, <1>8, <2>1, ConcatSimplifications
  <2> QED BY <1>2, <1>7, <1>8, <1>9, <1>12, <2>2 DEF front, rest, c, lines
<1>13. lines # << >>
  BY <1>2, <1>5
<1> QED
  BY <1>11, <1>12, <1>13, PageEnds DEF lines, L

(* prepend_to_page cuts such a page behind the closing fence, and what it  *)
(* puts together again from the lines is the text of the two halves.       *)
LEMMA BlockAndRest ==
    ASSUME NEW body \in Text, ~Holds(body, {CR, FF}), IsPrefix(Fence, body),
           EndsWithLF(body) => ~EndsWithLF(Front(body)),
           NEW a, NEW b, Halves(Split(body), a, b)
    PROVE  /\ SplitFrontmatterBlock(body).frontmatter = Join(a) \o <<LF>>
           /\ SplitFrontmatterBlock(body).rest = Join(b)
<1> DEFINE lines == SplitLines(body)
           close == IF IsPrefix(Fence, body) THEN ClosingFence(lines) ELSE 0
           block == Join(SubSeq(lines, 1, close))
           tail == SubSeq(lines, close + 1, Len(lines))
           rest == Join(tail)
           front == IF Slice(body, Len(block), Len(block) + 1) = <<LF>>
                    THEN Append(block, LF) ELSE block
           back == IF EndsWithLF(body) /\ rest # << >> /\ ~EndsWithLF(rest)
                   THEN Append(rest, LF) ELSE rest
<1>1. lines = SplitBodyLines(body)
  <2>1. \A k \in DOMAIN body : body[k] # CR /\ body[k] # FF
    BY DEF Holds
  <2>2. body \in Seq(Unbroken)
    BY <2>1 DEF Text, Unbroken
  <2> QED BY <2>2, SplitLinesPlain
<1>2. SplitFrontmatterBlock(body) = IF close = 0 THEN [frontmatter |-> << >>, rest |-> body]
                                    ELSE [frontmatter |-> front, rest |-> back]
  BY Zenon DEF SplitFrontmatterBlock
<1>3. close = Len(a) /\ block = Join(a)
  BY <1>1, HalvesOfBody
<1>4. /\ tail \in Seq(LineText)
      /\ \/ tail = b /\ ~EndsWithLF(body)
         \/ b = Append(tail, << >>) /\ EndsWithLF(body) /\ EndedBy(body, a \o tail)
  BY <1>1, <1>3, HalvesOfBody
<1>5. /\ a \in LineSeqs /\ b \in LineSeqs /\ Split(body) = a \o b /\ Len(a) # 0
  BY DEF Halves
<1> HIDE DEF lines, close, block, tail
<1>6. body = Join(a) \o <<LF>> \o Join(b) /\ Join(a) \in Text /\ Join(b) \in Text
  <2>1. Join(a \o b) = body
    BY <1>5, JoinOfSplit
  <2> QED BY <1>5, <2>1, JoinConcat
<1>7. front = Join(a) \o <<LF>>
  <2> DEFINE j == Join(a)
             k == Join(b)
             n == Len(j)
  <2>1. j \in Seq(Char) /\ k \in Seq(Char) /\ <<LF>> \in Seq(Char) /\ LF \in Char
    BY <1>6, LineFeedText DEF Text, Char, Syntax
  <2>2. body = j \o <<LF>> \o k /\ block = j
    BY <1>3, <1>6
  <2> HIDE DEF j, k
  <2>3. /\ Len(body) = n + Len(<<LF>>) + Len(k) /\ Len(<<LF>>) = 1 /\ Len(k) \in Nat /\ n \in Nat
        /\ 1 \in 1..Len(<<LF>>) /\ <<LF>>[1] = LF
        /\ \A i \in 1..Len(<<LF>>) : body[n + i] = <<LF>>[i]
    BY <2>1, <2>2, ThreeParts
  <2> HIDE DEF n
  <2>4. n + 1 <= Len(body) /\ n + 1 \in Nat /\ body[n + 1] = LF /\ n + 1 \in 1..Len(body)
    BY <2>3
  <2>5. Slice(body, n, n + 1) = SubSeq(body, n + 1, n + 1)
    BY <2>3, <2>4, SliceType
  <2>6. SubSeq(body, n + 1, n + 1) = <<LF>>
    <3> DEFINE m == n + 1
    <3>1. m \in Int /\ m \in m..m /\ \A i \in m..m : body[i] \in Char
      BY <2>1, <2>4
    <3>2. m \in Nat /\ body[m] = LF
      BY <2>4
    <3> HIDE DEF m
    <3>3. /\ SubSeq(body, m, m) \in Seq(Char)
          /\ Len(SubSeq(body, m, m)) = IF m <= m THEN m - m + 1 ELSE 0
          /\ \A i \in 1..m - m + 1 : SubSeq(body, m, m)[i] = body[m + i - 1]
      BY <3>1, SubSeqProperties
    <3> DEFINE part == SubSeq(body, m, m)
    <3> HIDE DEF part
    <3>4. part \in Seq(Char) /\ Len(part) = 1
      BY <3>2, <3>3 DEF part
    <3>5. part[1] = LF
      <4>1. 1 \in 1..m - m + 1 /\ m + 1 - 1 = m
        BY <3>2
      <4> QED BY <3>2, <3>3, <4>1 DEF part
    <3>6. part = <<LF>>
      BY <3>4, <3>5
    <3> QED BY <3>6 DEF part, m
  <2>7. front = Append(j, LF)
    BY <2>2, <2>5, <2>6 DEF n
  <2> QED BY <2>1, <2>7, AppendIsConcat DEF j
<1>8. back = Join(b)
  <2>1. CASE tail = b /\ ~EndsWithLF(body)
    BY <2>1
  <2>2. CASE b = Append(tail, << >>) /\ EndsWithLF(body) /\ EndedBy(body, a \o tail)
    <3>1. CASE tail = << >>
      <4>1. rest = << >>
        BY <3>1, JoinIsOn
      <4>2. b = <<<< >>>>
        BY <2>2, <3>1
      <4>3. Join(b) = << >>
        BY <4>2, JoinOne, EmptyLine
      <4> QED BY <4>1, <4>3
    <3>2. CASE tail # << >>
      <4>1. tail \in LineSeqs /\ tail \in Seq(Text)
        BY <1>4, <3>2, LineSeqTexts DEF LineSeqs
      <4>2. rest \in Text /\ Join(a \o tail) = Join(a) \o <<LF>> \o rest
        BY <1>5, <4>1, JoinConcat
      <4>3. body = Append(Join(a \o tail), LF) /\ Join(a \o tail) \in Text
        BY <1>5, <2>2, <4>1, JoinConcat, JoinIsText, LineSeqTexts DEF EndedBy, LineSeqs
      <4>4. Front(body) = Join(a \o tail)
        BY <4>3, FrontOfAppend DEF Text, Char, Syntax
      <4> DEFINE j == Join(a) \o <<LF>>
      <4>5. j \in Text /\ j # << >> /\ Last(j) = LF
        <5>1. <<LF>> # << >> /\ Last(<<LF>>) = LF
          BY DEF Last
        <5> QED BY <1>6, <5>1, LineFeedText, TextConcat, LastOfConcat
      <4>6. Front(body) = j \o rest /\ ~EndsWithLF(Front(body))
        BY <2>2, <4>2, <4>4
      <4> HIDE DEF j, rest
      <4>7. rest # << >>
        <5> SUFFICES ASSUME rest = << >> PROVE FALSE
          OBVIOUS
        <5>1. j \o rest = j
          BY <4>5, ConcatEmptySeq DEF Text
        <5> QED BY <4>5, <4>6, <5>1 DEF EndsWithLF
      <4>8. ~EndsWithLF(rest)
        <5>1. j \o rest # << >> /\ Last(j \o rest) = Last(rest)
          BY <4>2, <4>5, <4>7, LastOfConcat
        <5> QED BY <4>6, <5>1 DEF EndsWithLF
      <4>9. back = Append(rest, LF)
        BY <2>2, <4>7, <4>8
      <4>10. Join(b) = rest \o <<LF>> \o << >>
        BY <2>2, <3>2, <4>1, EmptyLine, JoinMore DEF rest
      <4>11. rest \o <<LF>> \o << >> = Append(rest, LF)
        BY <4>2 DEF Text, Char, Syntax
      <4> QED BY <4>9, <4>10, <4>11
    <3> QED BY <3>1, <3>2
  <2> QED BY <1>4, <2>1, <2>2
<1> HIDE DEF front, back
<1>9. close # 0
  BY <1>3, <1>5
<1>10. SplitFrontmatterBlock(body) = [frontmatter |-> front, rest |-> back]
  BY <1>2, <1>9
<1> QED
  BY <1>7, <1>8, <1>10

(* Text between the frontmatter and the text behind it.                    *)
LEMMA PrependBehind ==
    ASSUME NEW body \in Text, WellFenced(body), IsPrefix(Fence, body), NEW text \in PlainLines
    PROVE  TaskBag(Prepended(body, text, FALSE)) = TaskBag(body)
<1> DEFINE L == Split(body)
           new == Prepended(body, text, FALSE)
<1>1. /\ ~Holds(body, {CR, FF}) /\ FrontmatterEnd(L) \in 1..Len(L) - 1
      /\ EndsWithLF(body) => ~EndsWithLF(Front(body))
  BY Zenon DEF WellFenced
<1>2. L \in LineSeqs
  BY JoinOfSplit
<1>3. PICK a \in LineSeqs, b \in LineSeqs : Halves(L, a, b) /\ FrontmatterEnd(L) = Len(a)
  <2> HIDE DEF L
  <2> QED BY <1>1, <1>2, HalvesExist
<1>4. PICK m \in LineSeqs : EndedBy(text, m) /\ \A i \in DOMAIN m : NoTask(m[i])
  BY PlainLinesLines
<1>5. text = Join(m) \o <<LF>> /\ Join(m) \in Text
  <2>1. Join(m) \in Text
    BY <1>4, JoinIsText, LineSeqTexts DEF LineSeqs
  <2> QED BY <1>4, <2>1, AppendIsConcat DEF EndedBy, Text, Char, Syntax
<1>6. new = (Join(a) \o <<LF>>) \o text \o Join(b)
  <2>1. /\ SplitFrontmatterBlock(body).frontmatter = Join(a) \o <<LF>>
        /\ SplitFrontmatterBlock(body).rest = Join(b)
    BY <1>1, <1>3, BlockAndRest
  <2> QED BY <2>1 DEF Prepended
<1>7. a \o m \in LineSeqs /\ Join(a \o m) = Join(a) \o <<LF>> \o Join(m) /\ Join(a) \in Text
  BY <1>3, <1>4, JoinConcat
<1>8. a \o m \o b \in LineSeqs /\ Join(a \o m \o b) = Join(a \o m) \o <<LF>> \o Join(b)
  <2> DEFINE am == a \o m
  <2>1. am \in LineSeqs
    BY <1>7
  <2> HIDE DEF am
  <2>2. am \o b \in LineSeqs /\ Join(am \o b) = Join(am) \o <<LF>> \o Join(b)
    BY <1>3, <2>1, JoinConcat
  <2> QED BY <2>2 DEF am
<1>9. Join(a \o m \o b) = new
  <2> DEFINE j == Join(a) \o <<LF>>
             k == Join(m)
  <2>1. j \in Seq(Char) /\ k \in Seq(Char) /\ <<LF>> \in Seq(Char)
    BY <1>5, <1>7, LineFeedText, TextConcat DEF Text
  <2> HIDE DEF j, k
  <2>2. (j \o k) \o <<LF>> = j \o (k \o <<LF>>)
    BY <2>1, ConcatAssociative
  <2>3. text = k \o <<LF>> /\ Join(a \o m) = j \o k /\ new = j \o text \o Join(b)
    BY <1>5, <1>6, <1>7 DEF j, k
  <2> HIDE DEF new
  <2> QED BY <1>8, <2>2, <2>3
<1>10. Split(new) = a \o m \o b
  BY <1>8, <1>9, SplitOfJoin
<1>11. a \in Seq(Text) /\ m \in Seq(Text) /\ b \in Seq(Text) /\ Len(a) \in Nat
  BY LineSeqTexts DEF LineSeqs
<1> DEFINE N == a \o m \o b
<1>12. FrontmatterEnd(N) = Len(a)
  <2>1. /\ N \in Seq(Text) /\ Len(N) = Len(a) + Len(m) + Len(b)
        /\ Len(m) \in Nat /\ Len(b) \in Nat
        /\ \A i \in 1..Len(a) : N[i] = a[i]
    BY <1>11, ThreeParts
  <2>2. /\ a[1] = Fence /\ a[Len(a)] = Fence
        /\ \A i \in 2..Len(a) - 1 : a[i] # Fence
        /\ Len(a) >= 2
    BY <1>3 DEF Halves
  <2> HIDE DEF N
  <2> DEFINE c == Len(a)
  <2>3. c \in Nat /\ c >= 2
    BY <1>11, <2>2
  <2>4. 1 \in 1..c /\ c \in 1..c /\ c \in 2..Len(N) /\ \A i \in 2..c - 1 : i \in 1..c
    BY <2>1, <2>3
  <2>5. N[1] = Fence /\ N[c] = Fence /\ \A i \in 2..c - 1 : N[i] # Fence
    BY <2>1, <2>2, <2>4
  <2> HIDE DEF c
  <2>6. ClosingFence(N) = c
    BY <2>1, <2>4, <2>5, ClosingIs
  <2> QED BY <2>5, <2>6 DEF FrontmatterEnd, c
<1>13. L = a \o b
  BY <1>3 DEF Halves
<1>14. Shifted(a \o b, Len(a) + 1, N, Len(a) + 1, Len(m))
  BY <1>4, <1>11, PushedDown
<1> HIDE DEF new
<1>15. Shifted(Split(body), FrontmatterEnd(Split(body)) + 1,
               Split(new), FrontmatterEnd(Split(new)) + 1, Len(m))
  BY <1>3, <1>10, <1>12, <1>13, <1>14, Zenon
<1> QED
  BY <1>15, SameBags DEF new

(* prepend_to_page keeps the listing, with a frontmatter or without.       *)
LEMMA PrependKeepsTasks ==
    ASSUME NEW body \in Text, WellFenced(body), NEW text \in PlainLines
    PROVE  TaskBag(Prepended(body, text, FALSE)) = TaskBag(body)
<1>1. CASE IsPrefix(Fence, body)
  BY <1>1, PrependBehind
<1>2. CASE ~IsPrefix(Fence, body)
  <2>1. SplitFrontmatterBlock(body) = [frontmatter |-> << >>, rest |-> body]
    BY <1>2 DEF SplitFrontmatterBlock
  <2>2. Prepended(body, text, FALSE) = << >> \o text \o body
    BY <2>1 DEF Prepended
  <2>3. << >> \o text = text
    BY PlainLinesLines, ConcatEmptySeq DEF Text
  <2>4. Prepended(body, text, FALSE) = text \o body
    BY <2>2, <2>3
  <2> QED BY <1>2, <2>4, PrependOnTop
<1> QED
  BY <1>1, <1>2

(* What the last call says of the step that made it.                       *)
LEMMA ToolOfStep ==
    ASSUME Next
    PROVE  /\ call'.tool = "append_to_page" =>
                 page' = Appended(page, call'.text)
           /\ call'.tool = "prepend_to_page" =>
                 page' = Prepended(page, call'.text, call'.top) /\ call'.top \in BOOLEAN
<1>1. CASE AppendToPage
  <2>1. PICK text \in Texts :
           /\ page' = Appended(page, text)
           /\ Called([tool |-> "append_to_page", text |-> text, answer |-> "ok"])
    BY <1>1 DEF AppendToPage
  <2>2. call'.tool = "append_to_page" /\ call'.text = text
    BY <2>1 DEF Called
  <2> QED BY <2>1, <2>2
<1>2. CASE PrependToPage
  <2>1. PICK text \in Texts, top \in BOOLEAN :
           /\ page' = Prepended(page, text, top)
           /\ Called([tool |-> "prepend_to_page", text |-> text, top |-> top, answer |-> "ok"])
    BY <1>2 DEF PrependToPage
  <2>2. call'.tool = "prepend_to_page" /\ call'.text = text /\ call'.top = top
    BY <2>1 DEF Called
  <2> QED BY <2>1, <2>2
<1>3. CASE PatchPageLines
  <2>1. call'.tool = "patch_page_lines"
    BY <1>3 DEF PatchPageLines, Called
  <2> QED BY <2>1
<1>4. CASE CheckTask
  <2>1. call'.tool = "check_task"
    BY <1>4 DEF CheckTask, Called
  <2> QED BY <2>1
<1> QED
  BY <1>1, <1>2, <1>3, <1>4 DEF Next

Added ==
    \/ call'.tool = "append_to_page"
    \/ call'.tool = "prepend_to_page" /\ ~call'.top /\ WellFenced(page)

(* Whatever the page and the lines are, append_to_page and prepend_to_page *)
(* keep the listing: the listing's own reading of the frontmatter and of   *)
(* the lines agrees with the ones the edits are made by, on every page     *)
(* that ends as an editor leaves it.                                       *)
THEOREM AdditionsKeepTasks == Spec => TasksSurviveAdditions
<1>1. ASSUME TypeOK, [Next]_vars, Added, call'.text \in PlainLines, ~UNCHANGED vars
      PROVE  TaskBag(page') = TaskBag(page)
  <2>1. Next /\ page \in Text
    BY <1>1 DEF TypeOK
  <2>2. CASE call'.tool = "append_to_page"
    BY <1>1, <2>1, <2>2, ToolOfStep, AppendKeepsTasks
  <2>3. CASE call'.tool = "prepend_to_page" /\ ~call'.top /\ WellFenced(page)
    <3>1. page' = Prepended(page, call'.text, FALSE)
      BY <2>1, <2>3, ToolOfStep
    <3> QED BY <1>1, <2>1, <2>3, <3>1, PrependKeepsTasks
  <2> QED BY <1>1, <2>2, <2>3 DEF Added
<1>2. TypeOK /\ [Next]_vars
         => [Added => (call'.text \in PlainLines => TaskBag(page') = TaskBag(page))]_vars
  BY <1>1
<1> QED
  BY <1>2, TypeCorrect, PTL DEF Spec, TasksSurviveAdditions, Added

-------------------------------------------------------------------------------
(***************************************************************************)
(* The flip of a checkbox.                                                 *)
(***************************************************************************)
(* The property's own count of where a line starts is the one of the lemmas. *)
LEMMA LineStartIs ==
    ASSUME NEW lines, NEW i
    PROVE  LineStart(lines, i) = SumFunctionOnSet(Sizes(lines), 1..i - 1)
BY Zenon DEF LineStart, Sizes

(* The one row with the reference. *)
LEMMA OneRow ==
    ASSUME NEW body \in Text, NEW ref \in Refs, RowsWith(body, ref) # {},
           ~(Cardinality(RowsWith(body, ref)) > 1)
    PROVE  /\ ListedLine(body, ref) \in DOMAIN Split(body)
           /\ IsBullet(Split(body)[ListedLine(body, ref)])
           /\ RefOf(Split(body)[ListedLine(body, ref)]) = ref
           /\ \A j \in DOMAIN Split(body) :
                 j > FrontmatterEnd(Split(body)) /\ IsBullet(Split(body)[j])
                 /\ RefOf(Split(body)[j]) = ref => j = ListedLine(body, ref)
           /\ ListedLine(body, ref) \in DOMAIN SplitBodyLines(body)
<1> DEFINE lines == Split(body)
           rows == RowsWith(body, ref)
           i == ListedLine(body, ref)
<1>1. lines \in Seq(Text) /\ lines # << >> /\ Len(lines) \in Nat /\ DOMAIN lines = 1..Len(lines)
  BY SplitType
<1>2. FrontmatterEnd(lines) \in 0..Len(lines)
  BY <1>1, FrontmatterEndType
<1>3. rows \subseteq ParseTasks(body) /\ \A row \in rows : row.ref = ref
  BY DEF RowsWith
<1>4. IsFiniteSet(rows)
  <2> DEFINE I == {j \in FrontmatterEnd(lines) + 1..Len(lines) : IsBullet(lines[j])}
  <2>1. FrontmatterEnd(lines) + 1 \in Int /\ Len(lines) \in Int
    BY <1>1, <1>2
  <2>2. IsFiniteSet(I)
    <3>1. IsFiniteSet(FrontmatterEnd(lines) + 1..Len(lines))
      BY <2>1, FS_Interval
    <3> QED BY <3>1, FS_Subset
  <2>3. ParseTasks(body) = {TaskRow(lines, j) : j \in I}
    BY RowsOfLines DEF RowsFrom
  <2> HIDE DEF I, lines
  <2>4. IsFiniteSet({TaskRow(lines, j) : j \in I})
    <3> DEFINE T == {TaskRow(lines, j) : j \in I}
               f == [j \in I |-> TaskRow(lines, j)]
    <3>1. f \in [I -> T] /\ \A r \in T : \E j \in I : f[j] = r
      OBVIOUS
    <3> HIDE DEF f, T
    <3>2. f \in Surjection(I, T)
      BY <3>1 DEF Surjection
    <3>3. IsFiniteSet(T)
      BY <2>2, <3>2, FS_Surjection
    <3> QED BY <3>3 DEF T
  <2> QED BY <1>3, <2>3, <2>4, FS_Subset
<1>5. PICK row : rows = {row}
  <2>1. PICK row \in rows : TRUE
    OBVIOUS
  <2>2. ASSUME NEW other \in rows, other # row PROVE FALSE
    <3>1. {row, other} \subseteq rows
      BY <2>1
    <3>2. Cardinality({row, other}) <= Cardinality(rows) /\ Cardinality(rows) \in Nat
      BY <1>4, <3>1, FS_Subset, FS_CardinalityType
    <3>3. Cardinality({row, other}) = 2
      <4>1. {row, other} = {row} \cup {other} /\ other \notin {row}
        BY <2>2
      <4>2. IsFiniteSet({row}) /\ Cardinality({row}) = 1
        BY FS_Singleton
      <4>3. Cardinality({row} \cup {other}) = 1 + 1
        BY <4>1, <4>2, FS_AddElement
      <4> HIDE DEF rows
      <4> QED BY <4>1, <4>3
    <3> QED BY <3>2, <3>3
  <2> QED BY <2>1, <2>2
<1> HIDE DEF rows
<1>6. row \in ParseTasks(body) /\ row.ref = ref
  BY <1>3, <1>5
<1>7. i = row.line
  <2>1. i = (CHOOSE r \in {row} : TRUE).line
    BY <1>5 DEF ListedLine, rows
  <2> QED BY <2>1
<1>8. /\ i \in DOMAIN lines /\ IsBullet(lines[i]) /\ RefOf(lines[i]) = ref
      /\ i \in DOMAIN SplitBodyLines(body)
  BY <1>6, <1>7, RowIsLine DEF TaskRow
<1>9. ASSUME NEW j \in DOMAIN lines, j > FrontmatterEnd(lines), IsBullet(lines[j]), RefOf(lines[j]) = ref
      PROVE  j = i
  <2>1. j \in FrontmatterEnd(lines) + 1..Len(lines)
    BY <1>1, <1>2, <1>9
  <2>2. TaskRow(lines, j) \in ParseTasks(body)
    BY <1>9, <2>1, RowsOfLines DEF RowsFrom
  <2>3. TaskRow(lines, j) \in rows
    BY <1>9, <2>2 DEF rows, RowsWith, TaskRow
  <2>4. TaskRow(lines, j) = row
    BY <1>5, <2>3
  <2> QED BY <1>7, <2>4 DEF TaskRow
<1> QED
  BY <1>8, <1>9

(* check_task finds that row's line where no bullet of the frontmatter has *)
(* the reference as well.                                                  *)
LEMMA FoundIsListed ==
    ASSUME NEW body \in Text, NEW ref \in Refs, RowsWith(body, ref) # {},
           ~(Cardinality(RowsWith(body, ref)) > 1),
           \A j \in 1..FrontmatterEnd(Split(body)) :
              ~(IsBullet(Split(body)[j]) /\ RefOf(Split(body)[j]) = ref)
    PROVE  LET lines == SplitBodyLines(body)
               i == ListedLine(body, ref)
               start == SumFunctionOnSet(ByteSizes(lines), 1..i - 1) IN
           FindTaskBullet(body, ref) =
              [line |-> i, start |-> start, end |-> start + ByteLen(lines[i])]
<1> DEFINE lines == SplitBodyLines(body)
           hits  == {j \in DOMAIN lines : IsBullet(lines[j]) /\ RefOf(lines[j]) = ref}
           i == ListedLine(body, ref)
           start == SumFunctionOnSet(ByteSizes(lines), 1..Min(hits) - 1)
<1>1. FindTaskBullet(body, ref) =
        IF hits = {} THEN NoMatch
        ELSE [line |-> Min(hits), start |-> start, end |-> start + ByteLen(lines[Min(hits)])]
  BY Zenon DEF FindTaskBullet, ByteSizes
<1>2. /\ \A j \in DOMAIN lines : j \in DOMAIN Split(body) /\ lines[j] = Split(body)[j]
  BY BodyLine
<1>3. i \in hits
  BY <1>2, OneRow
<1>4. ASSUME NEW j \in hits PROVE j = i
  <2>1. j \in DOMAIN Split(body) /\ IsBullet(Split(body)[j]) /\ RefOf(Split(body)[j]) = ref
    BY <1>2
  <2>2. j \notin 1..FrontmatterEnd(Split(body))
    BY <2>1
  <2>3. Split(body) \in Seq(Text) /\ Split(body) # << >>
    BY SplitType
  <2>4. j \in Nat /\ j >= 1 /\ FrontmatterEnd(Split(body)) \in Nat
    BY <2>1, <2>3, FrontmatterEndType
  <2>5. j > FrontmatterEnd(Split(body))
    BY <2>2, <2>4
  <2> QED BY <2>1, <2>5, OneRow
<1>5. hits = {i} /\ hits \in SUBSET Nat
  <2>1. i \in Nat
    <3>1. Split(body) \in Seq(Text) /\ i \in DOMAIN Split(body)
      BY <1>2, <1>3, SplitType
    <3> QED BY <3>1
  <2> QED BY <1>3, <1>4, <2>1
<1> HIDE DEF hits
<1>6. Min(hits) = i
  BY <1>5, MinIsLeast
<1> QED
  BY <1>1, <1>5, <1>6, Zenon

(* On a page where the flip is what its description says, the lines up to  *)
(* the listed one have as many bytes as characters.                        *)
LEMMA BytesAreCharacters ==
    ASSUME NEW lines \in LineSeqs, NEW i \in DOMAIN lines, NEW before \in Text, NEW after \in Text,
           Around(lines, i, before, after), ~Holds(before \o lines[i], Wide)
    PROVE  \A k \in 1..i : ByteLen(lines[k]) = Len(lines[k])
<1> DEFINE a == SubSeq(lines, 1, i)
           q == before \o lines[i]
           C == Char \ Wide
<1>1. lines \in Seq(LineText) /\ lines \in Seq(Text) /\ lines[i] \in Text /\ Len(lines) \in Nat /\ i \in 1..Len(lines)
  BY LineSeqTexts DEF LineSeqs
<1>2. /\ a \in Seq(LineText) /\ Len(a) = i /\ \A k \in 1..i : a[k] = lines[k]
  BY <1>1, TwoParts
<1>3. q \in Text
  BY <1>1, TextConcat
<1> HIDE DEF a, q
<1>4. a \in LineSeqs
  <2>1. a # << >>
    BY <1>1, <1>2
  <2> QED BY <1>2, <2>1 DEF LineSeqs
<1>5. Join(a) = q
  BY DEF Around, a, q
<1>6. q \in Seq(C)
  <2>1. \A k \in DOMAIN q : q[k] \in C
    BY <1>3 DEF Holds, Text, q
  <2>2. q \in Seq(Char)
    BY <1>3 DEF Text
  <2> HIDE DEF C
  <2> QED BY <2>1, <2>2
<1>7. a \in Seq(Seq(C))
  BY <1>4, <1>5, <1>6, LinesWithout
<1> SUFFICES ASSUME NEW k \in 1..i PROVE ByteLen(lines[k]) = Len(lines[k])
  OBVIOUS
<1>8. a[k] \in Seq(C) /\ lines[k] = a[k] /\ lines[k] \in Text
  <2>1. k \in 1..Len(a) /\ k \in 1..Len(lines)
    BY <1>1, <1>2
  <2>2. DOMAIN a = 1..Len(a)
    BY <1>2
  <2> QED BY <1>1, <1>2, <1>7, <2>1, <2>2
<1>9. \A j \in DOMAIN lines[k] : lines[k][j] \notin Wide
  BY <1>8
<1> QED
  BY <1>8, <1>9, ByteLenType

(* So check_task cuts out the listed line, and nothing around it.          *)
LEMMA FoundLine ==
    ASSUME NEW body \in Text, NEW ref \in Refs, Flippable(body, ref),
           ~(Cardinality(RowsWith(body, ref)) > 1)
    PROVE  \E before, after \in Text :
              LET lines == Split(body)
                  i == ListedLine(body, ref)
                  found == FindTaskBullet(body, ref) IN
              /\ Around(lines, i, before, after)
              /\ Len(before) = LineStart(lines, i)
              /\ found.start = Len(before) /\ found.end = Len(before) + Len(lines[i])
<1> DEFINE lines == Split(body)
           sl == SplitBodyLines(body)
           i == ListedLine(body, ref)
<1>1. /\ RowsWith(body, ref) # {}
      /\ ~Holds(SubSeq(body, 1, LineStart(lines, i) + Len(lines[i])), Wide)
      /\ \A j \in 1..FrontmatterEnd(lines) : ~(IsBullet(lines[j]) /\ RefOf(lines[j]) = ref)
  BY Zenon DEF Flippable, FrontmatterNames
<1>2. lines \in LineSeqs /\ Join(lines) = body
  BY JoinOfSplit
<1>3. /\ i \in DOMAIN lines /\ i \in DOMAIN sl
      /\ \A j \in DOMAIN sl : j \in DOMAIN lines /\ sl[j] = lines[j]
      /\ sl \in Seq(Text) /\ lines \in Seq(Text)
  BY <1>1, OneRow, BodyLine, SplitBodyLinesType, SplitType
<1>4. FindTaskBullet(body, ref) =
         [line |-> i, start |-> SumFunctionOnSet(ByteSizes(sl), 1..i - 1),
          end |-> SumFunctionOnSet(ByteSizes(sl), 1..i - 1) + ByteLen(sl[i])]
  BY <1>1, FoundIsListed
<1> HIDE DEF lines, sl, i
<1>5. PICK before, after \in Text : Around(lines, i, before, after)
  BY <1>2, <1>3, LinePlace
<1>6. Len(before) = SumFunctionOnSet(Sizes(lines), 1..i - 1) /\ Len(before) = LineStart(lines, i)
  BY <1>5, LineStartIs DEF Around
<1>7. body = before \o lines[i] \o after /\ lines[i] \in Text
  BY <1>2, <1>3, <1>5 DEF Around
<1>8. SubSeq(body, 1, Len(before) + Len(lines[i])) = before \o lines[i]
  <2>1. Parted(body, before, lines[i], after)
    BY <1>7 DEF Parted, Text
  <2> QED BY <2>1, PartsOfText
<1>9. \A k \in 1..i : ByteLen(lines[k]) = Len(lines[k])
  BY <1>1, <1>2, <1>3, <1>5, <1>6, <1>8, BytesAreCharacters
<1>10. i \in Nat /\ i >= 1 /\ i <= Len(lines) /\ i <= Len(sl) /\ Len(lines) \in Nat /\ Len(sl) \in Nat
  BY <1>3
<1>11. SumFunctionOnSet(ByteSizes(sl), 1..i - 1) = SumFunctionOnSet(Sizes(lines), 1..i - 1)
  <2>1. \A k \in 1..i - 1 : k \in DOMAIN lines /\ k \in DOMAIN sl /\ k \in 1..i
    BY <1>3, <1>10
  <2>2. ASSUME NEW k \in 1..i - 1
        PROVE  Sizes(lines)[k] \in Nat /\ ByteSizes(sl)[k] = Sizes(lines)[k]
    <3>1. ByteSizes(sl)[k] = ByteLen(sl[k]) + 1 /\ Sizes(lines)[k] = Len(lines[k]) + 1
      BY <2>1 DEF Sizes, ByteSizes
    <3>2. sl[k] = lines[k] /\ ByteLen(lines[k]) = Len(lines[k]) /\ lines[k] \in Text
      BY <1>3, <1>9, <2>1
    <3>3. Len(lines[k]) \in Nat
      BY <3>2 DEF Text
    <3> QED BY <3>1, <3>2, <3>3
  <2>3. IsFiniteSet(1..i - 1)
    BY <1>10, FS_Interval
  <2>4. Summable(Sizes(lines), 1..i - 1)
    BY <2>2 DEF Summable
  <2> QED BY <2>2, <2>3, <2>4, SumEqual
<1>12. sl[i] = lines[i] /\ ByteLen(lines[i]) = Len(lines[i])
  <2>1. i \in 1..i
    BY <1>10
  <2> QED BY <1>3, <1>9, <2>1
<1>13. /\ FindTaskBullet(body, ref).start = Len(before)
       /\ FindTaskBullet(body, ref).end = Len(before) + Len(lines[i])
  <2> DEFINE start == SumFunctionOnSet(ByteSizes(sl), 1..i - 1)
             end == start + ByteLen(sl[i])
  <2>1. FindTaskBullet(body, ref) = [line |-> i, start |-> start, end |-> end]
    BY <1>4
  <2>2. start = Len(before) /\ end = Len(before) + Len(lines[i])
    BY <1>6, <1>11, <1>12
  <2> HIDE DEF start, end
  <2>3. FindTaskBullet(body, ref).start = start /\ FindTaskBullet(body, ref).end = end
    BY <2>1
  <2> QED BY <2>2, <2>3
<1> QED
  BY <1>5, <1>6, <1>13 DEF lines, i

(* A task line as it is usually written, with the box of another state.    *)
BoxText(state) == <<Dash, Space, Open, MarkOf(state), Close, Space>>

(* Taken apart and put together again it is the line with another mark.    *)
LEMMA FlippedLine ==
    ASSUME NEW s \in LineText, IsBullet(s), RefOf(s) # NoRef, NEW state \in States,
           NEW d, d = Len(Bullet(s).leading),
           s[d + 1] = Dash, s[d + 2] = Space, s[d + 3] = Open, s[d + 6] = Space,
           d + 7 <= Len(s) => s[d + 7] \notin Blank
    PROVE  /\ Bullet(s).leading \in Seq(Char) /\ Bullet(s).text \in Seq(Char)
           /\ BoxText(state) \in Seq(Char)
           /\ d + 4 \in DOMAIN s /\ d \in Nat /\ MarkOf(state) \in Char
           /\ Bullet(s).leading \o BoxText(state) \o Bullet(s).text
                 = [s EXCEPT ![d + 4] = MarkOf(state)]
<1> DEFINE mark == MarkOf(state)
           box == BoxText(state)
<1>1. s \in Text /\ s \in Seq(Char) /\ Len(s) \in Nat /\ DOMAIN s = 1..Len(s)
  BY DEF LineText, Text
<1>2. Bullet(s).leading \in Seq(Char) /\ Bullet(s).text \in Seq(Char)
  BY <1>1, BulletType DEF Text
<1>3. Space \in Blank /\ Open \notin Blank
  <2>1. "[" # " " /\ "[" # "LF" /\ "[" # "CR" /\ "[" # "FF"
    OBVIOUS
  <2>2. Open # Space /\ Open # LF /\ Open # CR /\ Open # FF
    BY <2>1, Zenon DEF Open, Space, LF, CR, FF
  <2> QED BY <2>2, Zenon DEF Blank
<1>4. PlainBox(s, d)
  BY <1>3 DEF PlainBox
<1>5. /\ d \in Nat /\ d + 7 <= Len(s)
      /\ Bullet(s).leading = SubSeq(s, 1, d)
      /\ Bullet(s).text = SubSeq(s, d + 7, Len(s))
      /\ s[d + 5] = Close
  BY <1>4, PlainBullet
<1>6. mark \in Char
  <2>1. mark \in Marks
    BY MarkOfType
  <2>2. \A m \in Marks : m \in Syntax
    BY Zenon DEF Marks, Syntax, Space
  <2> QED BY <2>1, <2>2 DEF Char
<1>7. Dash \in Char /\ Space \in Char /\ Open \in Char /\ Close \in Char
  BY DEF Char, Syntax
<1> HIDE DEF mark
<1>12. s \in Seq(Char) /\ d \in Nat /\ d + 7 <= Len(s) /\ Len(s) \in Nat
  BY <1>1, <1>5
<1>8. BoxOf(Char, box, s, d, mark)
  <2>1. box = <<Dash, Space, Open, mark, Close, Space>>
    BY DEF BoxText, mark
  <2> HIDE DEF box
  <2>2. box \in Seq(Char) /\ Len(box) = 6
    BY <1>6, <1>7, <2>1
  <2>3. /\ box[1] = s[d + 1] /\ box[2] = s[d + 2] /\ box[3] = s[d + 3]
        /\ box[4] = mark /\ box[5] = s[d + 5] /\ box[6] = s[d + 6]
    BY <1>5, <2>1
  <2>4. \A k \in 1..6 : k = 1 \/ k = 2 \/ k = 3 \/ k = 4 \/ k = 5 \/ k = 6
    OBVIOUS
  <2>5. \A k \in 1..6 : box[k] = IF k = 4 THEN mark ELSE s[d + k]
    BY <2>3, <2>4
  <2> QED BY <1>6, <1>12, <2>2, <2>5 DEF BoxOf
<1> HIDE DEF box
<1>9. SubSeq(s, 1, d) \o box \o SubSeq(s, d + 7, Len(s)) = [s EXCEPT ![d + 4] = mark]
  <2>1. Markable(s, d, mark, box)
    BY <1>6, <1>8, <1>12 DEF Markable
  <2>2. SubSeq(s, 1, d) \o box \o SubSeq(s, d + 7, Len(s)) = Changed(s, d + 4, mark)
    BY <2>1, MarkedText
  <2> QED BY <2>2, Zenon DEF Changed
<1>10. d + 4 \in DOMAIN s
  <2>1. d + 4 \in 1..Len(s)
    BY <1>12
  <2> QED BY <1>1, <2>1
<1>11. box \in Seq(Char)
  BY <1>8 DEF BoxOf
<1> QED
  BY <1>2, <1>5, <1>6, <1>9, <1>10, <1>11 DEF box, mark

(* So on such a page a flip changes the one character, whatever stands     *)
(* around the line.                                                        *)
LEMMA FlipIsMark ==
    ASSUME NEW body \in Text, NEW ref \in Refs, NEW state \in States,
           Flippable(body, ref), ~(Cardinality(RowsWith(body, ref)) > 1)
    PROVE  Flipped(body, ref, state) = MarkReplaced(body, ref, state)
<1> DEFINE lines == Split(body)
           i == ListedLine(body, ref)
           found == FindTaskBullet(body, ref)
           line == lines[i]
           bullet == Bullet(line)
           d == Len(bullet.leading)
           p == MarkPosition(body, ref)
           cut == Slice(body, found.start, found.end)
           front == Slice(body, 0, found.start)
           back == Slice(body, found.end, Len(body))
           mark == MarkOf(state)
<1>1. /\ RowsWith(body, ref) # {}
      /\ SubSeq(body, p - 3, p - 1) = <<Dash, Space, Open>>
      /\ body[p + 2] = Space /\ body[p + 3] \notin Blank
  BY Zenon DEF Flippable
<1>2. PICK before, after \in Text :
         /\ Around(lines, i, before, after)
         /\ Len(before) = LineStart(lines, i)
         /\ found.start = Len(before) /\ found.end = Len(before) + Len(line)
  BY FoundLine
<1>3. lines \in LineSeqs /\ Join(lines) = body /\ i \in DOMAIN lines /\ IsBullet(line) /\ RefOf(line) = ref
  BY <1>1, JoinOfSplit, OneRow
<1>4. line \in LineText /\ body = before \o line \o after
  BY <1>2, <1>3 DEF Around, LineSeqs
<1>5. p = LineStart(lines, i) + d + 4
  BY Zenon DEF MarkPosition
<1>6. Flipped(body, ref, state) =
        IF Bullet(cut) = NoBullet THEN << >>
        ELSE front \o Bullet(cut).leading \o BoxText(state) \o Bullet(cut).text \o back
  BY Zenon DEF Flipped, BoxText
<1>7. MarkReplaced(body, ref, state) = [body EXCEPT ![p] = mark]
  BY Zenon DEF MarkReplaced
<1>8. RefOf(line) # NoRef
  <2>1. ref \notin Syntax \cup {NoRef}
    BY CharAssumption DEF NoRef
  <2> QED BY <1>3, <2>1
<1> HIDE DEF lines, i, found, line, p, mark
<1>9. before \in Seq(Char) /\ line \in Seq(Char) /\ after \in Seq(Char) /\ body \in Seq(Char)
  BY <1>4 DEF LineText, Text
<1>10. /\ Len(before) \in Nat /\ Len(line) \in Nat /\ Len(after) \in Nat /\ Len(body) \in Nat
       /\ Len(body) = Len(before) + Len(line) + Len(after)
       /\ \A k \in 1..Len(line) : body[Len(before) + k] = line[k]
  BY <1>4, <1>9, ThreeParts, SMTT(40)
<1>11. /\ SubSeq(body, 1, Len(before)) = before
       /\ SubSeq(body, Len(before) + 1, Len(before) + Len(line)) = line
       /\ SubSeq(body, Len(before) + Len(line) + 1, Len(body)) = after
  <2>1. Parted(body, before, line, after)
    BY <1>4, <1>9 DEF Parted
  <2> QED BY <2>1, PartsOfText
<1>12. front = before /\ cut = line /\ back = after
  <2>1. /\ 0 \in Nat /\ Len(before) + Len(line) \in Nat /\ Len(before) <= Len(body)
        /\ Len(before) + Len(line) <= Len(body) /\ Len(body) <= Len(body) /\ 0 + 1 = 1
    BY <1>10
  <2>2. Slice(body, 0, Len(before)) = SubSeq(body, 0 + 1, Len(before))
    BY <1>10, <2>1, SliceType
  <2>3. Slice(body, Len(before), Len(before) + Len(line))
           = SubSeq(body, Len(before) + 1, Len(before) + Len(line))
    <3> DEFINE to == Len(before) + Len(line)
    <3>1. body \in Text /\ Len(before) \in Nat /\ to \in Nat /\ to <= Len(body)
      BY <1>10, <2>1
    <3> HIDE DEF to
    <3>2. Slice(body, Len(before), to) = SubSeq(body, Len(before) + 1, to)
      BY <3>1, SliceType
    <3> QED BY <3>2 DEF to
  <2>4. Slice(body, Len(before) + Len(line), Len(body))
           = SubSeq(body, Len(before) + Len(line) + 1, Len(body))
    BY <1>10, <2>1, SliceType
  <2> QED BY <1>2, <1>11, <2>1, <2>2, <2>3, <2>4
<1> HIDE DEF front, cut, back
<1>13. Flipped(body, ref, state)
          = before \o bullet.leading \o BoxText(state) \o bullet.text \o after
  BY <1>3, <1>6, <1>12 DEF IsBullet
<1> HIDE DEF bullet
<1>14. bullet.leading \in Seq(Char) /\ d \in Nat /\ d + 6 <= Len(line)
  <2>1. line \in Text
    BY <1>4 DEF LineText
  <2> QED BY <1>3, <1>4, <1>8, <2>1, BulletType, PlainBullet DEF bullet, Text
<1> HIDE DEF d
<1>15. p = Len(before) + d + 4
  BY <1>2, <1>5
<1>16. line[d + 1] = Dash /\ line[d + 2] = Space /\ line[d + 3] = Open
  <2> DEFINE u == SubSeq(body, p - 3, p - 1)
             n == Len(before) + d
  <2>1. n \in Nat /\ p - 3 = n + 1 /\ p - 1 = n + 3 /\ n + 3 <= Len(body)
    BY <1>10, <1>14, <1>15
  <2>2. u = <<Dash, Space, Open>>
    BY <1>1
  <2> HIDE DEF n
  <2>3. n + 3 <= Len(body) /\ SubSeq(body, n + 1, n + 3) = <<Dash, Space, Open>>
    BY <2>1, <2>2
  <2>7. body[n + 1] = Dash /\ body[n + 2] = Space /\ body[n + 3] = Open
    BY <1>9, <2>1, <2>3, ThreeElements
  <2>8. /\ body[n + 1] = line[d + 1] /\ body[n + 2] = line[d + 2] /\ body[n + 3] = line[d + 3]
    <3>1. /\ d + 1 \in 1..Len(line) /\ d + 2 \in 1..Len(line) /\ d + 3 \in 1..Len(line)
          /\ n + 1 = Len(before) + (d + 1) /\ n + 2 = Len(before) + (d + 2)
          /\ n + 3 = Len(before) + (d + 3)
      BY <1>10, <1>14 DEF n
    <3>2. \A k \in 1..Len(line) : body[Len(before) + k] = line[k]
      BY <1>10
    <3>3. /\ body[Len(before) + (d + 1)] = line[d + 1]
          /\ body[Len(before) + (d + 2)] = line[d + 2]
          /\ body[Len(before) + (d + 3)] = line[d + 3]
      BY <3>1, <3>2
    <3> HIDE <3>2
    <3> QED BY <3>1, <3>3
  <2> QED BY <2>7, <2>8
<1>17. line[d + 6] = Space /\ (d + 7 <= Len(line) => line[d + 7] \notin Blank)
  <2>1. /\ d + 6 \in 1..Len(line) /\ (d + 7 <= Len(line) => d + 7 \in 1..Len(line))
        /\ p + 2 = Len(before) + (d + 6) /\ p + 3 = Len(before) + (d + 7)
    BY <1>10, <1>14, <1>15
  <2> QED BY <1>1, <1>10, <2>1
<1> DEFINE box == BoxText(state)
           text == bullet.text
           leading == bullet.leading
<1>18. /\ leading \in Seq(Char) /\ text \in Seq(Char) /\ box \in Seq(Char)
       /\ d + 4 \in DOMAIN line /\ mark \in Char
       /\ leading \o box \o text = [line EXCEPT ![d + 4] = mark]
  BY <1>3, <1>4, <1>8, <1>16, <1>17, FlippedLine DEF d, bullet, mark
<1>19. Flipped(body, ref, state) = before \o leading \o box \o text \o after
  BY <1>13
<1> HIDE DEF leading, box, text
<1>20. before \o leading \o box \o text = before \o (leading \o box \o text)
  <2>1. leading \o box \in Seq(Char)
    BY <1>18, ConcatProperties
  <2>2. before \in Seq(Char) /\ leading \in Seq(Char) /\ box \in Seq(Char)
    BY <1>9, <1>18
  <2>3. before \o leading \o box = before \o (leading \o box)
    BY <2>2, ConcatAssociative
  <2> DEFINE put == leading \o box
  <2>5. before \in Seq(Char) /\ put \in Seq(Char) /\ text \in Seq(Char)
    BY <1>9, <1>18, <2>1
  <2> HIDE DEF put
  <2>4. (before \o put) \o text = before \o (put \o text)
    BY <2>5, ConcatAssociative
  <2> QED BY <2>3, <2>4 DEF put
<1>21. Flipped(body, ref, state) = before \o [line EXCEPT ![d + 4] = mark] \o after
  BY <1>18, <1>19, <1>20
<1>22. before \o [line EXCEPT ![d + 4] = mark] \o after
          = [body EXCEPT ![Len(before) + (d + 4)] = mark]
  <2> DEFINE j == d + 4
  <2>1. /\ j \in DOMAIN line /\ mark \in Char
        /\ before \in Seq(Char) /\ line \in Seq(Char) /\ after \in Seq(Char)
    BY <1>9, <1>18
  <2> HIDE DEF j
  <2>2. before \o [line EXCEPT ![j] = mark] \o after
           = [before \o line \o after EXCEPT ![Len(before) + j] = mark]
    BY <2>1, ExceptOfMiddle, SMTT(40)
  <2> QED BY <1>4, <2>2 DEF j
<1>23. Len(before) + (d + 4) = p
  BY <1>10, <1>14, <1>15
<1> QED
  BY <1>7, <1>21, <1>22, <1>23 DEF mark

(* What a check_task that was not refused says of its step.                *)
LEMMA FlipOfStep ==
    ASSUME Next, call'.tool = "check_task", call'.answer = "ok"
    PROVE  /\ call'.ref \in Refs /\ call'.state \in States
           /\ CheckTaskAnswer(page, call'.ref) = "ok"
           /\ page' = Flipped(page, call'.ref, call'.state)
<1>1. ~AppendToPage /\ ~PrependToPage /\ ~PatchPageLines
  BY DEF AppendToPage, PrependToPage, PatchPageLines, Called
<1>2. PICK ref \in Refs, state \in States :
         /\ page' = IF CheckTaskAnswer(page, ref) = "ok" THEN Flipped(page, ref, state) ELSE page
         /\ Called([tool |-> "check_task", ref |-> ref, state |-> state,
                    answer |-> CheckTaskAnswer(page, ref)])
  BY <1>1, Zenon DEF Next, CheckTask
<1>3. call'.ref = ref /\ call'.state = state /\ call'.answer = CheckTaskAnswer(page, ref)
  BY <1>2 DEF Called
<1> QED
  BY <1>2, <1>3

(* A flip of a task that stands on its page as the description of the tool *)
(* supposes changes the character between the brackets, and nothing else:  *)
(* the offsets, which are counted in bytes and over other lines than those *)
(* of list_tasks, cut out that row's line, and the pieces it is put        *)
(* together from again are the ones it was taken apart into.               *)
THEOREM FlipsTouchOnlyTheMark == Spec => FlipTouchesOnlyTheMark
<1>1. ASSUME TypeOK, [Next]_vars, ~UNCHANGED vars,
             call'.tool = "check_task", call'.answer = "ok", Flippable(page, call'.ref)
      PROVE  page' = MarkReplaced(page, call'.ref, call'.state)
  <2>1. Next /\ page \in Text
    BY <1>1 DEF TypeOK
  <2>2. /\ call'.ref \in Refs /\ call'.state \in States
        /\ CheckTaskAnswer(page, call'.ref) = "ok"
        /\ page' = Flipped(page, call'.ref, call'.state)
    BY <1>1, <2>1, FlipOfStep
  <2>3. ~(Cardinality(RowsWith(page, call'.ref)) > 1)
    BY <2>2 DEF CheckTaskAnswer
  <2> QED BY <1>1, <2>1, <2>2, <2>3, FlipIsMark
<1>2. TypeOK /\ [Next]_vars
         => [call'.tool = "check_task" /\ call'.answer = "ok" /\ Flippable(page, call'.ref)
               => page' = MarkReplaced(page, call'.ref, call'.state)]_vars
  BY <1>1
<1> QED
  BY <1>2, TypeCorrect, PTL DEF Spec, FlipTouchesOnlyTheMark

-------------------------------------------------------------------------------
(***************************************************************************)
(* check_task and the listings.                                            *)
(***************************************************************************)
(* What _find_task_bullet finds, with its offsets.                         *)
LEMMA FoundIs ==
    ASSUME NEW body \in Text, NEW ref, FindTaskBullet(body, ref) # NoMatch
    PROVE  LET lines == SplitBodyLines(body)
               i == FindTaskBullet(body, ref).line
               start == SumFunctionOnSet(ByteSizes(lines), 1..i - 1) IN
           /\ FindTaskBullet(body, ref).start = start
           /\ FindTaskBullet(body, ref).end = start + ByteLen(lines[i])
<1> DEFINE lines == SplitBodyLines(body)
           hits  == {j \in DOMAIN lines : IsBullet(lines[j]) /\ RefOf(lines[j]) = ref}
           i == Min(hits)
           start == SumFunctionOnSet(ByteSizes(lines), 1..i - 1)
           end == start + ByteLen(lines[i])
           found == FindTaskBullet(body, ref)
<1>1. found = IF hits = {} THEN NoMatch ELSE [line |-> i, start |-> start, end |-> end]
  BY Zenon DEF FindTaskBullet, ByteSizes
<1> HIDE DEF hits, i, start, end
<1>2. found.line = i /\ found.start = start /\ found.end = end
  BY <1>1
<1> QED
  BY <1>2, Zenon DEF start, end

(* Where every character is one byte it is cut out of the page whole.      *)
LEMMA FoundCut ==
    ASSUME NEW body \in Text, NEW ref, FindTaskBullet(body, ref) # NoMatch, ~Holds(body, Wide)
    PROVE  IsBullet(Slice(body, FindTaskBullet(body, ref).start, FindTaskBullet(body, ref).end))
<1> DEFINE lines == Split(body)
           sl == SplitBodyLines(body)
           found == FindTaskBullet(body, ref)
           i == found.line
           C == Char \ Wide
<1>1. i \in DOMAIN sl /\ IsBullet(sl[i])
  BY FindTaskBulletType
<1>2. lines \in LineSeqs /\ Join(lines) = body
  BY JoinOfSplit
<1>3. /\ i \in DOMAIN lines /\ \A j \in DOMAIN sl : j \in DOMAIN lines /\ sl[j] = lines[j]
      /\ sl \in Seq(Text) /\ lines \in Seq(Text)
  BY <1>1, BodyLine, SplitBodyLinesType, SplitType
<1>4. /\ found.start = SumFunctionOnSet(ByteSizes(sl), 1..i - 1)
      /\ found.end = SumFunctionOnSet(ByteSizes(sl), 1..i - 1) + ByteLen(sl[i])
  BY FoundIs
<1> HIDE DEF lines, sl, i, found
<1>5. PICK before, after \in Text : Around(lines, i, before, after)
  BY <1>2, <1>3, LinePlace
<1>6. /\ Len(before) = SumFunctionOnSet(Sizes(lines), 1..i - 1)
      /\ body = before \o lines[i] \o after /\ lines[i] \in Text
  BY <1>2, <1>3, <1>5 DEF Around
<1>7. \A j \in DOMAIN lines : ByteLen(lines[j]) = Len(lines[j])
  <2>1. \A j \in DOMAIN body : body[j] \in C
    BY DEF Holds, Text
  <2>2. body \in Seq(Char)
    BY DEF Text
  <2>3. body \in Seq(C)
    <3> HIDE DEF C
    <3> QED BY <2>1, <2>2
  <2>4. lines \in Seq(Seq(C))
    BY <1>2, <2>3, LinesWithout
  <2>5. \A j \in DOMAIN lines : lines[j] \in Text /\ \A k \in DOMAIN lines[j] : lines[j][k] \notin Wide
    BY <1>3, <2>4
  <2> QED BY <2>5, ByteLenType
<1>8. i \in Nat /\ i >= 1 /\ i <= Len(lines) /\ i <= Len(sl) /\ Len(lines) \in Nat /\ Len(sl) \in Nat
  BY <1>1, <1>3
<1>9. SumFunctionOnSet(ByteSizes(sl), 1..i - 1) = SumFunctionOnSet(Sizes(lines), 1..i - 1)
  <2>1. \A k \in 1..i - 1 : k \in DOMAIN lines /\ k \in DOMAIN sl
    BY <1>3, <1>8
  <2>2. ASSUME NEW k \in 1..i - 1
        PROVE  Sizes(lines)[k] \in Nat /\ ByteSizes(sl)[k] = Sizes(lines)[k]
    <3>1. ByteSizes(sl)[k] = ByteLen(sl[k]) + 1 /\ Sizes(lines)[k] = Len(lines[k]) + 1
      BY <2>1 DEF Sizes, ByteSizes
    <3>2. sl[k] = lines[k] /\ ByteLen(lines[k]) = Len(lines[k]) /\ lines[k] \in Text
      BY <1>3, <1>7, <2>1
    <3>3. Len(lines[k]) \in Nat
      BY <3>2 DEF Text
    <3> QED BY <3>1, <3>2, <3>3
  <2>3. IsFiniteSet(1..i - 1)
    BY <1>8, FS_Interval
  <2>4. Summable(Sizes(lines), 1..i - 1)
    BY <2>2 DEF Summable
  <2> QED BY <2>2, <2>3, <2>4, SumEqual
<1> DEFINE line == lines[i]
           to == Len(before) + Len(line)
<1>10. found.start = Len(before) /\ found.end = to
  BY <1>1, <1>3, <1>4, <1>6, <1>7, <1>9
<1>11. body = before \o line \o after /\ line \in Text /\ IsBullet(line)
  BY <1>1, <1>3, <1>6
<1> HIDE DEF line
<1>12. before \in Seq(Char) /\ line \in Seq(Char) /\ after \in Seq(Char)
  BY <1>11 DEF Text
<1>13. SubSeq(body, Len(before) + 1, to) = line
  <2>1. Parted(body, before, line, after)
    BY <1>11, <1>12 DEF Parted
  <2> QED BY <2>1, PartsOfText
<1>14. Len(before) \in Nat /\ to \in Nat /\ to <= Len(body)
  <2>1. /\ Len(before) \in Nat /\ Len(line) \in Nat /\ Len(after) \in Nat
        /\ Len(body) = Len(before) + Len(line) + Len(after)
    BY <1>11, <1>12, ThreeParts, SMTT(40)
  <2> QED BY <2>1
<1> HIDE DEF to
<1>15. Slice(body, Len(before), to) = line
  BY <1>13, <1>14, SliceType
<1> QED
  BY <1>10, <1>11, <1>15 DEF found

(* So on such a page a bullet that is found is flipped.                    *)
LEMMA FoundFlips ==
    ASSUME NEW body \in Text, NEW ref, FindTaskBullet(body, ref) # NoMatch, ~Holds(body, Wide)
    PROVE  Flipped(body, ref, "todo") # << >>
<1> DEFINE found  == FindTaskBullet(body, ref)
           line == Slice(body, found.start, found.end)
           bullet == Bullet(line)
           before == Slice(body, 0, found.start)
           after == Slice(body, found.end, Len(body))
           box == BoxText("todo")
<1>1. found.start \in Nat /\ found.end \in Nat /\ Len(body) \in Nat /\ 0 \in Nat
  BY FindTaskBulletType DEF Text
<1>2. line \in Text /\ before \in Text /\ after \in Text
  BY <1>1, SliceType
<1>3. Flipped(body, ref, "todo") =
        IF bullet = NoBullet THEN << >>
        ELSE before \o bullet.leading \o box \o bullet.text \o after
  BY Zenon DEF Flipped, BoxText
<1>4. IsBullet(line)
  BY FoundCut
<1>5. box \in Seq(Char) /\ Len(box) = 6
  <2> DEFINE mark == MarkOf("todo")
  <2>1. mark \in Marks
    BY MarkOfType DEF States
  <2> HIDE DEF mark
  <2>2. mark \in Char /\ Dash \in Char /\ Space \in Char /\ Open \in Char /\ Close \in Char
    <3>1. \A m \in Marks : m \in Syntax
      BY Zenon DEF Marks, Syntax, Space
    <3> QED BY <2>1, <3>1 DEF Char, Syntax
  <2>3. LET b == <<Dash, Space, Open, mark, Close, Space>> IN b \in Seq(Char) /\ Len(b) = 6
    BY <2>2
  <2> QED BY <2>3 DEF BoxText, mark
<1> HIDE DEF line, before, after, box
<1> DEFINE leading == bullet.leading
           text == bullet.text
<1>6. leading \in Text /\ text \in Text
  BY <1>2, <1>4, BulletType
<1>7. Flipped(body, ref, "todo") = before \o leading \o box \o text \o after
  BY <1>3, <1>4 DEF IsBullet
<1> HIDE DEF leading, text
<1> DEFINE a == before \o leading
           s == a \o box \o text
<1>8. a \in Seq(Char)
  BY <1>2, <1>6, TextConcat DEF Text
<1>9. s \in Seq(Char) /\ Len(s) > 0
  <2>1. a \in Seq(Char) /\ box \in Seq(Char) /\ text \in Seq(Char)
    BY <1>5, <1>6, <1>8 DEF Text
  <2> HIDE DEF a
  <2>2. s \in Seq(Char) /\ Len(s) = Len(a) + Len(box) + Len(text)
    BY <2>1, ThreeParts, SMTT(40)
  <2>3. Len(a) \in Nat /\ Len(text) \in Nat
    BY <2>1
  <2> HIDE DEF s
  <2> QED BY <1>5, <2>2, <2>3
<1> HIDE DEF s
<1>10. Len(s \o after) > 0
  <2>1. after \in Seq(Char)
    BY <1>2 DEF Text
  <2>2. Len(s \o after) = Len(s) + Len(after) /\ Len(after) \in Nat /\ Len(s) \in Nat
    BY <1>9, <2>1, ConcatProperties
  <2> QED BY <1>9, <2>2
<1>11. Len(<< >>) = 0
  OBVIOUS
<1> QED
  BY <1>7, <1>10, <1>11 DEF s

(* What the property asks of one row.                                      *)
LEMMA RowIsCheckable ==
    ASSUME NEW body \in Text, NEW row \in ParseTasks(body), row.ref # NoRef,
           RowsWith(body, row.ref) = {row}
    PROVE  /\ CheckTaskAnswer(body, row.ref)
                \in IF Holds(body, Wide) THEN {"ok", "assertion"} ELSE {"ok"}
           /\ ~FrontmatterNames(body, row.ref) => FindTaskBullet(body, row.ref).line = row.line
<1> DEFINE ref == row.ref
<1>1. ref = RefOf(Split(body)[row.line])
  BY RowIsLine DEF TaskRow
<1>2. FindTaskBullet(body, ref) # NoMatch
  BY <1>1, RowIsLine, FindTaskBulletType
<1>3. ~(Cardinality(RowsWith(body, ref)) > 1) /\ RowsWith(body, ref) # {}
  <2>1. Cardinality(RowsWith(body, ref)) = 1
    BY FS_Singleton
  <2> QED BY <2>1
<1>4. ref \in Refs
  <2> DEFINE text == Bullet(Split(body)[row.line]).text
             links == {k \in DOMAIN text : text[k] \in Refs}
  <2>1. text \in Text
    BY RowIsLine, SplitType, BulletType
  <2>2. ref = IF links = {} THEN NoRef ELSE text[Min(links)]
    BY <1>1, Zenon DEF RefOf, FirstLink
  <2>3. links \in SUBSET Nat
    BY <2>1 DEF Text
  <2>4. links # {} => Min(links) \in links
    BY <2>3, MinIsLeast
  <2> QED BY <2>2, <2>4
<1>5. CheckTaskAnswer(body, ref) = IF Flipped(body, ref, "todo") = << >> THEN "assertion" ELSE "ok"
  BY <1>2, <1>3 DEF CheckTaskAnswer
<1>6. ~Holds(body, Wide) => Flipped(body, ref, "todo") # << >>
  BY <1>2, FoundFlips
<1>7. ASSUME ~FrontmatterNames(body, ref) PROVE FindTaskBullet(body, ref).line = row.line
  <2>1. \A j \in 1..FrontmatterEnd(Split(body)) :
           ~(IsBullet(Split(body)[j]) /\ RefOf(Split(body)[j]) = ref)
    BY <1>7, Zenon DEF FrontmatterNames
  <2> DEFINE lines == SplitBodyLines(body)
             i == ListedLine(body, ref)
             start == SumFunctionOnSet(ByteSizes(lines), 1..i - 1)
             end == start + ByteLen(lines[i])
  <2>2. FindTaskBullet(body, ref) = [line |-> i, start |-> start, end |-> end]
    BY <1>3, <1>4, <2>1, FoundIsListed
  <2>3. i = row.line
    <3>1. i = (CHOOSE r \in {row} : TRUE).line
      BY DEF ListedLine
    <3> QED BY <3>1
  <2> HIDE DEF i, start, end
  <2> QED BY <2>2, <2>3
<1> QED
  BY <1>5, <1>6, <1>7

(* The tasks with a reference are the same in both listings of a page      *)
(* whose lines end in LF or CR LF, if its frontmatter is.                  *)
RefRows(rows) == {row \in rows : row.ref # NoRef}

LEMMA SameRefRows ==
    ASSUME NEW body \in Text, EndsInLineFeeds(body), SameFrontmatter(body)
    PROVE  RefRows(SpaceTasks(body)) = RefRows(ParseTasks(body))
<1> DEFINE lines == Split(body)
           u == UnixOf(lines)
           fm == FrontmatterEnd(lines)
<1>1. /\ lines \in LineSeqs /\ lines \in Seq(Text) /\ lines # << >> /\ CrAtEnds(lines)
      /\ DOMAIN lines = 1..Len(lines) /\ Len(lines) \in Nat
  <2>1. lines \in LineSeqs /\ lines \in Seq(Text) /\ lines # << >>
    BY JoinOfSplit, SplitType
  <2>2. CrAtEnds(lines)
    BY DEF EndsInLineFeeds, CrAtEnds
  <2> QED BY <2>1, <2>2
<1>2. Split(ReadText(body)) = u
  <2>1. Char \in SUBSET Char /\ LF \in Char /\ body \in Seq(Char)
    BY DEF Text, Char, Syntax
  <2> QED BY <1>1, <2>1, ReadTextIs
<1>3. fm \in 0..Len(lines) /\ FrontmatterEnd(u) = fm
  BY <1>1, <1>2, FrontmatterEndType DEF SameFrontmatter, TextsOf
<1>4. SpaceTasks(body) = RowsFrom(u, fm + 1) /\ ParseTasks(body) = RowsFrom(lines, fm + 1)
  BY <1>2, <1>3, RowsOfLines DEF SpaceTasks
<1>5. Len(u) = Len(lines)
  <2>1. lines \in Seq(Seq(Char))
    BY <1>1 DEF Text
  <2> QED BY <1>1, <2>1, UnixType
<1>6. \A k \in DOMAIN lines :
         /\ RefTask(u[k]) <=> RefTask(lines[k])
         /\ RefTask(u[k]) => /\ Bullet(u[k]).state = Bullet(lines[k]).state
                             /\ RefOf(u[k]) = RefOf(lines[k])
  BY <1>1, UnixTask
<1> HIDE DEF lines, u, fm
<1>7. \A k \in fm + 1..Len(lines) : k \in DOMAIN lines
  BY <1>1, <1>3
<1>8. \A k \in DOMAIN lines : RefTask(u[k]) => TaskRow(u, k) = TaskRow(lines, k)
  BY <1>6 DEF TaskRow
<1>9. \A v : RefRows(RowsFrom(v, fm + 1))
               = {TaskRow(v, k) : k \in {j \in fm + 1..Len(v) : RefTask(v[j])}}
  <2>1. \A v, k : TaskRow(v, k).ref = RefOf(v[k])
    BY DEF TaskRow
  <2> QED BY <2>1 DEF RefRows, RowsFrom, RefTask
<1>10. {j \in fm + 1..Len(u) : RefTask(u[j])} = {j \in fm + 1..Len(lines) : RefTask(lines[j])}
  BY <1>5, <1>6, <1>7
<1>11. {TaskRow(u, k) : k \in {j \in fm + 1..Len(u) : RefTask(u[j])}}
         = {TaskRow(lines, k) : k \in {j \in fm + 1..Len(lines) : RefTask(lines[j])}}
  <2> DEFINE K == {j \in fm + 1..Len(u) : RefTask(u[j])}
  <2>1. \A k \in K : TaskRow(u, k) = TaskRow(lines, k)
    BY <1>5, <1>7, <1>8
  <2>2. {TaskRow(u, k) : k \in K} = {TaskRow(lines, k) : k \in K}
    <3> HIDE DEF K
    <3> QED BY <2>1
  <2> QED BY <1>10, <2>2
<1> QED
  BY <1>4, <1>9, <1>11

(* Only they count.                                                        *)
LEMMA CheckableOfRefRows ==
    ASSUME NEW body, NEW a, NEW b, RefRows(a) = RefRows(b), Checkable(body, b)
    PROVE  Checkable(body, a)
<1>1. SUFFICES ASSUME NEW row \in a, row.ref # NoRef, {other \in a : other.ref = row.ref} = {row}
               PROVE  /\ CheckTaskAnswer(body, row.ref)
                           \in IF Holds(body, Wide) THEN {"ok", "assertion"} ELSE {"ok"}
                      /\ ~FrontmatterNames(body, row.ref)
                           => FindTaskBullet(body, row.ref).line = row.line
  BY Zenon DEF Checkable
<1>2. \A x : x \in a /\ x.ref # NoRef <=> x \in b /\ x.ref # NoRef
  BY DEF RefRows
<1>3. row \in b
  BY <1>1, <1>2
<1>4. {other \in b : other.ref = row.ref} = {row}
  <2>1. {other \in b : other.ref = row.ref} = {other \in a : other.ref = row.ref}
    BY <1>1, <1>2
  <2> QED BY <1>1, <2>1
<1> QED
  BY <1>1, <1>3, <1>4, Zenon DEF Checkable

(* A task that a listing shows under a reference of its own can be named   *)
(* to check_task: the walk that finds the bullet, over all lines of the    *)
(* server's text without the last empty one, and the walk that counts the  *)
(* candidates behind the frontmatter both see the line that was listed.    *)
(* For the listing of a page that is so on every page; for the listing of  *)
(* the space, which reads the file as a text, where every line ends in LF  *)
(* or CR LF and both see the same frontmatter.                             *)
THEOREM RowsCheckable == Spec => []ListedTaskIsCheckable
<1>1. ASSUME page \in Text PROVE Checkable(page, ParseTasks(page))
  <2>1. \A row \in ParseTasks(page) :
           {other \in ParseTasks(page) : other.ref = row.ref} = RowsWith(page, row.ref)
    BY DEF RowsWith
  <2> QED BY <1>1, <2>1, RowIsCheckable DEF Checkable
<1>2. ASSUME page \in Text, EndsInLineFeeds(page), SameFrontmatter(page)
      PROVE  Checkable(page, SpaceTasks(page))
  BY <1>1, <1>2, SameRefRows, CheckableOfRefRows
<1>3. TypeOK => ListedTaskIsCheckable
  BY <1>1, <1>2 DEF TypeOK, ListedTaskIsCheckable, Listings, TextsOf, SpaceTasks
<1> QED
  BY <1>3, TypeCorrect, PTL
===============================================================================
