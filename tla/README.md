# TLA+ models of silverbullet-mcp

silverbullet-mcp is a bridge: it offers the pages of a SilverBullet space as
MCP tools and turns each tool call into a few HTTP requests. Its own logic is
in what happens between those requests. A tool that edits a page reads it,
computes a new body, writes the body back, reads the page again to see whether
somebody interfered, and may then do all of it once more. Meanwhile other
calls, the SilverBullet editor and other programs write the same pages, and
requests time out without saying whether they were carried out. A tool that
looks for pages goes through a directory, or through one request per page,
while others rename and delete. And who may call a tool at all depends on keys
that an identity provider replaces at will. The models here are about that.

Source paths below are relative to the repository (`server.py` and the like
are in `src/mcp_silverbullet/`).

## Inventory

| component | code | state it keeps | operations | status |
|---|---|---|---|---|
| read-modify-write tools | `server.py` 1984-2592, 3194-3361 | none between calls; per call the read body, the derived body, tokens, attempts | `append_to_page`, `prepend_to_page`, `patch_page_lines`, `patch_page_replace`, `check_task` | modelled |
| whole-page tools | `server.py` 1765-1981, 2594-2842 | as above | `write_page`, `create_page`, `delete_page`, `move_page` | modelled |
| verification and auto-retry | `server.py` 251-362, 804-1012, 1254-1288 | the attempt counter | re-read and compare; repeat; check a token for a dry run | modelled, inside the tools |
| error translation, contention hint | `server.py` 156-235, 365-516 | `_contention_log`, a ring buffer of 412 times per page | classify an error; count a 412 and decide on the marker | modelled |
| HTTP client | `sb_client.py` | none (a connection pool of the library's) | GET, PUT, DELETE, list, meta; tokens from headers; errors from statuses | partly |
| SilverBullet server | outside the repository | the pages | GET, PUT, DELETE with preconditions | modelled as external |
| text algorithms | `server.py` 706-765, 1108-1251; `journal.py` 178-289, 356-590 | none | split lines and frontmatter, patch lines, find a task bullet, flip it, normalise a name | partly |
| read tools, page resource | `server.py` 1679-1747, 2960-3050, 3383-3415 | none | `read_page`, `page_exists`, `diff_pages`, `silverbullet://page/{name}` | modelled |
| page list and hydration | `server.py` 1330-1401, 2887-2927; `sb_client.py` 515-623 | none between calls; the rows | list, then one GET per row without an etag | modelled |
| task listing | `server.py` 3090-3133; `journal.py` 409-505, 1322-1371 | none | `list_tasks` | modelled |
| journal search | `journal.py` 593-1316 | none; reads a directory | search, recent pages, histogram, tags, backlinks | modelled |
| token verification | `verifier.py` | the cached key set | verify a JWT or a static token | modelled |
| settings, start-up | `main.py` | the settings, once | parse the environment, choose a verifier, serve | partly |
| HTTP debug hooks | `http_debug.py` | an installed flag | log requests | not modelled |

How they interact: a tool handler calls the client, which makes one request
and returns a page's meta data with a *token* (the `ETag` header, or a size in
quotes when the header is missing, or nothing) or raises; the translation
context manager turns the client's errors into the tool's; the verification
helper makes a further GET; the retry helper catches exactly the verification's
error, recognised by its prefix, and runs the whole attempt again. Handlers are
asyncio tasks of one process and share only the contention log and the server's
pages. The journal tools go around the client, to the mounted directory; their
answers (names, line numbers, references) are arguments of the editing tools,
and so are the tokens of a page list. Every request passes the verifier first,
which `main.py` builds from the environment and which fetches its keys without
giving up the event loop.

What is hard about it:

- the page a body was derived from may be gone when the body is stored, and the
  server may or may not notice;
- the token compared by the verification may be of another kind than the one it
  is compared with, or too coarse;
- a retry starts from a page that may hold the effect of the attempt before it;
- a timeout says nothing about the request, which may still be processed later;
- a move is three requests, each of which can fail or be overtaken;
- the contention log is bounded, expires lazily, and is fed by some of the 412s;
- a list or a search is an answer that no instant has seen: rows, tokens, sizes
  and snippets come from different moments, and what was listed may be gone;
- four functions number lines and two find tasks, each in its own way and not in
  the same text of a page, and a client carries what one of them said to another;
- byte counts are used to slice characters;
- a cached key may be withdrawn, a new one unknown, an id reused, a fetch fail;
- two places decide whether the settings are complete.

What makes each modelled component correct:

- *read-modify-write*: nobody's edit is lost; the answer tells what happened;
  a conflict is reported only if there was one, and no more often than others
  wrote; every call returns;
- *whole-page*: nothing is removed that the caller has not named or waived; the
  answer accounts for each PUT and DELETE of a move that stopped half-way;
- *contention hint*: the marker appears exactly when the documented number of
  412s lies in the window;
- *text algorithms and task listing*: what a listing names can be edited by that
  name and nothing else changes; text that is added disturbs no task;
- *read tools, page list, journal search*: each half of each row was true at
  some instant of the call; a page nobody touches is in the answer exactly when
  it should be; a page that disappears fails only the calls that ask for it;
- *token verification*: what is let in was signed with a key that is current up
  to the cache's life span, and what is current is let in;
- *settings*: no configuration starts the bridge with another verifier than the
  one it asks for, or ends in a traceback.

## Modules

    PageBody        the lines of a page and what each edit computes from them
      |-- SilverBullet     the server's preconditions, the client's tokens
      |     |-- RmwTools         the five read-modify-write tools
      |     |-- WholePageTools   the four whole-page tools
      |-- AtomicEdits      what the read-modify-write tools promise
      |                    (RmwTools instantiates it)
      |-- AtomicPages      what the whole-page tools amount to
                           (WholePageTools instantiates it)
    PageText        the characters of a page and the functions that cut it up
      |-- TaskTools        listing, checking and editing, their answers combined
                           (instantiates PageBody and compares)
    ContentionHint  the ring buffer of 412s
    Space           the files, one query, outside writers
      |-- PageList         the tools that read over HTTP
      |-- JournalWalk      the tools that walk the directory
            |-- SpaceQueries     both, and what their answers are worth
    Settings        the environment, what is refused, the verifier
      |-- Access           start, verification, the key set, the provider

    MC<module>      the values the .cfg files choose from
    <module>_proofs theorems about the module (PageText_proofs: lemmas for
                    those about TaskTools)
    FiniteFacts     finite sets, sums, folds and ranks, for the proofs

**PageBody.** A body is a sequence of lines, each of unit size, so `Len` is the
byte count of a body. A frontmatter block is one line, `FrontMatter`; the
bullet a `check_task` call refers to is one of three lines, one per state.
`BadText` is the one argument the validators refuse: an empty text, one above
the cap of 256 KiB, an unknown task state. `WellFormed` is the validation before any
request, `Applicable` the semantic errors found after the read (`RangeFits`,
`FindFits`, `ReferenceFits`), `Edited` the derived body. Newlines, substrings
within a line and Unicode are abstracted; `PageText` has them, and `TaskTools`
shows where the two agree.

**SilverBullet.** `HonorsIfMatch` and `HonorsIfNoneMatch` say whether the
server enforces preconditions, `PutEtag` and `GetEtag` which token survives on
each kind of response (`_etag_from_response`, `synthesize_etag`): the hash of
the body, its size, or none. The documentation describes a deployment that
enforces nothing and gives sizes; other builds enforce `If-Match` and return
hashes. All four are constants, so each run says which server it is about and
each theorem which servers it holds for.

**RmwTools.** An asyncio task gives up control only at its HTTP round trips, so
an action is one round trip with the code up to the next `await`:

| action | code |
|---|---|
| `Start` | the validations before the first request (check_task's are inside its attempt) |
| `ReadPage`, `ReadFails` | the GET, the semantic errors, the dry run, the derived body |
| `WritePage`, `WriteRefused`, `WriteFails` | the PUT with `write_if_match`; 412 and 413; an error status, a timeout or a transport error |
| `LateWrite`, `LateLoss` | the server processes a failed PUT later, or never |
| `VerifyPasses`, `VerifyRaises`, `VerifyFails` | `_verify_concurrency_token`; on a mismatch the retry helper repeats the attempt or gives up |
| `EditorSave` | any writer outside the bridge |

`stored` and `clobbered` are history variables: how often the server stored a
PUT of the call, and whether one replaced a page it was not derived from.

**WholePageTools** does the same for the other four tools. `move_page` runs
`Read`, `Put`, `Delete`, verification, and repeats from `Read` on a conflict;
each of its requests fails with the words it has for that (`destination_exists`,
`source_gone`, `both_exist`). `puts` and `deletes` are history variables.

**AtomicEdits** is the promise behind the read-modify-write tools: an edit
happens at one instant on the page as it is at that instant, at most once per
attempt of the budget, and each answer is true when it is given. `RmwTools`
implements it with the refinement mapping `asked <- req`, `applied <- stored`,
`told <- outcome`; reads, tokens and requests in flight disappear.

**AtomicPages** is what the whole-page tools amount to on a server that enforces
preconditions. A write or a removal happens at one instant, on a page that is
what the client named; a move looks at its source, puts what it saw at a free
name and removes the source, may stop after any of these, and starts over within
its budget. Nothing happens after a clear answer, and each answer is true when
it is given. `WholePageTools` implements it with `asked <- req`,
`named <- if_match`, `written <- puts`, `removed <- deletes`, `told <- outcome`,
and `carried <- Carried`, the body of a move whose PUT is still to come; the
verification, the count of attempts and the requests in flight disappear. It
describes what the code does, so `create_page` wants a page that exists there
too (`WholePageTools_create_overwrites`), and a move says nothing of whether the
page it removes is the one it copied (`WholePageTools_move_deletes_edit`).

**ContentionHint** has the ring buffers (`log`), the clock, and the full
history of 412s, which the code does not keep. `Translated` is `_contention_hint`: the
eviction loop, the length taken before the push, the push onto a
deque of bounded length. `InOwnWords` is a 412 that never gets there.

**PageText** translates the text functions character by character. A body is a
sequence of characters: line feed, carriage return, form feed (for every other
boundary `str.splitlines` knows), blank, dash, brackets, the marks, plain
characters, characters of two bytes, and wikilinks, each a character of its own.
A page has two texts. The client has the body of the server's answer as it is;
the walks over the directory have `ReadText`, what `Path.read_text` makes of the
file, where CR LF and a CR of its own are line feeds. `ParseTasks` of the one is
the `list_tasks` of a page, of the other (`SpaceTasks`) that of the space;
`BacklinkLines` is in the second, all edits are in the first. `Split`,
`SplitLines` and `SplitBodyLines` are the three ways the code cuts lines;
`FrontmatterEnd` and `SplitFrontmatterBlock` its two ideas of a frontmatter
block; `ParseTasks` and `FindTaskBullet` its two walks over the tasks, the
second with offsets in bytes; `Flipped` slices characters with them.

**TaskTools** is a page and one call after another of `append_to_page`,
`prepend_to_page`, `patch_page_lines` and `check_task`, each in one step (their
round trips are in `RmwTools`). Its properties relate what the functions of
`PageText` say to each other, each in the text it reads. What holds of every page
when both read the server's text holds, when one reads the file, of pages whose
lines end in LF or CR LF (`EndsInLineFeeds`), for tasks to be checked only if both
texts have the same frontmatter (`SameFrontmatter`), and for links only if no
form feed is in the way. `EditsAreLineEdits` relates them to `PageBody`,
which it instantiates: on pages as an editor leaves them (`Tidy`) an edit of
characters is the edit of lines that `RmwTools` and its proofs take it for, and
is refused in the same cases.

**Space** has the files, the query that runs, and `EditorSave`: write, delete,
rename, at any moment of the query. `seen` is a history variable: what each name
stood for since the query began. A row remembers the version that decided it
(`first`) and the one that completed it (`then`).

**PageList**: one action per GET. `ListPages` takes the list and filters it;
`Hydrate` completes one row, from the page the tools *resolve* the row's name
to; `HydrateSkipped` and `HydrateRaises` are the failures that keep the row (a 412,
a timeout) and those that end the call (the other errors, see below); `ReadPage` (twice for `diff_pages`), `PageExists`.

**JournalWalk**: one action per access to the directory. `ListDirectory`
is one directory of `rglob`, at once for a search and lazily for the other
walks; `Visit` one stat or read; `Size` the second stat of `recent_pages`;
`RgReads` ripgrep's own read of one file, `RgFails` its failure, `ReadBody` and
`ReadSnippet` the reads of the bridge. `Top` is sort-and-cut. A search is
`topic`, `pages_touching_topic`, which has no limit, or `search`, `search_pages`,
which is the same walk with its list cut off (`Cut`).

**SpaceQueries** puts the two together and says what their answers are worth.

**Settings** is the decision table of `load_settings`: `SettingsOf`, `Exits`
(each `SystemExit`), and `SelectVerifier`, which decides on the same settings
again. A variable of the environment is one of the kinds of value the code tells
apart: unset, only blanks, and so on.

**Access** starts a bridge in one of the environments and verifies tokens.
`VerifyJwt` goes up to the fetch of the key set if one is needed (the set is too
old, or does not have the token's key id); `Fetch` and `FetchFails` end it. The
fetch blocks the event loop, so there is no second verification meanwhile; the
provider (`Rotate`) and the clock (`Tick`) go on. The caching client is PyJWT's
and modelled as `JWTVerifier` configures it.

## Runs

TLC, with the configuration of the same name. Deadlock is not checked: when
every call has returned and the outside writers have used their steps, the
system stops.

| run | what it shows |
|---|---|
| `RmwTools_arguments` | one call of every tool with every kind of argument (well-formed or not, no token, `*`, a token that may be stale, dry run or live, budgets -1, 0, 1), an outside writer, faults: `TypeOK`, `AnswersAccountForWrites`, `AutoTokenNeverClobbers`, and `DryRunForetells`: a dry run answers as the server would answer the live call |
| `RmwTools_honoring` | two concurrent calls on a server that enforces `If-Match` and returns hashes: those, `ConflictsAreCaused`, `ConflictIsReal`, and the refinement `EditsAreAtomic` |
| `RmwTools_liveness` | two calls flipping one checkbox against each other, on a server that ignores `If-Match` and returns hashes: `EveryCallReturns`, and `AckSeesOwnWrite`, an acknowledged write was on the page when it was verified |
| `WholePageTools_honoring` | two concurrent calls, of every whole-page tool with every kind of argument and of moves that undo each other, on two names, with faults: `TypeOK`, `AnswersAccountForEffects`, `NothingDestroyedUnseen`, `WriteConflictIsReal`, `EveryCallReturns`, and the refinement `EffectsAreAtomic` |
| `ContentionHint_exact` | two pages, every order of 412s and ticks: `HintIsExact` |
| `TaskTools_pages` | every call on every small page: `ListedTaskIsCheckable` (what either `list_tasks` shows, `check_task` finds), `ListedLineIsPatchable` (the line numbers of either and of `find_backlinks` mean the same to `patch_page_lines`), both with the conditions above where the listing reads the file, `FlipTouchesOnlyTheMark`, `TasksSurviveAdditions`, `EditsAreLineEdits` |
| `SpaceQueries_changing` | every read-only tool on a changing space: `AnswersWereTrue`, `UntouchedPagesAreExact`, `AnswersAreBounded`, `OnlyNamedPagesFail`, `EveryQueryReturns` |
| `Access_rotation` | every environment, then tokens under rotating keys: `MisconfigurationExits`, `AcceptedTokensAreCurrent`, `RefusalsAreEarned`, `EveryVerificationEnds` |

The remaining runs check one statement each that the repository makes about the
program, and TLC finds a behaviour of the code that refutes it:

| run | statement | what happens |
|---|---|---|
| `RmwTools_lost_update` | a concurrent edit fails rather than being clobbered (README.md 94, 110) | on the documented deployment an edit between the GET and the PUT is overwritten and the call acknowledged: the verification compares with the call's own write |
| `WholePageTools_create_overwrites` | `create_page` refuses to overwrite (server.py 1822) | `If-Match: *` asks for a page that exists; a server that enforces it lets `create_page` overwrite |
| `WholePageTools_move_deletes_edit` | the etag of the read guards the delete (server.py 2604) | only the caller's `if_match` does |
| `TaskTools_flip` | a flip changes only the mark (journal.py 217-223, server.py 3149) | `_find_task_bullet` counts bytes (journal.py 574) and the flip slices characters: with a multi-byte character up to the end of the bullet's line the splice is off, and at least the line break goes |

The models have further behaviours that a reader of the code may not expect and
that no run states as a property:

- a retry of `append_to_page` or `prepend_to_page` adds the text to a page that
  may still hold the copy of the attempt before, and a retried
  `patch_page_replace` can answer `find not found in body` because its own first
  attempt replaced the text;
- with sizes for tokens the verification does not see an edit of the same size,
  and with a hash on GET and a size on PUT it raises although nobody wrote
  (`AcksSeeOwnWrite` and `ConflictsReal` below assume this away);
- `max_retries=-1` ends in the assertion after the retry loop (server.py 358);
- `create_page` of a missing page on a server that enforces `If-Match` answers
  that the page exists;
- a move that has succeeded is repeated when its source was recreated before the
  verification, and then answers that the destination exists and the source is
  untouched (server.py 2751, 2823);
- a timed-out DELETE of a move is reported as "both now exist" although it may
  have been carried out, and a page recreated after a delete makes
  `delete_page` report a conflict;
- `create_page`, `move_page` and the dry runs answer a 412 without the
  contention counter (`InOwnWords`);
- with enough multi-byte characters in front, a flip takes another bullet's line
  apart, or what it cuts out is no bullet and an assertion fails; a bullet of the
  frontmatter with the same reference is flipped in place of the listed one;
  further blanks after the dash or the box are dropped (`Flippable` excludes
  these);
- `prepend_to_page` takes a page that opens with `----` for one with frontmatter
  if a fence follows, turns every line boundary of such a page into a line feed,
  and glues the text to the closing fence when nothing follows it or the fence
  ends in a carriage return; one of several final newlines is lost (`WellFenced`);
- a carriage return of its own is a line end to the space-wide `list_tasks` and to
  `find_backlinks`, which read the file as text (journal.py 1285, 1357), and not to
  the `list_tasks` of a page, `check_task` and `patch_page_lines`: of the page
  `a\r- [ ] [[R]]` the first shows a task in line 2, which `check_task` does not
  find and `patch_page_lines` does not have. A fence that ends in CR LF is one to
  the space-wide listing only: with a bullet between two of them and the same one
  after them it shows one task where `check_task` counts two. `find_backlinks`
  also counts form feeds and Unicode separators as line ends;
- ripgrep is given the words of a search as a regular expression, Python as a
  literal (`words = "pattern"`);
- a page that answers a hydration with a 5xx, or a 4xx without a class of its own,
  fails the whole list (`HydrateRaises`): `_raise_for_status` reads the text of a
  streamed response, for which the HTTP library raises `ResponseNotRead`, and
  nobody catches that (sb_client.py 975, 617), although server.py 1353 and
  sb_client.py 604 mean to keep the row. So does a 413, or a transport error. The
  verification makes the same request, so a 5xx there ends the call with an error
  after its PUT was stored (`VerifyFails`), where server.py 951 means to skip it; the row of a file without an extension
  is hydrated from the page `<name>.md`;
- `recent_pages` fails when one of its first files is removed before its second
  stat (`"vanished"`); `diff_pages` may compare pages that never coexisted;
- `MCP_SILVERBULLET_JWT_ALGORITHMS=","` starts a bridge that refuses every token;
  a mode of blanks exits where an unset one means `jwt`;
- a key put under an id that was another's is refused until the cached set is too
  old; a key set that is no JSON makes `verify_token` raise, which its docstring
  excludes.

### Bounds

- *Calls*: two. What one call needs from another is a write at the wrong
  moment, between any two of its round trips; two calls with an outside writer
  give every such interleaving, and calls do not communicate otherwise.
  `RmwTools_arguments` has one call, because it is about kinds of arguments.
- *MaxSaves*: steps of outside writers, 0 to 3 (0 where the call alone
  suffices). Two are enough to interfere
  with an attempt and with its retry; against two whole-page calls there is one,
  because each call is the other's outside writer.
- *Budgets*: -1, 0 and 1 where faults and interleavings multiply the states, 2
  in `RmwTools_liveness` and 3, the default, where a statement is refuted. The argument over retries is uniform
  in the budget; the theorems are for all of them.
- *Lines*: three plain lines, the frontmatter and the three task lines, bodies
  of at most `BodyLimit` + 1 lines: room for one append by each call and for a
  body that is too large.
- *Requests* of a run are sets in the MC module; `EveryRequest` and `EachRequest`
  contain every tool with every kind of argument.
- *TaskTools*: pages of one and two lines of sixteen kinds (tasks with each
  mark, nested, with extra blanks, with a character of two bytes, with two
  links, fences and what looks like one, a link, a fence and a task in front of
  CR LF, a CR and a form feed in front of a task, empty), three lines
  around a line with a link, frontmatter blocks of one line, fenced with LF and
  with CR LF, with up to two lines after it, each with and without a final line feed; two references; four texts.
  One call per page: the page after a call is a page like the others, and what
  is compared is one page with the next. The functions look at one line, its
  neighbours and the lines before it, so a page of three lines has each case.
- *SpaceQueries*: four names, in two directories, one of them without an
  extension and one the page it resolves to; a file that matches, one that
  matches only as an expression, one that cannot be read; two steps of outside
  writers, enough to remove what was listed and put something else there; searches
  with limits 0, 1, 2 and one above the hard limit, `recent_pages` with -1 to 2.
  One query: they share nothing.
- *Access*: three keys, two under one id; a life span of one tick (the code's is
  300 s) and three ticks; tokens that are good, expired, not yet valid, with
  wrong claims or another algorithm; the settings of each mode in every
  combination. Lists of algorithms, leeways and ports stand for themselves.
- *ContentionHint*: a threshold and a window of two, five instants, three 412s
  per page: entries expire, survive exactly at the edge of the window, and are
  pushed out by younger ones. The code's values are 3 and 60 s; the theorem is
  for all values.

### Fairness

`FairSpec` has weak fairness of `Step(c)` for each call: a round trip ends, by
an answer or by the timeout the HTTP client sets on each request, and the event
loop then runs the task. Nothing is assumed of clients, of outside writers or
of requests that outlive their call. `RmwTools_liveness` has `Faults = FALSE`:
a fault can only end a call sooner, and without it every return is the work of
the retry budget; its instance is chosen so that the verification keeps raising.
In `WholePageTools_honoring` what could keep a call going is a repeated PUT or a
repeated move.

`SpaceQueries` has weak fairness of `QueryStep`: a GET ends by an answer or the
timeout, an access to a file ends. `Access` has it of `Fetch \/ FetchFails`: the
fetch of the key set ends by an answer, an error or the timeout that
`JWTVerifier` gives the client. Neither needs any of the writers or the provider.

## Proofs

TLAPS proves, for any number of calls and any requests, pages, budgets and
bounds, any alphabet, bodies and texts, any space and set of queries, any keys,
tokens and environments:

| theorem | statement | assumed of the server |
|---|---|---|
| `RmwTools_proofs!TypeCorrect` | `TypeOK` | nothing |
| `RmwTools_proofs!WritesAccounted` | `AnswersAccountForWrites` | nothing |
| `RmwTools_proofs!ConflictsReal` | `ConflictIsReal` | `PutEtag = GetEtag` |
| `RmwTools_proofs!ConflictsCaused` | `ConflictsAreCaused` | `PutEtag = GetEtag` |
| `RmwTools_proofs!AcksSeeOwnWrite` | `AckSeesOwnWrite` | hashes on PUT and GET, no faults |
| `RmwTools_proofs!NothingClobbered` | `AutoTokenNeverClobbers` | enforces `If-Match`, hashes on GET |
| `RmwTools_proofs!EditsImplementPromise` | `EditsAreAtomic` | the same, and no client sends a token of its own |
| `RmwTools_proofs!DryRunsForetell` | `DryRunForetells` | enforces `If-Match`, hashes on GET |
| `WholePageTools_proofs!TypeCorrect` | `TypeOK` | nothing |
| `WholePageTools_proofs!NothingLostUnseen` | `NothingDestroyedUnseen` | enforces both preconditions |
| `WholePageTools_proofs!EffectsAccounted` | `AnswersAccountForEffects` | nothing |
| `WholePageTools_proofs!WriteConflictsReal` | `WriteConflictIsReal` | `PutEtag = GetEtag` |
| `WholePageTools_proofs!EffectsImplementPromise` | `EffectsAreAtomic` | enforces both preconditions, hashes on PUT and GET |
| `ContentionHint_proofs!TypeCorrect` | `TypeOK` | - |
| `ContentionHint_proofs!MarkerExact` | `HintIsExact` | - |
| `SpaceQueries_proofs!TypeCorrect` | `TypeOK` | - |
| `SpaceQueries_proofs!AnswersTrue` | `AnswersWereTrue` | - |
| `SpaceQueries_proofs!DisappearanceIsHarmless` | `OnlyNamedPagesFail` | - |
| `SpaceQueries_proofs!UntouchedExact` | `UntouchedPagesAreExact` | - |
| `SpaceQueries_proofs!AnswersBounded` | `AnswersAreBounded` | - |
| `TaskTools_proofs!TypeCorrect` | `TypeOK` | - |
| `TaskTools_proofs!RowsCheckable` | `ListedTaskIsCheckable` | - |
| `TaskTools_proofs!LinesPatchable` | `ListedLineIsPatchable` | - |
| `TaskTools_proofs!AdditionsKeepTasks` | `TasksSurviveAdditions` | - |
| `TaskTools_proofs!FlipsTouchOnlyTheMark` | `FlipTouchesOnlyTheMark` | - |
| `Access_proofs!TypeCorrect` | `TypeOK` | - |
| `Access_proofs!MisconfiguredNeverServes` | `MisconfigurationExits` | - |
| `Access_proofs!AcceptedAreCurrent` | `AcceptedTokensAreCurrent` | - |
| `Access_proofs!RefusedAreEarned` | `RefusalsAreEarned` | - |

The assumptions on the server are needed: without enforcement there is
`RmwTools_lost_update`, and the list above names what happens with tokens of
two kinds and with sizes.
Constants are otherwise constrained only by the assumptions of the modules
(`LineAssumption`, `ServerAssumption`, `RmwAssumption`, `WholePageAssumption`,
`ContentionAssumption`, `SpaceAssumption`, `ResolvedAssumption`,
`WalkAssumption`, `AccessAssumption`, `CharAssumption`, `TaskAssumption`), which
TLC evaluates in the runs. Two of them say that there are finitely many calls
(`FiniteCalls`) and files (`FiniteNames`): sums and row counts mean nothing
otherwise.

How the arguments go:

- `RmwTools`: `TypeOK` is not inductive, because a derived body is a body only
  if its edit was validated and applied to the body that was read. `TypeInv`
  adds that a call past `Start` carries a request of the instance, well-formed
  once it is active. `CallInv` says
  what is known of a call at each point of its life: that its derived body is
  `Edited` of the body it read while an attempt is under way or its PUT is
  still in flight, that the token of the PUT's response is that of the
  derived body, that only a finished call has a request in flight and then has
  stored nothing in its last attempt, and the account of its PUTs. It mentions
  neither the page nor other calls, so a step disturbs it for one call only
  (`CallFrame`). `NothingClobbered` and `EditsImplementPromise` add what
  enforcement gives: a PUT admitted with the threaded token lands on the body
  it was derived from (`AdmittedOnBase`), so storing it *is* the atomic edit,
  also for a late request, and the answers are true of the page at that moment.
- `WholePageTools`: `Placed` says that a call is only where its tool leads;
  `CallInv` counts PUTs and DELETEs at each point against the attempts, and
  gives a move a DELETE only after the PUT of the same attempt. For the two
  properties about what is verified, `SentInv` adds that a writer's body is the
  one its client gave and that the token `write_page` verifies with is that
  body's. `EffectsImplementPromise` then has one step per action: a PUT the
  server stores, at once or late, is a write (`StoreIsWrite`), a DELETE it
  carries out a removal (`CarryOutIsRemove`), and every other return an answer
  (`ReturnIsTell`), whose truth is read off the counts. A failed PUT of a move
  keeps what it carries until the server has processed or lost it.
- `ContentionHint`: the ring buffer is a suffix of the history; whatever it has
  forgotten is older than the window or behind `THRESHOLD` younger entries, and
  times do not decrease. Hence the length after eviction reaches the threshold
  exactly when the `THRESHOLD`-th latest 412 is in the window.
- `RmwTools`, the conflicts: a call raises once at most for each PUT that
  another call has stored or that came from outside. The count is not inductive
  as it stands, because the edit that makes a verification raise is stored
  before the verification has seen it. `ConflictsInSight` charges it at once: a
  call that waits for its verification while the page is no longer what it wrote
  has one conflict more than it has counted (`Pending`). A store of another call
  adds one to the others' sum (`StoreCounts`), and the page of a call's own
  store is its own body, so nothing is charged twice.
- `RmwTools`, the dry run: `DryRunForetells` is about one step; the invariant
  supplies that the call still has its token and that tokens of pages are hashes,
  on which `_validate_if_match_on_read` and the server decide alike.
- `SpaceQueries`, truth: neither `AnswersWereTrue` nor `OnlyNamedPagesFail` is
  inductive. `IInv` adds that the space as
  it is has been seen, which tool is at which place (so that an answer is given
  by a tool that can give it, and only a search has rows that matches decide),
  and that what ripgrep has read of a listed file was there during the call. A
  step of a query adds rows about the present moment, or completes one; a step of
  an outside writer only adds to what was seen.
- `SpaceQueries`, exactness: an untouched page has been one and the same file
  since the query began, so every decision about it comes out as it would now
  (`UntouchedIsSteady`, `SameDecisions`). `ExactInv` says at each place of each
  query what has been decided about such pages: which are still to be visited,
  which have a row. What remains is the cut of `recent_pages` and the other
  limited tools: `Ahead` is a strict order of the rows, a row of rank `k` has `k`
  rows ahead of it, hence the first `k` are at most `k` and hold whatever is
  ahead of one of them (`FirstsAreFew`, `FirstsAreFirst`).
- `PageText` and `TaskTools`: everything rests on `Split` and `Join` being
  inverse to each other (`SplitOfJoin`, `JoinOfSplit`): an edit that joins other
  lines is then known by its lines, and `ParseTasks` by the rows of those lines
  (`RowsFrom`). Lines that are added shift the rows behind them (`Shifted`,
  `SameBags`); that the listing's frontmatter is the block `prepend_to_page`
  splits off is `HalvesOfBody` and `BlockAndRest`. For the flip, a line is in its
  text where the lines before it and their line feeds end (`LinePlace`); with no
  wide character up to the end of the line that is also where the count of bytes
  leads (`BytesAreCharacters`), although `_find_task_bullet` counts over other
  lines than the listing; so the slices are the line and what is around it
  (`FoundLine`), and a plain bullet's parts put together with another mark are
  the line with another mark (`FlippedLine`). Where carriage returns stand only in
  front of line feeds, the lines of the file are those of the page without them
  (`UnixOf`, `ReadTextIs`), replacing one is the same before and after
  (`UnixReplaced`), and a task line with a reference is the same task with or
  without the carriage return at its end (`CrTaskSame`): the blanks are searched
  up to the same characters (`SameSkip`). Hence both listings have the same rows
  with references (`SameRefRows`).
- `FiniteFacts`: the library's induction rules take an operator, which the
  provers cannot instantiate. `SetInduction` and `NumberInduction` say the same
  of a *set* of good sets or numbers, and are proved from the library's
  well-foundedness of the strict subset order. With them the folds of the
  community modules come within reach: a fold is a `CHOOSE` of a function that
  satisfies its recursion, `FoldExists` builds one up by the cardinality of the
  set, `FoldsAgree` says that there is only one, and `SumRemove`, `SumEqual` and
  `SumIncrement` are how the other proofs use it.
- `Access`: `IInv` adds that each key of the cached set is still published or was
  not withdrawn before the set was fetched (`CacheIsOfItsTime`). So a key of a
  fresh set was published within the life span, and of two keys under one id one
  has been replaced by the other that recently. `SettingsAreComplete` compares
  the two decisions about the settings.

Only model-checked:

- liveness (`EveryCallReturns`, `EveryQueryReturns`, `EveryVerificationEnds`),
  which is beyond the prover;
- `EditsAreLineEdits`: `PageBody` names its lines by strings, and `TaskTools`
  makes such names of lines with `ToString`, about which a proof knows nothing:
  that different lines get different names, or that no name is one of
  `PageBody`'s own, is a fact about TLC's printing.

All other properties of the passing runs are theorems. `RowsCheckable` and
`LinesPatchable` carry the conditions of their statements: none for the
`list_tasks` of a page; line ends, frontmatter and other boundaries, as above,
for what is read from the file.

## Not modelled, and why

- Wording, logging, payload layout and the redaction of secrets: no property
  here is about them.
- `http_debug.py`: it wraps objects of a library to log what passes, and keeps
  nothing but the fact that it is installed.
- Inside a line: the spellings of a wikilink (aliases, anchors, case and
  extension of a target), substrings (`patch_page_replace` replaces whole lines
  in `PageBody`), tags, the snippet around a match, histogram buckets. A wikilink
  is a character with a target; a file matches a query or does not.
- `_normalize_page_name` is an idempotent function on names (`Resolved`), as its
  tests require; its steps are not modelled.
- A text of several lines in `RmwTools`: a text is one line there. `TaskTools`
  has texts of any shape, but not the round trips.
- The body limit is one number for the server and for `check_task`; the cap on
  the text of the other tools is `BadText`.
- Of the HTTP client: the coercion of header values and the parser of
  Cloudflare's error pages.
- Of the start: URLs, host lists and transport security, log files, uvicorn.
- Cancellation of a tool call by the MCP client: the SDK's, not in the source.
- Cryptography, the MCP SDK, uvicorn and httpx.

## Plan

Done: the modules above, their runs and theorems.

Left, in this order:

1. A composition of `ContentionHint` with the tools, so that which 412s are
   counted follows from the handlers.
2. A `PageBody` whose lines are any values with the frontmatter and the task
   lines apart from them, so that `EditsAreLineEdits` can be proved.
3. The spellings of a wikilink in `PageText`.
