----------------------------- MODULE AtomicPages ------------------------------
(***************************************************************************)
(* What the whole-page tools amount to on a server that enforces           *)
(* preconditions.  A page is written or removed at one instant, and what   *)
(* the client said of it is true at that instant.  A move is three such    *)
(* instants: it looks at its source, puts what it saw at a free name, and  *)
(* removes the source; it may stop after any of them, and starts over as   *)
(* often as its client allows.  Nothing happens after a clear answer, and  *)
(* every answer is true when it is given.  There are no requests in flight *)
(* here, no verification and no count of attempts.                         *)
(***************************************************************************)
EXTENDS PageBody, Integers

CONSTANTS Absent, Names, Calls, Requests, Oversized, InitialPages, NoRequest

VARIABLES
    pages,
    asked,       \* each call's arguments
    named,       \* the page the client wants to find
    carried,     \* what a move has seen and not put anywhere yet, or Absent
    written, removed,   \* how often the call wrote, and removed, a page
    told

avars == <<pages, asked, named, carried, written, removed, told>>

Init ==
    /\ pages = InitialPages
    /\ asked = [c \in Calls |-> NoRequest]
    /\ named = [c \in Calls |-> <<"none">>]
    /\ carried = [c \in Calls |-> Absent]
    /\ written = [c \in Calls |-> 0]
    /\ removed = [c \in Calls |-> 0]
    /\ told = [c \in Calls |-> "none"]

(* The page a client wants to find under a name: whatever there is or is   *)
(* not, any page, or the one it saw.  create_page wants any page, the      *)
(* opposite of what it is for.                                             *)
Naming(r) ==
    IF r.tool = "create_page" \/ r.if_match = "star" THEN <<"star">>
    ELSE IF r.if_match = "none" THEN <<"none">>
    ELSE <<"hash", pages[r.name]>>

AsNamed(c) ==
    LET page == pages[asked[c].name] IN
    \/ named[c] = <<"none">>
    \/ page # Absent /\ named[c] \in {<<"star">>, <<"hash", page>>}

Moves(c) == asked[c].tool = "move_page"
Writes(c) == asked[c].tool \in {"write_page", "create_page"}
Attempts(c) == IF Moves(c) THEN asked[c].max_retries + 1 ELSE 1

Unclear == {"timeout", "server_error", "transport", "both_exist"}
Open(c) == asked[c] # NoRequest /\ told[c] \in {"none"} \cup Unclear

(* A call comes in; one with bad arguments is turned away at once. *)
Ask(c) ==
    /\ asked[c] = NoRequest
    /\ \E r \in Requests :
          /\ asked' = [asked EXCEPT ![c] = r]
          /\ named' = [named EXCEPT ![c] = Naming(r)]
    /\ \E answer \in {"none", "invalid", "assertion"} :
          told' = [told EXCEPT ![c] = answer]
    /\ UNCHANGED <<pages, carried, written, removed>>

Look(c) ==
    /\ Moves(c) /\ told[c] = "none"
    /\ written[c] = removed[c] /\ written[c] < Attempts(c)
    /\ pages[asked[c].name] # Absent
    /\ carried' = [carried EXCEPT ![c] = pages[asked[c].name]]
    /\ UNCHANGED <<pages, asked, named, written, removed, told>>

(* The client may be told in the same instant, or told nothing clear. *)
MayTell(c, answers) ==
    \/ UNCHANGED told
    \/ told[c] = "none" /\ \E answer \in answers : told' = [told EXCEPT ![c] = answer]

Put(c) ==
    /\ Moves(c) /\ Open(c)
    /\ carried[c] # Absent
    /\ pages[asked[c].new_name] = Absent
    /\ pages' = [pages EXCEPT ![asked[c].new_name] = carried[c]]
    /\ carried' = [carried EXCEPT ![c] = Absent]
    /\ MayTell(c, Unclear)

Write(c) ==
    /\ Writes(c) /\ Open(c)
    /\ written[c] = 0
    /\ AsNamed(c)
    /\ pages' = [pages EXCEPT ![asked[c].name] = asked[c].content]
    /\ UNCHANGED carried
    /\ MayTell(c, {"ok"} \cup Unclear)

PutOrWrite(c) ==
    /\ Put(c) \/ Write(c)
    /\ written' = [written EXCEPT ![c] = @ + 1]
    /\ UNCHANGED <<asked, named, removed>>

(* A move removes its source once for every time it wrote. *)
Remove(c) ==
    /\ Open(c)
    /\ \/ Moves(c) /\ written[c] = removed[c] + 1
       \/ asked[c].tool = "delete_page" /\ removed[c] = 0
    /\ pages[asked[c].name] # Absent /\ AsNamed(c)
    /\ pages' = [pages EXCEPT ![asked[c].name] = Absent]
    /\ removed' = [removed EXCEPT ![c] = @ + 1]
    /\ MayTell(c, {"ok"} \cup Unclear)
    /\ UNCHANGED <<asked, named, carried, written>>

(* When each answer is true.  "conflict" is told of a page that is there   *)
(* and is not what the call wrote.                                         *)
AllDone(c, times) ==
    /\ written[c] = IF Moves(c) \/ Writes(c) THEN times ELSE 0
    /\ removed[c] = IF Writes(c) THEN 0 ELSE times

Truthful(c, answer) ==
    LET r == asked[c]
        page == pages[r.name]
    IN CASE answer = "ok" ->
              \/ \E times \in 1..written[c] + removed[c] : AllDone(c, times)
              \/ Moves(c) /\ r.name = r.new_name /\ page # Absent
         [] answer = "conflict" ->
              /\ AllDone(c, Attempts(c))
              /\ page # Absent /\ (Writes(c) => page # r.content)
         [] answer = "not_found" ->
              page = Absent /\ ~Writes(c) /\ written[c] = removed[c]
         [] answer = "too_large" -> Moves(c) /\ page \in Oversized
         [] answer \in {"precondition", "page_exists"} ->
              ~Moves(c) /\ ~AsNamed(c) /\ written[c] = 0 /\ removed[c] = 0
         [] answer = "destination_exists" ->
              Moves(c) /\ pages[r.new_name] # Absent /\ written[c] = removed[c]
         [] answer = "source_gone" ->
              Moves(c) /\ page = Absent /\ written[c] = removed[c] + 1
         [] answer = "both_exist" -> Moves(c) /\ written[c] = removed[c] + 1
         [] OTHER -> TRUE

Answers == {"ok", "conflict", "not_found", "too_large", "precondition", "page_exists",
            "destination_exists", "source_gone"} \cup Unclear

(* An answer may end what a move carries; so may the loss of its request.  *)
MayDrop(c) == UNCHANGED carried \/ carried' = [carried EXCEPT ![c] = Absent]

Tell(c) ==
    /\ asked[c] # NoRequest
    /\ told[c] = "none"
    /\ \E answer \in Answers :
          Truthful(c, answer) /\ told' = [told EXCEPT ![c] = answer]
    /\ MayDrop(c)
    /\ UNCHANGED <<pages, asked, named, written, removed>>

Drop(c) ==
    /\ told[c] \in Unclear
    /\ MayDrop(c)
    /\ UNCHANGED <<pages, asked, named, written, removed, told>>

(* Others write pages. *)
Foreign ==
    /\ pages' \in [Names -> Seq(Line) \cup {Absent}]
    /\ UNCHANGED <<asked, named, carried, written, removed, told>>

Next ==
    \/ Foreign
    \/ \E c \in Calls : Ask(c) \/ Look(c) \/ PutOrWrite(c) \/ Remove(c) \/ Tell(c) \/ Drop(c)

Spec == Init /\ [][Next]_avars
===============================================================================
