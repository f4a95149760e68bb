----------------------------- MODULE SilverBullet -----------------------------
(***************************************************************************)
(* What the bridge relies on from a SilverBullet server, and the           *)
(* concurrency tokens the bridge's HTTP client derives from its responses. *)
(* The server is outside this repository; builds differ in whether they    *)
(* enforce preconditions and in the headers that survive on a response, so *)
(* both are constants.                                                     *)
(***************************************************************************)
EXTENDS PageBody

CONSTANTS
    Absent,             \* the content of a page that does not exist
    HonorsIfMatch,      \* does a PUT or DELETE with a stale If-Match get 412?
    HonorsIfNoneMatch,  \* does a PUT with If-None-Match: * onto a page get 412?
    PutEtag, GetEtag    \* the token kind PUT and GET responses give rise to

TokenKinds == {"hash", "size", "none"}

ASSUME ServerAssumption ==
    /\ Absent \notin Body
    /\ HonorsIfMatch \in BOOLEAN
    /\ HonorsIfNoneMatch \in BOOLEAN
    /\ PutEtag \in TokenKinds
    /\ GetEtag \in TokenKinds

Page == Body \cup {Absent}

NoToken == <<"none">>     \* Python's None
Star    == <<"star">>     \* the literal "*"

(***************************************************************************)
(* The token the client takes from a response about a page with the given  *)
(* body: the ETag header when it survives (SilverBullet's is the hash of   *)
(* the body), else the size from X-Content-Length, else nothing.           *)
(***************************************************************************)
TokenOf(kind, body) ==
    CASE kind = "hash" -> <<"hash", body>>
      [] kind = "size" -> <<"size", Len(body)>>
      [] kind = "none" -> NoToken

Tokens == {NoToken, Star} \cup ({"hash"} \X Body) \cup ({"size"} \X Nat)

(* If-Match: the page must exist and, for a concrete token, its hash must  *)
(* be the token.  A size the client made up never equals a hash.           *)
IfMatchHolds(token, page) ==
    \/ token = NoToken
    \/ ~HonorsIfMatch
    \/ page # Absent /\ token \in {Star, TokenOf("hash", page)}

IfNoneMatchHolds(page) == page = Absent \/ ~HonorsIfNoneMatch
===============================================================================
