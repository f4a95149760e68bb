-------------------------------- MODULE Access --------------------------------
(***************************************************************************)
(* Who is let in: the bridge starts with the settings of its environment   *)
(* and verifies the token of every request, against the one shared secret  *)
(* or, for a JWT, with the keys the identity provider publishes.  The keys *)
(* come from PyJWT's PyJWKClient, which keeps the last key set it fetched  *)
(* and fetches another when that is too old or does not have the token's   *)
(* key id.  It waits for the response without giving up the event loop, so *)
(* one verification runs at a time; meanwhile the provider changes its     *)
(* keys and time passes.                                                   *)
(***************************************************************************)
EXTENDS Settings, FiniteSets

CONSTANTS
    Environments,   \* the environments the bridge may be started in
    Key,            \* the provider's signing keys
    Kid,            \* Kid[key]: the key id a key is published under
    JWT,            \* the tokens clients present to the JWT verifier
    Lifespan,       \* for how long a fetched key set is used
    ExpiryChecked,  \* does the SDK refuse what has expired by expires_at?
    NoCache,        \* no key set
    Secret,         \* the token of MCP_SILVERBULLET_TOKEN ...
    Garbage,        \* ... a string that is neither it nor a JWT ...
    NoToken,        \* ... and none at all
    MaxClock        \* bound: the run ends there

(* A token: the key it is signed with, the algorithm, whether its issuer,  *)
(* audience and the other required claims are right, and its times.        *)
ASSUME AccessAssumption ==
    /\ Environments \subseteq Env
    /\ JWT \subseteq [key : Key, alg : STRING, claims : BOOLEAN, nbf : Nat, exp : Nat]
    /\ DOMAIN Kid = Key
    /\ Lifespan \in Nat /\ MaxClock \in Nat
    /\ ExpiryChecked \in BOOLEAN
    /\ NoCache \notin [keys : SUBSET Key, at : Nat]
    /\ {Secret, Garbage, NoToken} \cap JWT = {}
    /\ Secret \notin {Garbage, NoToken}

VARIABLES
    pc,             \* "start", "exit", "raised", "serving", "fetch", "refresh"
    settings,       \* the settings, once there are some
    verifier,       \* the verifier's kind
    clock,          \* seconds, say
    published,      \* the keys the provider publishes
    withdrawn,      \* history: when a key was last withdrawn
    cache,          \* the key set the client keeps, and when it was fetched
    token,          \* the token that was presented last
    answer          \* what the bridge told about it, in the step just taken

bootVars == <<settings, verifier>>
idpVars == <<clock, published, withdrawn>>
vars == <<pc, bootVars, idpVars, cache, token, answer>>

OneKeyPerId(keys) == \A k, l \in keys : Kid[k] = Kid[l] => k = l

Init ==
    /\ pc = "start"
    /\ settings = "none"
    /\ verifier = "none"
    /\ clock = 0
    /\ published \in SUBSET Key \ {{}} /\ OneKeyPerId(published)
    /\ withdrawn = [k \in Key |-> -Lifespan - 1]
    /\ cache = NoCache
    /\ token = NoToken
    /\ answer = "none"

(* serve: load_settings, build_verifier, listen. *)
Boot ==
    /\ pc = "start"
    /\ \E env \in Environments :
          IF Exits(env)
          THEN pc' = "exit" /\ UNCHANGED bootVars
          ELSE /\ settings' = SettingsOf(env)
               /\ verifier' = SelectVerifier(settings')
               /\ pc' = IF verifier' = "ValueError" THEN "raised" ELSE "serving"
    /\ UNCHANGED <<idpVars, cache, token, answer>>

-------------------------------------------------------------------------------
(***************************************************************************)
(* StaticTokenVerifier and JWTVerifier                                     *)
(***************************************************************************)
Told(verdict) == pc' = "serving" /\ answer' = verdict

VerifyStatic ==
    /\ pc = "serving" /\ verifier = "static"
    /\ token' \in {Secret, Garbage}
    /\ Told(IF token' = Secret THEN "accepted" ELSE "refused")
    /\ UNCHANGED <<bootVars, idpVars, cache>>

Expired(t) ==
    \/ t.exp <= clock - settings.leeway
    \/ ExpiryChecked /\ t.exp < clock
Early(t) == t.nbf > clock + settings.leeway

\* What is right about a token whatever key it is signed with.
Sound(t) == t.alg \in settings.algorithms /\ t.claims /\ ~Expired(t) /\ ~Early(t)

\* jwt.decode with the key found, and the SDK's check of expires_at.
Decoded(t, key) == IF t.key = key /\ Sound(t) THEN "accepted" ELSE "refused"

KeysFor(t, keys) == {k \in keys : Kid[k] = Kid[t.key]}
Fresh == cache # NoCache /\ clock <= cache.at + Lifespan

VerifyJwtStale ==   \* mutant: the key set is fetched once
    /\ pc = "serving" /\ verifier = "jwt"
    /\ token' \in JWT
    /\ IF cache = NoCache THEN pc' = "fetch" /\ answer' = "none"
       ELSE IF KeysFor(token', cache.keys) = {} THEN pc' = "refresh" /\ answer' = "none"
       ELSE \E key \in KeysFor(token', cache.keys) : Told(Decoded(token', key))
    /\ UNCHANGED <<bootVars, idpVars, cache>>

VerifyJwtCached ==   \* mutant: only age has the key set fetched again
    /\ pc = "serving" /\ verifier = "jwt"
    /\ token' \in JWT
    /\ IF ~Fresh THEN pc' = "fetch" /\ answer' = "none"
       ELSE IF KeysFor(token', cache.keys) = {} THEN Told("refused")
       ELSE \E key \in KeysFor(token', cache.keys) : Told(Decoded(token', key))
    /\ UNCHANGED <<bootVars, idpVars, cache>>

(* verify_token, up to a fetch of the keys if one is needed. *)
VerifyJwt ==
    /\ pc = "serving" /\ verifier = "jwt"
    /\ token' \in JWT
    /\ IF ~Fresh THEN pc' = "fetch" /\ answer' = "none"
       ELSE IF KeysFor(token', cache.keys) = {} THEN pc' = "refresh" /\ answer' = "none"
       ELSE \E key \in KeysFor(token', cache.keys) : Told(Decoded(token', key))
    /\ UNCHANGED <<bootVars, idpVars, cache>>

(* A string that is no JWT is refused before its key is looked for.        *)
VerifyGarbage ==
    /\ pc = "serving" /\ verifier = "jwt"
    /\ token' \in {Secret, Garbage}
    /\ Told("refused")
    /\ UNCHANGED <<bootVars, idpVars, cache>>

FetchUntilFound ==   \* mutant: an unknown key id is looked for until it is there
    /\ pc \in {"fetch", "refresh"}
    /\ cache' = [keys |-> published, at |-> clock]
    /\ LET keys == KeysFor(token, published) IN
       IF keys # {} THEN \E key \in keys : Told(Decoded(token, key))
       ELSE pc' = "refresh" /\ UNCHANGED answer
    /\ UNCHANGED <<bootVars, idpVars, token>>

(* The key set arrives.  An id that is not even in a set just fetched is   *)
(* looked for in another one, once.                                        *)
Fetch ==
    /\ pc \in {"fetch", "refresh"}
    /\ cache' = [keys |-> published, at |-> clock]
    /\ LET keys == KeysFor(token, published) IN
       IF keys # {} THEN \E key \in keys : Told(Decoded(token, key))
       ELSE IF pc = "fetch" THEN pc' = "refresh" /\ UNCHANGED answer
       ELSE Told("refused")
    /\ UNCHANGED <<bootVars, idpVars, token>>

(* It does not: the client forgets the set it had.  A connection error or  *)
(* a timeout is a refusal ("no_keys"), a response that is no JSON is not a *)
(* PyJWTError and leaves verify_token.                                     *)
FetchFails ==
    /\ pc \in {"fetch", "refresh"}
    /\ cache' = NoCache
    /\ \E verdict \in {"no_keys", "raised"} : Told(verdict)
    /\ UNCHANGED <<bootVars, idpVars, token>>

-------------------------------------------------------------------------------
(***************************************************************************)
(* The identity provider and the clock                                     *)
(***************************************************************************)
(* A verification in progress goes on; one that is over is history. *)
Meanwhile ==
    /\ answer' = "none"
    /\ token' = IF pc \in {"fetch", "refresh"} THEN token ELSE NoToken
    /\ UNCHANGED <<pc, bootVars, cache>>

Tick ==
    /\ clock < MaxClock
    /\ clock' = clock + 1
    /\ UNCHANGED <<published, withdrawn>>
    /\ Meanwhile

(* The provider publishes other keys, under each id one, and always some.  *)
Rotate ==
    /\ published' \in SUBSET Key \ {{}, published}
    /\ OneKeyPerId(published')
    /\ withdrawn' = [k \in Key |-> IF k \in published \ published' THEN clock ELSE withdrawn[k]]
    /\ UNCHANGED clock
    /\ Meanwhile

Next ==
    \/ Boot
    \/ VerifyStatic \/ VerifyJwt \/ VerifyGarbage
    \/ Fetch \/ FetchFails
    \/ Tick \/ Rotate

Spec == Init /\ [][Next]_vars

\* A fetch ends: by an answer, an error or the client's timeout.
FairSpec == Spec /\ WF_vars(Fetch \/ FetchFails)

-------------------------------------------------------------------------------
(***************************************************************************)
(* Properties                                                              *)
(***************************************************************************)
(* Every variable keeps its kind of value; a bridge that serves has the    *)
(* verifier its settings ask for.                                          *)
TypeOK ==
    /\ pc \in {"start", "exit", "raised", "serving", "fetch", "refresh"}
    /\ verifier \in {"none", "jwt", "static", "ValueError"}
    /\ clock \in Nat
    /\ published \subseteq Key /\ OneKeyPerId(published)
    /\ withdrawn \in [Key -> Int]
    /\ cache \in [keys : SUBSET Key, at : Nat] \cup {NoCache}
    /\ token \in JWT \cup {Secret, Garbage, NoToken}
    /\ answer \in {"none", "accepted", "refused", "no_keys", "raised"}
    /\ pc \in {"serving", "fetch", "refresh"} => verifier = settings.mode
    /\ pc \in {"fetch", "refresh"} => verifier = "jwt" /\ token \in JWT

PublishedLately(k) == k \in published \/ withdrawn[k] >= clock - Lifespan

(* load_settings refuses every environment that select_verifier could not  *)
(* build a verifier from: a misconfigured bridge ends with a message for   *)
(* its operator, not with a traceback, and never serves.                   *)
MisconfigurationExits == pc # "raised"

(* A JWT that is let in has the right claims and times, one of the         *)
(* algorithms that were configured, and was signed with a key that the     *)
(* provider publishes or has withdrawn no longer than Lifespan ago.        *)
AcceptedTokensAreCurrent ==
    answer = "accepted" /\ verifier = "jwt" =>
       Sound(token) /\ PublishedLately(token.key)

(* A good token, signed with a key the provider publishes now, is refused  *)
(* only if the keys could not be had - or, for at most Lifespan, if the    *)
(* provider has put the key under an id that was another's: the rotation   *)
(* of a key under a new id locks nobody out.                               *)
RefusalsAreEarned ==
    answer = "refused" /\ token \in JWT =>
       \/ ~Sound(token) \/ token.key \notin published
       \/ \E k \in Key \ {token.key} : Kid[k] = Kid[token.key] /\ PublishedLately(k)

(* Whatever the provider does to its keys meanwhile, a verification ends,  *)
(* and with it the wait of every other call.                               *)
EveryVerificationEnds == pc \in {"fetch", "refresh"} ~> pc = "serving"
===============================================================================
