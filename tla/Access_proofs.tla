----------------------------- MODULE Access_proofs -----------------------------
(***************************************************************************)
(* The invariants of Access, for every set of environments, keys and       *)
(* tokens, every life span of the cached key set, and whether or not the   *)
(* SDK looks at expires_at.                                                *)
(*                                                                         *)
(* The inductive invariant adds what the cached key set is worth: each key *)
(* in it is still published or was not withdrawn before it was fetched.    *)
(***************************************************************************)
EXTENDS Access, TLAPS

CacheIsOfItsTime ==
    cache # NoCache =>
       /\ cache.at <= clock
       /\ \A k \in cache.keys : k \in published \/ withdrawn[k] >= cache.at

AnswersAreMomentary == answer # "none" => pc = "serving"

IInv ==
    /\ TypeOK
    /\ CacheIsOfItsTime
    /\ AnswersAreMomentary
    /\ MisconfigurationExits
    /\ AcceptedTokensAreCurrent
    /\ RefusalsAreEarned

(* What load_settings lets through, select_verifier has a verifier for, and *)
(* it is the one of the mode (main.py, verifier.py).                        *)
LEMMA SettingsAreComplete ==
    ASSUME NEW env, ~Exits(env)
    PROVE  /\ SelectVerifier(SettingsOf(env)) \in {"jwt", "static"}
           /\ SelectVerifier(SettingsOf(env)) = SettingsOf(env).mode
<1> DEFINE s == SettingsOf(env)
<1>1. /\ s.mode \in {"jwt", "static"}
      /\ s.mode = "static" => s.token
      /\ s.mode = "jwt" => JwtComplete(s)
  BY DEF Exits
<1> HIDE DEF s
<1>2. SelectVerifier(s) = s.mode /\ s.mode \in {"jwt", "static"}
  BY <1>1 DEF SelectVerifier
<1> QED
  BY <1>2 DEF s

(* A key of a set that is still fresh is published or was withdrawn no     *)
(* longer than Lifespan ago (PyJWKClient's cache, as JWTVerifier uses it). *)
LEMMA FreshKeysArePublishedLately ==
    ASSUME TypeOK, CacheIsOfItsTime, Fresh, NEW k \in cache.keys
    PROVE  k \in Key /\ PublishedLately(k)
<1>1. cache \in [keys : SUBSET Key, at : Nat]
  BY DEF TypeOK, Fresh
<1>2. k \in Key /\ cache.at \in Nat /\ clock \in Nat /\ withdrawn[k] \in Int
  BY <1>1 DEF TypeOK
<1>3. CASE k \in published
  BY <1>2, <1>3 DEF PublishedLately
<1>4. CASE withdrawn[k] >= cache.at
  <2>1. clock <= cache.at + Lifespan
    BY DEF Fresh
  <2>2. withdrawn[k] >= clock - Lifespan
    BY <1>2, <1>4, <2>1, AccessAssumption
  <2> QED
    BY <1>2, <2>2 DEF PublishedLately
<1> QED
  BY <1>3, <1>4 DEF CacheIsOfItsTime, Fresh

(* The verdict on a token decoded with a key that is published or was      *)
(* lately, under the token's key id, is as the two properties want it      *)
(* (jwt.decode in JWTVerifier.verify_token).                               *)
LEMMA VerdictIsRight ==
    ASSUME NEW t \in JWT, NEW key \in Key, PublishedLately(key), Kid[key] = Kid[t.key]
    PROVE  /\ Decoded(t, key) = "accepted" => Sound(t) /\ PublishedLately(t.key)
           /\ Decoded(t, key) = "refused" =>
                 \/ ~Sound(t)
                 \/ \E k \in Key \ {t.key} : Kid[k] = Kid[t.key] /\ PublishedLately(k)
           /\ Decoded(t, key) \in {"accepted", "refused"}
  BY DEF Decoded

(* The invariant holds in the initial states. *)
LEMMA InitIInv == Init => IInv
<1> SUFFICES ASSUME Init PROVE IInv
  OBVIOUS
<1>1. withdrawn \in [Key -> Int]
  BY AccessAssumption DEF Init
<1>2. TypeOK
  BY <1>1 DEF Init, TypeOK
<1> QED
  BY <1>2 DEF Init, IInv, CacheIsOfItsTime, AnswersAreMomentary, MisconfigurationExits,
              AcceptedTokensAreCurrent, RefusalsAreEarned

(* Starting the bridge preserves the invariant (main.serve). *)
LEMMA BootIInv == IInv /\ Boot => IInv'
<1> SUFFICES ASSUME IInv, Boot PROVE IInv'
  OBVIOUS
<1> USE DEF IInv
<1>1. answer = "none" /\ answer' = "none"
  BY DEF Boot, AnswersAreMomentary
<1>2. CASE pc' = "exit" /\ UNCHANGED bootVars
  <2>1. TypeOK'
    BY <1>2 DEF Boot, TypeOK, bootVars, idpVars
  <2> QED
    BY <1>1, <1>2, <2>1 DEF Boot, bootVars, idpVars, CacheIsOfItsTime, AnswersAreMomentary,
       MisconfigurationExits, AcceptedTokensAreCurrent, RefusalsAreEarned
<1>3. CASE \E env \in Environments :
              /\ ~Exits(env)
              /\ settings' = SettingsOf(env)
              /\ verifier' = SelectVerifier(settings')
              /\ pc' = IF verifier' = "ValueError" THEN "raised" ELSE "serving"
  <2>1. verifier' \in {"jwt", "static"} /\ verifier' = settings'.mode /\ pc' = "serving"
    BY <1>3, SettingsAreComplete
  <2>2. TypeOK'
    BY <2>1 DEF Boot, TypeOK, idpVars
  <2> QED
    BY <1>1, <2>1, <2>2 DEF Boot, idpVars, CacheIsOfItsTime, AnswersAreMomentary,
       MisconfigurationExits, AcceptedTokensAreCurrent, RefusalsAreEarned
<1> QED
  BY <1>2, <1>3 DEF Boot

(* A comparison with the secret preserves it, and so does a string that is *)
(* no JWT (StaticTokenVerifier, JWTVerifier).                              *)
LEMMA OpaqueIInv == IInv /\ (VerifyStatic \/ VerifyGarbage) => IInv'
<1> SUFFICES ASSUME IInv, VerifyStatic \/ VerifyGarbage PROVE IInv'
  OBVIOUS
<1> USE DEF IInv
<1>1. /\ token' \in {Secret, Garbage} /\ token' \notin JWT
      /\ pc = "serving" /\ pc' = "serving"
      /\ answer' \in {"accepted", "refused"}
      /\ answer' = "accepted" => verifier = "static"
      /\ UNCHANGED <<bootVars, idpVars, cache>>
  BY AccessAssumption DEF VerifyStatic, VerifyGarbage, Told
<1>2. TypeOK'
  BY <1>1 DEF TypeOK, bootVars, idpVars
<1>3. CacheIsOfItsTime'
  BY <1>1 DEF CacheIsOfItsTime, idpVars
<1>4. AcceptedTokensAreCurrent' /\ RefusalsAreEarned'
  BY <1>1 DEF AcceptedTokensAreCurrent, RefusalsAreEarned, bootVars
<1> QED
  BY <1>1, <1>2, <1>3, <1>4 DEF AnswersAreMomentary, MisconfigurationExits

(* A verdict given with the keys at hand preserves the two properties      *)
(* about verdicts.                                                         *)
LEMMA ToldIInv ==
    ASSUME token' \in JWT, NEW key \in Key, PublishedLately(key),
           Kid[key] = Kid[token'.key], answer' = Decoded(token', key),
           UNCHANGED <<bootVars, idpVars>>
    PROVE  AcceptedTokensAreCurrent' /\ RefusalsAreEarned'
<1> DEFINE t == token'
<1>1. /\ Decoded(t, key) = "accepted" => Sound(t) /\ PublishedLately(t.key)
      /\ Decoded(t, key) = "refused" =>
            \/ ~Sound(t)
            \/ \E k \in Key \ {t.key} : Kid[k] = Kid[t.key] /\ PublishedLately(k)
  BY VerdictIsRight
<1>2. /\ Sound(token)' <=> Sound(t)
      /\ \A k : PublishedLately(k)' <=> PublishedLately(k)
  BY DEF Sound, Expired, Early, PublishedLately, bootVars, idpVars
<1>3. AcceptedTokensAreCurrent'
  BY <1>1, <1>2 DEF AcceptedTokensAreCurrent, PublishedLately
<1>4. RefusalsAreEarned'
  BY <1>1, <1>2 DEF RefusalsAreEarned
<1> QED
  BY <1>3, <1>4

(* A verification with the cached keys preserves the invariant.            *)
LEMMA VerifyJwtIInv == IInv /\ VerifyJwt => IInv'
<1> SUFFICES ASSUME IInv, VerifyJwt PROVE IInv'
  OBVIOUS
<1> USE DEF IInv
<1>1. /\ pc = "serving" /\ verifier = "jwt" /\ token' \in JWT
      /\ UNCHANGED <<bootVars, idpVars, cache>>
  BY DEF VerifyJwt
<1>2. CacheIsOfItsTime'
  BY <1>1 DEF CacheIsOfItsTime, idpVars
<1>3. CASE pc' \in {"fetch", "refresh"} /\ answer' = "none"
  <2>1. TypeOK'
    BY <1>1, <1>3 DEF TypeOK, bootVars, idpVars
  <2> QED
    BY <1>2, <1>3, <2>1 DEF AnswersAreMomentary, MisconfigurationExits,
       AcceptedTokensAreCurrent, RefusalsAreEarned
<1>4. CASE Fresh /\ \E key \in KeysFor(token', cache.keys) : Told(Decoded(token', key))
  <2>1. PICK key \in KeysFor(token', cache.keys) : Told(Decoded(token', key))
    BY <1>4
  <2>2. key \in Key /\ PublishedLately(key) /\ Kid[key] = Kid[token'.key]
    BY <1>4, FreshKeysArePublishedLately DEF KeysFor
  <2>3. answer' = Decoded(token', key) /\ answer' \in {"accepted", "refused"} /\ pc' = "serving"
    BY <2>1 DEF Told, Decoded
  <2>4. AcceptedTokensAreCurrent' /\ RefusalsAreEarned'
    BY <1>1, <2>2, <2>3, ToldIInv
  <2>5. TypeOK'
    BY <1>1, <2>3 DEF TypeOK, bootVars, idpVars
  <2> QED
    BY <1>2, <2>3, <2>4, <2>5 DEF AnswersAreMomentary, MisconfigurationExits
<1> QED
  BY <1>3, <1>4 DEF VerifyJwt

(* The key set's arrival preserves the invariant.                          *)
LEMMA FetchIInv == IInv /\ Fetch => IInv'
<1> SUFFICES ASSUME IInv, Fetch PROVE IInv'
  OBVIOUS
<1> USE DEF IInv
<1>1. /\ pc \in {"fetch", "refresh"} /\ verifier = "jwt" /\ token' = token /\ token \in JWT
      /\ cache' = [keys |-> published, at |-> clock]
      /\ answer = "none"
      /\ UNCHANGED <<bootVars, idpVars>>
  BY DEF Fetch, TypeOK, AnswersAreMomentary
<1>2. published \subseteq Key /\ clock \in Nat
  BY DEF TypeOK
<1>3. CacheIsOfItsTime'
  BY <1>1, <1>2 DEF CacheIsOfItsTime, idpVars
<1>4. cache' \in [keys : SUBSET Key, at : Nat]
  BY <1>1, <1>2
<1>5. CASE \E key \in KeysFor(token, published) : Told(Decoded(token, key))
  <2>1. PICK key \in KeysFor(token, published) : Told(Decoded(token, key))
    BY <1>5
  <2>2. key \in Key /\ PublishedLately(key) /\ Kid[key] = Kid[token'.key]
    BY <1>1, <1>2 DEF KeysFor, PublishedLately
  <2>3. answer' = Decoded(token', key) /\ answer' \in {"accepted", "refused"} /\ pc' = "serving"
    BY <1>1, <2>1 DEF Told, Decoded
  <2>4. AcceptedTokensAreCurrent' /\ RefusalsAreEarned'
    BY <1>1, <2>2, <2>3, ToldIInv
  <2>5. TypeOK'
    BY <1>1, <1>4, <2>3 DEF TypeOK, bootVars, idpVars
  <2> QED
    BY <1>3, <2>3, <2>4, <2>5 DEF AnswersAreMomentary, MisconfigurationExits
<1>6. CASE pc' = "refresh" /\ UNCHANGED answer
  <2>1. TypeOK'
    BY <1>1, <1>4, <1>6 DEF TypeOK, bootVars, idpVars
  <2> QED
    BY <1>1, <1>3, <1>6, <2>1 DEF AnswersAreMomentary, MisconfigurationExits,
       AcceptedTokensAreCurrent, RefusalsAreEarned
<1>7. CASE KeysFor(token, published) = {} /\ Told("refused")
  <2>1. TypeOK'
    BY <1>1, <1>4, <1>7 DEF TypeOK, bootVars, idpVars, Told
  <2>2. token'.key \notin published'
    <3>1. token.key \notin published
      BY <1>7 DEF KeysFor
    <3> QED
      BY <1>1, <3>1 DEF idpVars
  <2> QED
    BY <1>3, <1>7, <2>1, <2>2 DEF AnswersAreMomentary, MisconfigurationExits,
       AcceptedTokensAreCurrent, RefusalsAreEarned, Told
<1> QED
  BY <1>5, <1>6, <1>7 DEF Fetch

(* A fetch that fails preserves it, too. *)
LEMMA FetchFailsIInv == IInv /\ FetchFails => IInv'
<1> SUFFICES ASSUME IInv, FetchFails PROVE IInv'
  OBVIOUS
<1> USE DEF IInv
<1>1. /\ pc' = "serving" /\ answer' \in {"no_keys", "raised"} /\ cache' = NoCache
      /\ pc \in {"fetch", "refresh"} /\ UNCHANGED <<bootVars, idpVars, token>>
  BY DEF FetchFails, Told
<1>2. TypeOK'
  BY <1>1 DEF TypeOK, bootVars, idpVars
<1> QED
  BY <1>1, <1>2 DEF CacheIsOfItsTime, AnswersAreMomentary, MisconfigurationExits,
     AcceptedTokensAreCurrent, RefusalsAreEarned

(* Neither the provider nor the clock disturbs it. *)
LEMMA EnvironmentIInv == IInv /\ (Tick \/ Rotate) => IInv'
<1> SUFFICES ASSUME IInv, Tick \/ Rotate PROVE IInv'
  OBVIOUS
<1> USE DEF IInv
<1>1. /\ answer' = "none" /\ UNCHANGED <<pc, bootVars, cache>>
      /\ token' \in {token, NoToken}
      /\ pc \in {"fetch", "refresh"} => token' = token
  BY DEF Tick, Rotate, Meanwhile
<1>2. clock \in Nat /\ clock' \in Nat /\ clock' >= clock
  BY DEF Tick, Rotate, TypeOK
<1>3. withdrawn' \in [Key -> Int] /\ published' \subseteq Key /\ OneKeyPerId(published)'
  BY <1>2 DEF Tick, Rotate, TypeOK, OneKeyPerId
<1>4. TypeOK'
  BY <1>1, <1>2, <1>3 DEF TypeOK, bootVars
<1>5. ASSUME cache # NoCache, NEW k \in cache.keys
      PROVE  k \in published' \/ withdrawn'[k] >= cache.at
  <2>1. k \in Key /\ cache.at \in Nat /\ cache.at <= clock
    BY <1>5 DEF TypeOK, CacheIsOfItsTime
  <2>2. k \in published \/ withdrawn[k] >= cache.at
    BY <1>5 DEF CacheIsOfItsTime
  <2> QED
    BY <1>2, <2>1, <2>2 DEF Tick, Rotate
<1>6. CacheIsOfItsTime'
  <2>1. cache # NoCache => cache.at \in Nat
    BY DEF TypeOK
  <2> QED
    BY <1>1, <1>2, <1>5, <2>1 DEF CacheIsOfItsTime
<1> QED
  BY <1>1, <1>4, <1>6 DEF AnswersAreMomentary, MisconfigurationExits,
     AcceptedTokensAreCurrent, RefusalsAreEarned

(* Every step preserves the invariant. *)
LEMMA NextIInv == IInv /\ [Next]_vars => IInv'
<1> SUFFICES ASSUME IInv, [Next]_vars PROVE IInv'
  OBVIOUS
<1>1. CASE UNCHANGED vars
  BY <1>1 DEF vars, bootVars, idpVars, IInv, TypeOK, CacheIsOfItsTime, AnswersAreMomentary,
     MisconfigurationExits, AcceptedTokensAreCurrent, RefusalsAreEarned, Sound, Expired,
     Early, PublishedLately, OneKeyPerId
<1> QED
  BY <1>1, BootIInv, OpaqueIInv, VerifyJwtIInv, FetchIInv, FetchFailsIInv, EnvironmentIInv
     DEF Next

(* The inductive invariant holds always. *)
LEMMA SpecIInv == Spec => []IInv
  BY InitIInv, NextIInv, PTL DEF Spec

(* Every variable keeps its kind of value, and the verifier is the one the *)
(* settings ask for.                                                       *)
THEOREM TypeCorrect == Spec => []TypeOK
  BY SpecIInv, PTL DEF IInv

(* No environment gets past load_settings that select_verifier raises a    *)
(* ValueError about.                                                       *)
THEOREM MisconfiguredNeverServes == Spec => []MisconfigurationExits
  BY SpecIInv, PTL DEF IInv

(* A JWT that is let in is sound, and its key was published no longer ago  *)
(* than the cached key set may live.                                       *)
THEOREM AcceptedAreCurrent == Spec => []AcceptedTokensAreCurrent
  BY SpecIInv, PTL DEF IInv

(* A sound JWT with a published key is refused only for want of keys or    *)
(* for another key under its id.                                           *)
THEOREM RefusedAreEarned == Spec => []RefusalsAreEarned
  BY SpecIInv, PTL DEF IInv
===============================================================================
