------------------------------- MODULE Settings -------------------------------
(***************************************************************************)
(* The start of the bridge: what load_settings makes of the environment,   *)
(* what it refuses, and which verifier select_verifier builds from the     *)
(* rest.  A variable of the environment is one of a few kinds of value:    *)
(* "unset" (or empty, where the code makes no difference), "blank" (only   *)
(* spaces), and what else the code tells apart.                            *)
(***************************************************************************)
EXTENDS Integers

Env == [mode : {"unset", "blank", "jwt", "static", "other"},
        token : {"unset", "blank", "set"},
        issuer : {"unset", "blank", "set"},
        audience : {"unset", "blank", "set"},
        jwks_url : {"unset", "blank", "set"},
        algorithms : {"unset", "blank", "commas", "RS256", "ES256"},
        leeway : {"unset", "blank", "text", "-1", "1"},
        port : {"unset", "blank", "text", "8000"},
        sb_token : {"unset", "empty", "set"},
        log_level : {"unset", "blank", "known", "other"},
        debug : BOOLEAN,
        journal : BOOLEAN,
        space_path : {"unset", "unreadable", "readable"}]

DefaultLeeway == 30

\* (env.get(name) or "").strip(): is there anything in it?
Given(raw) == raw \notin {"unset", "blank", "empty"}

\* The mode's default stands for a missing value, not for a blank one.
AuthMode(env) == IF env.mode = "unset" THEN "jwt" ELSE env.mode

JwtComplete(s) == s.issuer /\ s.audience /\ s.jwks_url

(* The tokens' algorithms; a list of commas has no entry. *)
Algorithms(env) ==
    CASE ~Given(env.algorithms)       -> {"RS256"}
      [] env.algorithms = "commas"    -> {}
      [] OTHER                        -> {env.algorithms}

LeewayAsGiven(env) ==
    CASE env.leeway = "1" -> 1 [] env.leeway = "-1" -> -1 [] OTHER -> DefaultLeeway

LogLevel(env) ==
    IF Given(env.log_level) THEN env.log_level
    ELSE IF env.debug THEN "DEBUG" ELSE "INFO"

(* resolve_journal_config: asked for, and the directory can be read. *)
JournalEnabled(env) == env.journal /\ env.space_path = "readable"

(* The Settings of an environment that is not refused. *)
SettingsOf(env) ==
    [mode       |-> AuthMode(env),
     token      |-> Given(env.token),
     issuer     |-> Given(env.issuer),
     audience   |-> Given(env.audience),
     jwks_url   |-> Given(env.jwks_url),
     algorithms |-> Algorithms(env),
     leeway     |-> LeewayAsGiven(env),
     sb_token   |-> IF env.sb_token = "unset" THEN Given(env.token) ELSE Given(env.sb_token),
     log_level  |-> LogLevel(env),
     journal    |-> JournalEnabled(env)]

ExitsWithoutUrl(env) ==   \* mutant: the key set's URL is not asked for
    LET s == SettingsOf(env) IN
    \/ s.mode \notin {"jwt", "static"}
    \/ s.mode = "static" /\ ~s.token
    \/ env.leeway = "text" \/ s.leeway < 0
    \/ s.mode = "jwt" /\ ~(s.issuer /\ s.audience)
    \/ env.port \in {"blank", "text"}
    \/ env.log_level = "other"

(* load_settings ends with SystemExit. *)
Exits(env) ==
    LET s == SettingsOf(env) IN
    \/ s.mode \notin {"jwt", "static"}
    \/ s.mode = "static" /\ ~s.token
    \/ env.leeway = "text" \/ s.leeway < 0
    \/ s.mode = "jwt" /\ ~JwtComplete(s)
    \/ env.port \in {"blank", "text"}
    \/ env.log_level = "other"

SelectVerifierByToken(s) ==   \* mutant: a secret that is set decides
    CASE s.token                            -> "static"
      [] s.mode = "jwt" /\ JwtComplete(s)   -> "jwt"
      [] OTHER                              -> "ValueError"

(* select_verifier: the verifier's kind, or ValueError. *)
SelectVerifier(s) ==
    CASE s.mode = "jwt" /\ JwtComplete(s)   -> "jwt"
      [] s.mode = "static" /\ s.token       -> "static"
      [] OTHER                              -> "ValueError"
===============================================================================
