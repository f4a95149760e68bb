------------------------------- MODULE MCAccess -------------------------------
(***************************************************************************)
(* Three keys, two of them under one id, tokens of every kind, and         *)
(* environments with every combination of the settings of each mode.       *)
(***************************************************************************)
EXTENDS Access

MCKey == {"k1", "k2", "k3"}
MCKid == [k \in MCKey |-> IF k = "k3" THEN "B" ELSE "A"]

MCJWT == [key : MCKey, alg : {"RS256"}, claims : {TRUE}, nbf : {0}, exp : {1, 3}]
         \cup [key : {"k1"}, alg : {"RS256", "HS256"}, claims : BOOLEAN, nbf : {0, 2}, exp : {3}]

Usual == [mode |-> "jwt", token |-> "unset", issuer |-> "set", audience |-> "set",
          jwks_url |-> "set", algorithms |-> "unset", leeway |-> "1", port |-> "unset",
          sb_token |-> "unset", log_level |-> "unset", debug |-> FALSE,
          journal |-> FALSE, space_path |-> "unset"]

MCEnvironments ==
    {[Usual EXCEPT !.mode = m, !.token = t, !.issuer = i, !.audience = a, !.jwks_url = u] :
        m \in {"unset", "blank", "jwt", "static", "other"}, t \in {"unset", "blank"},
        i, a, u \in {"unset", "blank", "set"}}
    \cup {[Usual EXCEPT !.algorithms = a, !.leeway = s] :
        a \in {"unset", "blank", "ES256"}, s \in {"text", "-1", "1"}}
    \cup {[Usual EXCEPT !.leeway = "unset"], [Usual EXCEPT !.token = "set", !.algorithms = "commas"]}
    \cup {[Usual EXCEPT !.mode = "static", !.token = "set", !.port = p,
                        !.log_level = l, !.debug = d] :
        p \in {"unset", "blank", "text", "8000"},
        l \in {"unset", "blank", "known", "other"}, d \in BOOLEAN}
    \cup {[Usual EXCEPT !.mode = "static", !.token = "set", !.sb_token = b,
                        !.journal = j, !.space_path = s] :
        b \in {"empty", "set"}, j \in BOOLEAN, s \in {"unset", "unreadable", "readable"}}
===============================================================================
