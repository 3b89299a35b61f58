--------------------------- MODULE Authentication ---------------------------
(***************************************************************************)
(* Credentials of a request and the adapters that check them: HS256 tokens *)
(* and HMAC request signatures (core/src/auth.rs), the Actix middleware    *)
(* (rest/src/auth.rs, which has a decoder of its own) and the tonic        *)
(* interceptors (rpc/src/auth.rs).  One credential is presented, again and *)
(* again, to an HTTP and to a gRPC service that share their keys, while    *)
(* the clock runs and the keys are rotated: first the services accept the  *)
(* new key beside the old one, then the issuer uses it, and when no old    *)
(* credential is alive any more the services drop the old key.  A header   *)
(* value is the sequence of its words; a signature names the key it was    *)
(* made with and what it covers.                                           *)
(***************************************************************************)
EXTENDS Integers, Sequences, FiniteSets

CONSTANTS
  Leeway,     \* JwtAuth::with_leeway
  MaxSkew,    \* RequestSignatureVerifier::max_clock_skew
  Drift,      \* bound: how far the issuer's clock may be from the services'
  Life,       \* how long a token is issued for
  MaxClock    \* bound: the services' clock

VARIABLES
  kind,       \* "jwt", "signature" or "bearer": which adapters are installed
  clock,      \* the services' clock in seconds
  stage,      \* of the rotation: 0..3
  keys,       \* keys the services accept, the current one first
  issuer,     \* the key credentials are issued with
  credential, \* the header words a client holds
  genuine,    \* history: it came from the issuer and was not altered
  http, grpc  \* the request at each service: where it is and what it has

vars == <<kind, clock, stage, keys, issuer, credential, genuine, http, grpc>>

None == {}
Some(v) == {v}
Waiting == [at |-> "idle", verdict |-> "", claims |-> None, projected |-> None]

-----------------------------------------------------------------------------
(* header values                                                           *)

\* split at the first whitespace, trim: two words, the scheme in any case
bearer_token(words) ==
  IF Len(words) = 2 /\ words[1] \in {"Bearer", "bearer"} THEN Some(words[2]) ELSE None

-----------------------------------------------------------------------------
(* tokens                                                                  *)

Token(key, claims) == [segments |-> 3, alg |-> "HS256", key |-> key, text |-> TRUE, claims |-> claims]

new_auth(secret) == <<secret>>

\* Fault: the previous secret takes the current one's place.
replace_secret(secrets, secret) == <<secret>>

with_previous_secret(secrets, secret) == Append(secrets, secret)

\* encode_hs256, encode_jwt_hs256: from now, for Life seconds
encode_hs256(key, now) == Token(key, [json |-> "typed", exp |-> Some(now + Life), nbf |-> Some(now)])

verifies(t, secrets) == \E s \in 1..Len(secrets) : secrets[s] = t.key
expired(t, now) == \E e \in t.claims.exp : now > e + Leeway
early(t, now) == \E n \in t.claims.nbf : now + Leeway < n

\* Fault: the claims are looked at before the signature.
decode_claims_first(t, secrets, now) ==
  CASE t.segments # 3 -> "Malformed"
    [] t.alg # "HS256" -> "UnsupportedAlgorithm"
    [] t.claims.json = "no" -> "InvalidClaims"
    [] expired(t, now) -> "Expired"
    [] ~verifies(t, secrets) -> "InvalidSignature"
    [] early(t, now) -> "NotYetValid"
    [] OTHER -> "ok"

\* rest/src/auth.rs; "ok" as a JSON value, "typed" is what T deserializes from
decode_hs256(t, secrets, now) ==
  CASE t.segments # 3 -> "Malformed"
    [] t.alg = "no" -> "Malformed"
    [] t.alg # "HS256" -> "UnsupportedAlgorithm"
    [] ~t.text -> "Malformed"
    [] ~verifies(t, secrets) -> "InvalidSignature"
    [] t.claims.json = "no" -> "InvalidClaims"
    [] expired(t, now) -> "Expired"
    [] early(t, now) -> "NotYetValid"
    [] OTHER -> "ok"

\* core/src/auth.rs, for gRPC
decode_jwt_hs256(t, secrets, now) ==
  IF t.segments # 3 \/ t.alg = "no" THEN "Malformed"
  ELSE IF t.alg # "HS256" THEN "UnsupportedAlgorithm"
  ELSE IF ~t.text THEN "Malformed"
  ELSE IF ~verifies(t, secrets) THEN "InvalidSignature"
  ELSE IF t.claims.json = "no" THEN "InvalidClaims"
  ELSE IF expired(t, now) THEN "Expired"
  ELSE IF early(t, now) THEN "NotYetValid"
  ELSE "ok"

Typed(t, outcome) == IF outcome = "ok" /\ t.claims.json # "typed" THEN "InvalidClaims" ELSE outcome

\* impl From<JwtError> for AuthFailure, in rest/src/auth.rs
JwtFailure(outcome) ==
  CASE outcome \in {"Malformed", "UnsupportedAlgorithm", "InvalidClaims"} -> "MalformedCredentials"
    [] outcome = "InvalidSignature" -> "InvalidCredentials"
    [] outcome = "Expired" -> "ExpiredCredentials"
    [] OTHER -> outcome
\* impl From<JwtValidationError> for AuthFailure, in core/src/auth.rs
AuthFailure(outcome) ==
  CASE outcome \in {"Malformed", "UnsupportedAlgorithm", "InvalidClaims"} -> "MalformedCredentials"
    [] outcome = "InvalidSignature" -> "InvalidCredentials"
    [] outcome = "Expired" -> "ExpiredCredentials"
    [] outcome \in {"NotYetValid", "ok"} -> outcome

\* JwtClaimProjection::project: the named fields the claims have
project(t) == Some(t.claims.exp)

-----------------------------------------------------------------------------
(* signatures                                                              *)

canonical(timestamp, target) == <<timestamp, "POST", target>>
sign_request(key, now, target) ==
  [key_id |-> key, timestamp |-> now, over |-> canonical(now, target), key |-> key]
abs_diff(a, b) == IF a > b THEN a - b ELSE b - a

verify(s, target, now) ==
  CASE abs_diff(now, s.timestamp) > MaxSkew -> "StaleSignature"
    [] ~\E k \in 1..Len(keys) : keys[k] = s.key_id -> "InvalidSignature"
    [] s.key # s.key_id \/ s.over # canonical(s.timestamp, target) -> "InvalidSignature"
    [] OTHER -> "ok"

\* parse_signature in rest/src/auth.rs: three headers, the second a number
parse_signature(words) ==
  CASE Len(words) # 3 -> "MissingSignature"
    [] words[2] = "nan" -> "InvalidSignature"
    [] OTHER -> "ok"
\* parse_signature in rpc/src/auth.rs
parse_metadata(words) ==
  IF Len(words) # 3 THEN "MissingSignature"
  ELSE IF words[2] = "nan" THEN "InvalidSignature" ELSE "ok"

-----------------------------------------------------------------------------
(* the adapters                                                            *)

Presented == CHOOSE t \in bearer_token(credential) : TRUE

http_jwt ==
  IF bearer_token(credential) = None THEN "MissingCredentials"
  ELSE JwtFailure(Typed(Presented, decode_hs256(Presented, keys, clock)))
grpc_jwt ==
  IF bearer_token(credential) = None THEN "MissingCredentials"
  ELSE AuthFailure(Typed(Presented, decode_jwt_hs256(Presented, keys, clock)))

\* BearerAuth and RpcBearerAuth: a validator of the application's own
validator(t) == t.key = "k1"
http_bearer == IF \E t \in bearer_token(credential) : validator(t) THEN "ok" ELSE "InvalidCredentials"
grpc_bearer ==
  IF \A t \in bearer_token(credential) : ~validator(t) THEN "InvalidCredentials" ELSE "ok"

http_signature ==
  LET parsed == parse_signature(credential) IN
  IF parsed # "ok" THEN parsed ELSE verify(credential[3], "/s/m", clock)
grpc_signature ==
  LET parsed == parse_metadata(credential) IN
  IF parsed # "ok" THEN parsed ELSE verify(credential[3], "/s/m", clock)

http_verdict ==
  CASE kind = "jwt" -> http_jwt [] kind = "signature" -> http_signature [] kind = "bearer" -> http_bearer
grpc_verdict ==
  CASE kind = "jwt" -> grpc_jwt [] kind = "signature" -> grpc_signature [] kind = "bearer" -> grpc_bearer

\* The credential is presented to both services in the same second.
Present ==
  /\ http.at = "idle" /\ grpc.at = "idle" /\ credential # <<>>
  /\ LET Begun(v) ==
           [Waiting EXCEPT !.verdict = v,
                           !.at = IF v = "ok" /\ kind = "jwt" THEN "project" ELSE "done",
                           !.claims = IF v = "ok" /\ kind = "jwt" THEN project(Presented) ELSE None] IN
     http' = Begun(http_verdict) /\ grpc' = Begun(grpc_verdict)
  /\ UNCHANGED <<kind, clock, stage, keys, issuer, credential, genuine>>

\* Fault: only the current secret is tried the second time.
http_project_current ==
  /\ http.at = "project"
  /\ http' = [http EXCEPT !.at = "done",
                          !.projected = IF decode_hs256(Presented, SubSeq(keys, 1, 1), clock) = "ok"
                                        THEN project(Presented) ELSE None]
  /\ UNCHANGED <<kind, clock, stage, keys, issuer, credential, genuine, grpc>>

\* The token is decoded again, at a later reading of the clock, to project it.
http_project ==
  /\ http.at = "project"
  /\ http' = [http EXCEPT !.at = "done",
                          !.projected = IF decode_hs256(Presented, keys, clock) = "ok"
                                        THEN project(Presented) ELSE None]
  /\ UNCHANGED <<kind, clock, stage, keys, issuer, credential, genuine, grpc>>
grpc_project ==
  /\ grpc.at = "project"
  /\ grpc' = [grpc EXCEPT !.at = "done",
                          !.projected = IF decode_jwt_hs256(Presented, keys, clock) = "ok"
                                        THEN project(Presented) ELSE None]
  /\ UNCHANGED <<kind, clock, stage, keys, issuer, credential, genuine, http>>

Done ==
  /\ http.at = "done" /\ grpc.at = "done"
  /\ http' = Waiting /\ grpc' = Waiting
  /\ UNCHANGED <<kind, clock, stage, keys, issuer, credential, genuine>>

-----------------------------------------------------------------------------
(* the client, the clock and the rotation                                  *)

Issued(now) ==
  IF kind = "signature"
  THEN LET s == sign_request(issuer, now, "/s/m") IN <<s.key_id, "number", s>>
  ELSE <<"Bearer", encode_hs256(issuer, now)>>

Issue ==
  /\ http.at = "idle"
  /\ \E d \in -Drift..Drift :
       /\ clock + d >= 0 /\ credential' = Issued(clock + d) /\ genuine' = TRUE
  /\ UNCHANGED <<kind, clock, stage, keys, issuer, http, grpc>>

\* A credential that is not as issued: a header, a segment or a field differs.
Damaged ==
  IF kind = "signature"
  THEN {<<credential[1]>>, <<credential[1], "nan", credential[3]>>}
       \cup {<<credential[1], "number", [credential[3] EXCEPT !.key = "other"]>>}
  ELSE {<<"Bearer">>, <<"Basic", credential[2]>>, <<"Bearer", credential[2], credential[2]>>}
       \cup {<<"bearer", t>> : t \in
              {[credential[2] EXCEPT !.segments = 2], [credential[2] EXCEPT !.alg = "no"],
               [credential[2] EXCEPT !.alg = "none"], [credential[2] EXCEPT !.text = FALSE],
               [credential[2] EXCEPT !.key = "other"], [credential[2] EXCEPT !.claims.json = "no"],
               [credential[2] EXCEPT !.claims.json = "value"]}}
Damage ==
  /\ http.at = "idle" /\ genuine
  /\ credential' \in Damaged /\ genuine' = FALSE
  /\ UNCHANGED <<kind, clock, stage, keys, issuer, http, grpc>>

Tick ==
  /\ clock < MaxClock /\ clock' = clock + 1
  /\ UNCHANGED <<kind, stage, keys, issuer, credential, genuine, http, grpc>>

Alive ==
  /\ genuine
  /\ IF kind = "signature" THEN clock <= credential[3].timestamp + MaxSkew
     ELSE ~expired(credential[2], clock)
OldAlive == Alive /\ credential[IF kind = "signature" THEN 3 ELSE 2].key = "k1"

Rotate ==
  /\ kind # "bearer" /\ http.at = "idle" /\ grpc.at = "idle" /\ stage < 3 /\ stage' = stage + 1
  /\ CASE stage = 0 -> keys' = with_previous_secret(new_auth("k2"), "k1") /\ UNCHANGED issuer
       [] stage = 1 -> issuer' = "k2" /\ UNCHANGED keys
       [] stage = 2 -> ~OldAlive /\ keys' = new_auth("k2") /\ UNCHANGED issuer
  /\ UNCHANGED <<kind, clock, credential, genuine, http, grpc>>

-----------------------------------------------------------------------------
Init ==
  /\ kind \in {"jwt", "signature", "bearer"} /\ clock = 0 /\ stage = 0
  /\ keys = new_auth("k1") /\ issuer = "k1" /\ credential = <<>> /\ genuine = FALSE
  /\ http = Waiting /\ grpc = Waiting

Next == Present \/ http_project \/ grpc_project \/ Done \/ Issue \/ Damage \/ Tick \/ Rotate
Spec == Init /\ [][Next]_vars

-----------------------------------------------------------------------------
Verdicts ==
  {"", "ok", "MissingCredentials", "MalformedCredentials", "InvalidCredentials",
   "ExpiredCredentials", "NotYetValid", "MissingSignature", "InvalidSignature", "StaleSignature"}
TypeOK ==
  /\ clock \in 0..MaxClock /\ stage \in 0..3 /\ genuine \in BOOLEAN
  /\ \A s \in {http, grpc} : s.at \in {"idle", "project", "done"} /\ s.verdict \in Verdicts

\* Rotating keys in that order is invisible: a credential as issued, presented
\* in its time by the services' clock, is accepted at every stage.
RotationSeamless ==
  (kind # "bearer" /\ genuine /\ Alive /\ http.at = "idle" /\ Drift <= Leeway /\ Drift <= MaxSkew)
    => http_verdict = "ok" /\ grpc_verdict = "ok"

\* The two decoders and adapters were written twice; presented with the same
\* credential in the same second they give the same verdict.
AdaptersAgree == http.verdict = grpc.verdict

\* A handler that sees the claims sees their projection too, unless the token
\* expired between the two times the adapter decoded it.
ProjectionAgrees ==
  \A s \in {http, grpc} :
    (s.at = "done" /\ s.claims # None /\ s.projected # s.claims) => expired(Presented, clock)
=============================================================================
