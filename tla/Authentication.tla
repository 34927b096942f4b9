---------------------------- MODULE Authentication ----------------------------
(***************************************************************************)
(* authenticate (core/src/capabilities/auth.ts) with API keys and JSON web *)
(* tokens (jwt-auth.ts) for one source: every attempt spends a token of a  *)
(* bucket in memory, an attempt that succeeds clears the bucket.           *)
(***************************************************************************)
EXTENDS RateLimiter, Sequences

CONSTANTS
  Keys,      \* the credentials: key -> <<expiry>> or <<>>
  Jwts,      \* the tokens that are about: [alg, key, exp, nbf, iss, aud], how it says it
             \* is signed, with what key it was, and its claims
  Config,    \* [secret, publicKey, issuer, audience], each <<value>> or <<>>
  Tolerance, MaxTime   \* clockToleranceSeconds; a bound of the clock

\* The secret is not the public key.
AuthAssumption ==
  /\ Tolerance \in Nat
  /\ \A t \in Jwts : t.exp \in Seq(Int) /\ t.nbf \in Seq(Int)
  /\ Config.publicKey # <<>> => Config.secret # <<Config.publicKey[1].key>>

VARIABLES
  now,
  asked,    \* the last attempt and whether it was let in
  failures, since   \* the attempts that were judged and refused after the last
                    \* success, and the ticks since then
authVars == <<vars, now, asked, failures, since>>

\* A mistaken check: whichever algorithm the token names, with the key there is.
SignedByAny(t) == \/ Config.secret = <<t.key>>
                  \/ Config.publicKey # <<>> /\ Config.publicKey[1].key = t.key

\* HS256 with the secret; EdDSA and RS256 with the public key, of whose kind the
\* signature must be: a key of another kind makes the verification fail.
Signed(t) ==
  \/ t.alg = "HS256" /\ Config.secret = <<t.key>>
  \/ t.alg \in {"EdDSA", "RS256"} /\ Config.publicKey = <<[alg |-> t.alg, key |-> t.key]>>

InTime(t) ==
  /\ \A e \in {t.exp[i] : i \in DOMAIN t.exp} : now - Tolerance < e
  /\ \A n \in {t.nbf[i] : i \in DOMAIN t.nbf} : now + Tolerance >= n

ValidJwt(t) ==
  /\ Signed(t) /\ InTime(t)
  /\ Config.issuer \in {<<>>, <<t.iss>>}
  /\ Config.audience = <<>> \/ \E a \in t.aud : Config.audience = <<a>>

ValidKey(k) == k \in DOMAIN Keys /\ (Keys[k] = <<>> \/ Keys[k][1] >= now)

\* No API key at all, a key, or a token of three parts.
Attempts == {[jwt |-> FALSE, of |-> k] : k \in DOMAIN Keys \cup {"none", "unknown"}}
              \cup {[jwt |-> TRUE, of |-> t] : t \in Jwts}
Valid(a) == IF a.jwt THEN ValidJwt(a.of) ELSE ValidKey(a.of)

AuthInit ==
  /\ Init
  /\ now = 0 /\ failures = 0 /\ since = 0
  /\ asked = [ok |-> FALSE, jwt |-> FALSE, of |-> "none"]

\* Too many attempts, or the attempt is judged; a success clears the bucket.
Authenticate(a) ==
  /\ Consume(0, Valid(a))
  /\ asked' = [ok |-> last' = "reset", jwt |-> a.jwt, of |-> a.of]
  /\ failures' = IF last' = "reset" THEN 0 ELSE IF last' = "granted" THEN failures + 1 ELSE failures
  /\ since' = IF last' = "reset" THEN 0 ELSE since
  /\ UNCHANGED now

AuthTick ==
  /\ now < MaxTime /\ now' = now + 1
  /\ Tick /\ since' = since + 1
  /\ UNCHANGED <<asked, failures>>

AuthNext == AuthTick \/ \E a \in Attempts : Authenticate(a)

-----------------------------------------------------------------------------
(* Properties *)

\* After a success, and from the start, a source that does not know a credential has
\* maxTokens attempts judged and then one per refill; what it sends does not matter.
FailuresAreCounted == failures * Unit <= MaxTokens * Unit + since * RateNum

\* Who is let in by a token had it from the holder of the secret or of the private
\* key: a token that was made with the public key, taken for a secret, is refused; and
\* not when it had outlived itself by the tolerance.
LetInWasEntitled ==
  [][asked'.ok /\ asked'.jwt =>
       /\ asked'.of.alg = "HS256" <=> Config.secret = <<asked'.of.key>>
       /\ asked'.of.alg # "none"
       /\ \A i \in DOMAIN asked'.of.exp : now < asked'.of.exp[i] + Tolerance]_<<asked, failures>>
=================================================================================
