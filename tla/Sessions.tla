------------------------------- MODULE Sessions -------------------------------
(***************************************************************************)
(* Who gets past the authentication of /api/v1: OidcAuthenticator checks   *)
(* the token by the clock of the API, with a tolerance, SessionService     *)
(* looks for a revocation by the clock of PostgreSQL, and the maintenance  *)
(* deletes revocations of tokens that have expired.                        *)
(***************************************************************************)
EXTENDS Integers

CONSTANTS
  Tokens,    \* access tokens, told apart by jti
  IssuedAt,  \* the claim iat
  Expires,   \* the claim exp
  Requests,  \* HTTP requests
  TokenOf,   \* TokenOf[r]
  Tolerance, \* clockTolerance, 5 seconds
  MaxAge,    \* maxTokenAgeSeconds
  Skews      \* how far the clock of the API may be from that of PostgreSQL

SessionAssumption ==
  /\ IssuedAt \in [Tokens -> Int] /\ Expires \in [Tokens -> Int]
  /\ TokenOf \in [Requests -> Tokens]

VARIABLES
  now,     \* the clock of PostgreSQL
  skew,    \* how far the clock of the API is ahead of it
  gate,    \* how far a request has come
  revoked, \* tokens with a row in revoked_sessions
  ever     \* tokens whose revocation has committed

vars == <<now, skew, gate, revoked, ever>>

Gates == {"idle", "verified", "admitted", "unauthorized", "revoked"}

Init ==
  /\ now = 0 /\ skew \in Skews
  /\ gate = [r \in Requests |-> "idle"]
  /\ revoked = {} /\ ever = {}

Tick == now' = now + 1 /\ UNCHANGED <<skew, gate, revoked, ever>>

\* jwtVerify, by the clock of the API.
Valid(t) ==
  LET clock == now + skew
  IN  /\ Expires[t] > clock - Tolerance
      /\ clock - IssuedAt[t] <= MaxAge + Tolerance
      /\ IssuedAt[t] <= clock + Tolerance

Pass(r, from, to) == gate[r] = from /\ gate' = [gate EXCEPT ![r] = to]

Verify(r) ==
  /\ Valid(TokenOf[r])
  /\ Pass(r, "idle", "verified")
  /\ UNCHANGED <<now, skew, revoked, ever>>

\* expires_at > now()
Standing(t) == t \in revoked /\ Expires[t] > now

\* assertActive
AssertActive(r) ==
  /\ ~ Standing(TokenOf[r])
  /\ Pass(r, "verified", "admitted")
  /\ UNCHANGED <<now, skew, revoked, ever>>

\* A token that is not valid, claims that are refused, keys that cannot be
\* fetched, or a standing revocation.
Refuse(r) ==
  /\ Pass(r, "idle", "unauthorized") \/ Pass(r, "verified", "unauthorized")
  /\ UNCHANGED <<now, skew, revoked, ever>>

\* revokeCurrent: ON CONFLICT DO NOTHING
Revoke(r) ==
  /\ Pass(r, "admitted", "revoked")
  /\ revoked' = revoked \cup {TokenOf[r]}
  /\ ever' = ever \cup {TokenOf[r]}
  /\ UNCHANGED <<now, skew>>

\* Mutant of Prunable: revocations are deleted when the token is too old.
PrunableByAge(t) == IssuedAt[t] + MaxAge < now

\* expires_at < clock_timestamp()
Prunable(t) == Expires[t] < now

Prune(t) ==
  /\ t \in revoked /\ Prunable(t)
  /\ revoked' = revoked \ {t}
  /\ UNCHANGED <<now, skew, gate, ever>>

Next ==
  \/ Tick
  \/ \E r \in Requests : Verify(r) \/ AssertActive(r) \/ Refuse(r) \/ Revoke(r)
  \/ \E t \in Tokens : Prune(t)

Spec == Init /\ [][Next]_vars

-------------------------------------------------------------------------------
(* Properties.                                                             *)

TypeOK ==
  /\ now \in Nat /\ skew \in Skews
  /\ gate \in [Requests -> Gates]
  /\ revoked \in SUBSET Tokens /\ ever \in SUBSET Tokens

\* Once its revocation has committed a token opens nothing any more before it
\* expires by the clock of the database, whatever maintenance has deleted; but
\* in the tolerance after that it may.
RevocationHolds ==
  [][\A r \in Requests :
       gate[r] # "admitted" /\ gate'[r] = "admitted"
       => TokenOf[r] \notin ever \/ Expires[TokenOf[r]] <= now]_vars

\* A request that was told of a revocation has made it, and a revocation that is
\* not there any more is of an expired token: with TypeOK the inductive invariant
\* behind RevocationHolds, and behind AcceptedIsStored of ApiServer
\* (ApiServerProofs).
RevokedForGood ==
  /\ \A r \in Requests : gate[r] = "revoked" => TokenOf[r] \in ever
  /\ \A t \in ever \ revoked : Expires[t] < now

IInv == TypeOK /\ RevokedForGood
===============================================================================
