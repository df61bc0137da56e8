----------------------------- MODULE JwksCache -----------------------------
(***************************************************************************)
(* KeycloakAuthService.extract_user_info called by several threads on one  *)
(* service object (keycloak.py 201-382).  The threads share one JWKS cache *)
(* -- two attributes, the body and the time it was loaded -- and no lock.  *)
(*                                                                         *)
(* A step of a thread ends where the next one would read or write a shared *)
(* attribute, read the clock or wait for Keycloak; everything in between   *)
(* is local to the call.  Keycloak, its published keys and the time are    *)
(* the environment.                                                        *)
(***************************************************************************)
EXTENDS Integers

CONSTANTS
  Threads,         \* threads that validate tokens
  Kids,            \* key ids a JWKS or a token header may carry
  Keys,            \* signing keys, published or not
  RsaKeys,         \* those a JWK of which RSAAlgorithm.from_jwk accepts
  AllowedAlgs,     \* the constructor's allowed_algorithms
  VerificationKey, \* the constructor's verification_key, or NoKey
  Offered,         \* the tokens callers present
  TTL,             \* jwks_cache_ttl_seconds
  Garbled,         \* whether the member "keys" of an answer may be no list
  MaxLatency,      \* bound on the time from a JWKS answer to its time stamp
  MaxTime,         \* bound of the model on the clock
  NoKey, NoKid, NoTime, NoToken, NoJwks, Malformed

MaybeKey == Keys \cup {NoKey}
KeySets  == [Kids -> MaybeKey]
Algs     == {"RS256", "HS256", "ES256"}

ASSUME ConfigAssumption ==
  /\ TTL \in Nat
  /\ MaxLatency \in Nat
  /\ MaxTime \in Nat
  /\ Garbled \in BOOLEAN
  /\ AllowedAlgs \subseteq Algs
  /\ RsaKeys \subseteq Keys
  /\ VerificationKey \in MaybeKey

(* What a header and a signature tell the code about a token.              *)
Tokens == [alg : Algs, kid : Kids \cup {NoKid}, key : Keys]

ASSUME OfferedAssumption == Offered \subseteq Tokens

(* A JSON object Keycloak answered with: its keys by id, or Malformed when *)
(* the member "keys" is not a list.  servedAt, when it was answered, is    *)
(* known to the properties only.                                           *)
Jwks == [keys : KeySets \cup {Malformed}, servedAt : Nat]

ASSUME NullAssumption ==
  /\ NoKey \notin Keys
  /\ NoKid \notin Kids
  /\ NoTime \notin Nat
  /\ Malformed \notin KeySets
  /\ NoToken \notin Tokens
  /\ NoJwks \notin Jwks

PCs == {"idle", "consult", "compare", "take", "request", "store", "stamp",
        "judge", "done"}

Verdicts == {"none", "accepted", "header", "load", "temporary", "invalid jwks",
             "unknown kid", "bad key", "signature", "claims"}

VARIABLES
  now,         \* the clock current_time() reads
  published,   \* Keycloak's current signing key under each kid
  withdrawnAt, \* when Keycloak stopped publishing a key under a kid
  cache,       \* _jwks_cache
  loadedAt,    \* _jwks_cache_loaded_at
  pc,          \* where each thread is in the call
  token,       \* the token each thread validates
  asked,       \* the clock reading each thread made in _get_jwks
  forced,      \* whether the thread's load is the forced refresh
  jwks,        \* the body _get_jwks returns to the thread
  verdict,     \* how the call ended
  steady       \* the token's key stayed published since the call began

environment == <<now, published, withdrawnAt>>
shared      == <<cache, loadedAt>>
locals      == <<token, asked, forced, jwks, verdict, steady>>
vars        == <<environment, shared, pc, locals>>

Init ==
  /\ now = 0
  /\ published \in KeySets
  /\ withdrawnAt = [kid \in Kids |-> [k \in Keys |-> NoTime]]
  /\ cache = NoJwks
  /\ loadedAt = NoTime
  /\ pc = [t \in Threads |-> "idle"]
  /\ token = [t \in Threads |-> NoToken]
  /\ asked = [t \in Threads |-> 0]
  /\ forced = [t \in Threads |-> FALSE]
  /\ jwks = [t \in Threads |-> NoJwks]
  /\ verdict = [t \in Threads |-> "none"]
  /\ steady = [t \in Threads |-> FALSE]

(***************************************************************************)
(* The environment.                                                        *)
(***************************************************************************)

(* A load may not take longer than MaxLatency from the answer to the time  *)
(* stamp: the request timeout and a scheduler that does not park a thread. *)
Loading(t) == pc[t] \in {"store", "stamp"}

Tick ==
  /\ now < MaxTime
  /\ \A t \in Threads : Loading(t) => now < jwks[t].servedAt + MaxLatency
  /\ now' = now + 1
  /\ UNCHANGED <<published, withdrawnAt, shared, pc, locals>>

(* Keycloak adds a key, replaces the key of a kid, or withdraws it.  It    *)
(* never publishes again under a kid a key it withdrew from it.            *)
Rotate(kid, k) ==
  /\ k # published[kid]
  /\ k \in Keys => withdrawnAt[kid][k] = NoTime
  /\ published' = [published EXCEPT ![kid] = k]
  /\ withdrawnAt' = IF published[kid] = NoKey THEN withdrawnAt
                    ELSE [withdrawnAt EXCEPT ![kid][published[kid]] = now]
  /\ steady' = [t \in Threads |->
                  steady[t] /\ published'[token[t].kid] = token[t].key]
  /\ UNCHANGED <<now, shared, pc, token, asked, forced, jwks, verdict>>

(***************************************************************************)
(* A call.                                                                 *)
(***************************************************************************)

Goto(t, label) == pc' = [pc EXCEPT ![t] = label]

(* The call returns or raises with this outcome, and the body it used is   *)
(* gone with its frame.                                                    *)
End(t, outcome) ==
  /\ Goto(t, "done")
  /\ verdict' = [verdict EXCEPT ![t] = outcome]
  /\ jwks' = [jwks EXCEPT ![t] = NoJwks]

(* The header names no algorithm this service accepts, or no key to look   *)
(* for.                                                                    *)
HeaderRejected(tok) ==
  \/ tok.alg \notin AllowedAlgs \cap {"HS256", "RS256"}
  \/ tok.alg = "HS256" /\ VerificationKey = NoKey
  \/ tok.alg = "RS256" /\ tok.kid = NoKid

(* The claims of a token with a good signature may still be refused: its   *)
(* audience, issuer, expiry, a missing claim or subject.                   *)
SignedOutcomes == {"accepted", "claims"}

StartCall(t, tok) ==
  /\ pc[t] = "idle"
  /\ token' = [token EXCEPT ![t] = tok]
  /\ steady' = [steady EXCEPT ![t] = tok.kid \in Kids /\ published[tok.kid] = tok.key]
  /\ UNCHANGED <<environment, shared, asked, forced>>

BeginRejected(t, tok) ==
  /\ HeaderRejected(tok)
  /\ StartCall(t, tok)
  /\ End(t, "header")

BeginHS256(t, tok) ==
  /\ ~ HeaderRejected(tok) /\ tok.alg = "HS256"
  /\ StartCall(t, tok)
  /\ IF tok.key = VerificationKey THEN \E o \in SignedOutcomes : End(t, o)
                                  ELSE End(t, "signature")

BeginRS256(t, tok) ==
  /\ ~ HeaderRejected(tok) /\ tok.alg = "RS256"
  /\ StartCall(t, tok)
  /\ Goto(t, "consult")
  /\ UNCHANGED <<jwks, verdict>>

(* _get_jwks up to its reading of the clock.                               *)
ConsultCache(t) ==
  /\ pc[t] = "consult"
  /\ asked' = [asked EXCEPT ![t] = now]
  /\ Goto(t, IF cache = NoJwks THEN "request"
             ELSE IF loadedAt = NoTime \/ TTL = 0 THEN "take"
             ELSE "compare")
  /\ UNCHANGED <<environment, shared, token, forced, jwks, verdict, steady>>

(* Slip: the age is still good when it equals the TTL.                     *)
CompareAgeInclusive(t) ==
  /\ pc[t] = "compare"
  /\ Goto(t, IF asked[t] - loadedAt <= TTL THEN "take" ELSE "request")
  /\ UNCHANGED <<environment, shared, locals>>

(* ... - self._jwks_cache_loaded_at < ttl_seconds                          *)
CompareAge(t) ==
  /\ pc[t] = "compare"
  /\ Goto(t, IF asked[t] - loadedAt < TTL THEN "take" ELSE "request")
  /\ UNCHANGED <<environment, shared, locals>>

(* Slip: using the cache renews it.                                        *)
TakeCachedSliding(t) ==
  /\ pc[t] = "take"
  /\ jwks' = [jwks EXCEPT ![t] = cache]
  /\ loadedAt' = now
  /\ Goto(t, "judge")
  /\ UNCHANGED <<environment, cache, token, asked, forced, verdict, steady>>

(* return self._jwks_cache, which another thread may have replaced since.  *)
TakeCached(t) ==
  /\ pc[t] = "take"
  /\ jwks' = [jwks EXCEPT ![t] = cache]
  /\ Goto(t, "judge")
  /\ UNCHANGED <<environment, shared, token, asked, forced, verdict, steady>>

(* Keycloak answers the GET with a JSON object.                            *)
Serve(t, keys) ==
  /\ pc[t] = "request"
  /\ jwks' = [jwks EXCEPT ![t] = [keys |-> keys, servedAt |-> now]]
  /\ Goto(t, "store")
  /\ UNCHANGED <<environment, shared, token, asked, forced, verdict, steady>>

(* It answers with an error status or no JSON object ("load"), or the      *)
(* request fails below HTTP and the client's exception ends the call.      *)
FailLoad(t) ==
  /\ pc[t] = "request"
  /\ \E o \in {"load", "temporary"} : End(t, o)
  /\ UNCHANGED <<environment, shared, token, asked, forced, steady>>

StoreCache(t) ==
  /\ pc[t] = "store"
  /\ cache' = jwks[t]
  /\ Goto(t, "stamp")
  /\ UNCHANGED <<environment, loadedAt, locals>>

(* Slips: the stamp is the time of expiry, or is never set.                *)
StampExpiry(t) ==
  /\ pc[t] = "stamp"
  /\ loadedAt' = now + TTL
  /\ Goto(t, "judge")
  /\ UNCHANGED <<environment, cache, locals>>

StampNothing(t) ==
  /\ pc[t] = "stamp"
  /\ Goto(t, "judge")
  /\ UNCHANGED <<environment, shared, locals>>

StampLoadedAt(t) ==
  /\ pc[t] = "stamp"
  /\ loadedAt' = now
  /\ Goto(t, "judge")
  /\ UNCHANGED <<environment, cache, locals>>

(* _find_jwk and _build_public_key_from_jwk: why the body yields no key.   *)
LookupErrors(body, kid) ==
  IF body.keys = Malformed THEN {"invalid jwks"}
  ELSE IF body.keys[kid] = NoKey THEN {"unknown kid"}
  ELSE IF body.keys[kid] \notin RsaKeys THEN {"bad key"}
  ELSE {}

Found(t)  == LookupErrors(jwks[t], token[t].kid) = {}
Signed(t) == jwks[t].keys[token[t].kid] = token[t].key

RejectLookup(t) ==
  /\ pc[t] = "judge"
  /\ \E o \in LookupErrors(jwks[t], token[t].kid) : End(t, o)
  /\ UNCHANGED <<environment, shared, token, asked, forced, steady>>

(* Slip: the body that verified the signature is put back into the cache.  *)
JudgeClaimsAndKeep(t) ==
  /\ pc[t] = "judge" /\ Found(t) /\ Signed(t)
  /\ \E o \in SignedOutcomes : End(t, o)
  /\ cache' = jwks[t]
  /\ UNCHANGED <<environment, loadedAt, token, asked, forced, steady>>

JudgeClaims(t) ==
  /\ pc[t] = "judge" /\ Found(t) /\ Signed(t)
  /\ \E o \in SignedOutcomes : End(t, o)
  /\ UNCHANGED <<environment, shared, token, asked, forced, steady>>

(* Slips: only an outdated cache is reloaded, or it is reloaded each time.  *)
MayRefreshStale(t) ==
  ~ forced[t] /\ cache # NoJwks /\ loadedAt # NoTime /\ now - loadedAt >= TTL
MayRefreshAgain(t) == cache # NoJwks

(* The signature does not verify: reload the JWKS once, whatever its age.  *)
MayRefresh(t) == ~ forced[t] /\ cache # NoJwks

ForceRefresh(t) ==
  /\ pc[t] = "judge" /\ Found(t) /\ ~ Signed(t) /\ MayRefresh(t)
  /\ forced' = [forced EXCEPT ![t] = TRUE]
  /\ Goto(t, "request")
  /\ UNCHANGED <<environment, shared, token, asked, jwks, verdict, steady>>

RejectSignature(t) ==
  /\ pc[t] = "judge" /\ Found(t) /\ ~ Signed(t) /\ ~ MayRefresh(t)
  /\ End(t, "signature")
  /\ UNCHANGED <<environment, shared, token, asked, forced, steady>>

(* The caller has its answer; the thread's next call starts from scratch.  *)
Return(t) ==
  /\ pc[t] = "done"
  /\ Goto(t, "idle")
  /\ token' = [token EXCEPT ![t] = NoToken]
  /\ asked' = [asked EXCEPT ![t] = 0]
  /\ forced' = [forced EXCEPT ![t] = FALSE]
  /\ verdict' = [verdict EXCEPT ![t] = "none"]
  /\ steady' = [steady EXCEPT ![t] = FALSE]
  /\ UNCHANGED <<environment, shared, jwks>>

Begin(t) == \E tok \in Offered :
  BeginRejected(t, tok) \/ BeginHS256(t, tok) \/ BeginRS256(t, tok)

Load(t) == Serve(t, published) \/ (Garbled /\ Serve(t, Malformed)) \/ FailLoad(t)

Continue(t) ==
  \/ ConsultCache(t) \/ CompareAge(t) \/ TakeCached(t)
  \/ Load(t) \/ StoreCache(t) \/ StampLoadedAt(t)
  \/ RejectLookup(t) \/ JudgeClaims(t) \/ ForceRefresh(t) \/ RejectSignature(t)
  \/ Return(t)

Next ==
  \/ Tick
  \/ \E kid \in Kids, k \in MaybeKey : Rotate(kid, k)
  \/ \E t \in Threads : Begin(t) \/ Continue(t)

Spec == Init /\ [][Next]_vars

(* A started call is scheduled until it returns, and its request is        *)
(* answered or times out; nobody has to start a call, and time and         *)
(* Keycloak owe nothing.                                                   *)
FairSpec == Spec /\ \A t \in Threads : WF_vars(Continue(t))


(***************************************************************************)
(* Properties.                                                             *)
(***************************************************************************)

TypeOK ==
  /\ now \in 0..MaxTime
  /\ published \in KeySets
  /\ withdrawnAt \in [Kids -> [Keys -> 0..MaxTime \cup {NoTime}]]
  /\ cache \in Jwks \cup {NoJwks}
  /\ loadedAt \in 0..MaxTime \cup {NoTime}
  /\ pc \in [Threads -> PCs]
  /\ token \in [Threads -> Tokens \cup {NoToken}]
  /\ asked \in [Threads -> 0..MaxTime]
  /\ forced \in [Threads -> BOOLEAN]
  /\ jwks \in [Threads -> Jwks \cup {NoJwks}]
  /\ verdict \in [Threads -> Verdicts]
  /\ steady \in [Threads -> BOOLEAN]

(* How old the keys of a call may be.  The code means TTL; its two         *)
(* unlocked writes and the time a load takes add at most two latencies.    *)
MaxAge == TTL + 2 * MaxLatency

(* Keycloak published k under kid at some time after "since".              *)
PublishedAfter(kid, k, since) ==
  \/ published[kid] = k
  \/ withdrawnAt[kid][k] # NoTime /\ withdrawnAt[kid][k] > since

AcceptedByJwks(t) ==
  pc[t] = "done" /\ verdict[t] = "accepted" /\ token[t].alg = "RS256"

(* A token is accepted only on a key Keycloak published under the token's  *)
(* kid less than MaxAge before the call consulted the cache, however the   *)
(* threads' check of the age, reading of the body and the two writes of a  *)
(* reload interleave.  (keycloak.py 305-309, 316-317)                      *)
AcceptedKeyIsRecent ==
  TTL > 0 => \A t \in Threads : AcceptedByJwks(t) =>
               PublishedAfter(token[t].kid, token[t].key, asked[t] - MaxAge)

(* A token signed with the key Keycloak has published under its kid since  *)
(* before the call began is never refused for its signature: a stale cache *)
(* costs a reload, never a wrong answer.  (keycloak.py 260-271, 318)       *)
NoFalseSignatureReject ==
  \A t \in Threads : steady[t] /\ token[t].alg = "RS256" =>
                       verdict[t] # "signature"

(* A late answer may put an older JWKS over a newer one, but never one     *)
(* more than MaxLatency older.  (keycloak.py 310-316)                      *)
RollbackIsBounded ==
  [][cache # NoJwks => cache'.servedAt + MaxLatency >= cache.servedAt]_vars

(* The time stamp the cache is trusted by lies at most two latencies after *)
(* the time its body was true, even while the stamp belongs to the body of *)
(* another thread.  (keycloak.py 316-317)                                  *)
StampMatchesBody ==
  loadedAt # NoTime => cache.servedAt + 2 * MaxLatency >= loadedAt

(* A body without a time stamp is trusted whatever its age; it is the one  *)
(* of a load that has not finished.  (keycloak.py 306-307)                 *)
UnstampedIsFresh ==
  cache # NoJwks /\ loadedAt = NoTime => cache.servedAt + MaxLatency >= now

(* Whatever a call judges by, a body without keys or without the token's   *)
(* kid included, Keycloak served less than MaxAge before the call          *)
(* consulted the cache: a bad 2xx answer, stored before anybody looks at   *)
(* it, refuses tokens no longer than that.  (keycloak.py 305-317, 337-345) *)
JudgedByRecentBody ==
  TTL > 0 => \A t \in Threads :
               pc[t] = "judge" => jwks[t].servedAt + MaxAge > asked[t]

(* Every call returns: the forced reload happens once.                     *)
(* (keycloak.py 260-273)                                                   *)
CallsReturn == \A t \in Threads : pc[t] # "idle" ~> pc[t] = "idle"

(* What .wiki/concepts/keycloak-auth-flow.md:109 promises: a token whose   *)
(* kid is new is validated after one forced reload of the JWKS, so a token *)
(* of a published key is not refused because the cache does not know it.   *)
PublishedKidIsFound ==
  \A t \in Threads : steady[t] => verdict[t] # "unknown kid"

(***************************************************************************)
(* The inductive invariant behind the properties above, in parts.          *)
(***************************************************************************)

(* A body is a true picture of the moment Keycloak served it.              *)
TrueBody(b) ==
  b # NoJwks =>
    /\ b.servedAt <= now
    /\ b.keys # Malformed => \A kid \in Kids : b.keys[kid] \in Keys =>
                               PublishedAfter(kid, b.keys[kid], b.servedAt - 1)

HistoryInv == TrueBody(cache) /\ \A t \in Threads : TrueBody(jwks[t])

(* A load is at most MaxLatency old, and between its two writes the cache  *)
(* holds nothing more than MaxLatency older than the load.                 *)
LoadInv == \A t \in Threads :
  /\ Loading(t) => jwks[t] # NoJwks /\ now <= jwks[t].servedAt + MaxLatency
  /\ pc[t] = "stamp" =>
       cache # NoJwks /\ cache.servedAt + MaxLatency >= jwks[t].servedAt

StampInv ==
  /\ loadedAt # NoTime => cache # NoJwks /\ loadedAt <= now
  /\ StampMatchesBody
  /\ cache # NoJwks /\ loadedAt = NoTime =>
       \E t \in Threads : pc[t] = "stamp" /\ jwks[t] = cache

(* What a call has learnt about the body it will use.                      *)
Recent(b, t) == b # NoJwks /\ (TTL > 0 => b.servedAt + MaxAge > asked[t])

CallInv == \A t \in Threads :
  /\ asked[t] <= now
  /\ pc[t] = "compare" => loadedAt # NoTime
  /\ pc[t] = "take" => Recent(cache, t)
  /\ pc[t] \in {"store", "stamp", "judge"} => Recent(jwks[t], t)
  /\ pc[t] = "judge" => cache # NoJwks

(* Only a call for an RS256 token with a kid gets past its beginning.      *)
TokenInv == \A t \in Threads :
  /\ pc[t] \notin {"idle", "done"} =>
       token[t] \in Tokens /\ token[t].alg = "RS256" /\ token[t].kid \in Kids
  /\ pc[t] = "done" => token[t] \in Tokens
  /\ pc[t] # "done" => verdict[t] = "none"
  /\ AcceptedByJwks(t) => token[t].kid \in Kids

(* A forced reload sees the key that was published all along.              *)
SteadyInv == \A t \in Threads :
  /\ pc[t] \in {"idle", "consult", "compare", "take"} => ~ forced[t]
  /\ pc[t] = "idle" => ~ steady[t]
  /\ steady[t] => token[t].kid \in Kids /\ published[token[t].kid] = token[t].key
  /\ (/\ steady[t] /\ forced[t]
      /\ pc[t] \in {"store", "stamp", "judge"}
      /\ jwks[t].keys # Malformed) => jwks[t].keys[token[t].kid] = token[t].key

IInv == /\ TypeOK /\ HistoryInv /\ LoadInv /\ StampInv /\ CallInv /\ TokenInv
        /\ SteadyInv

=============================================================================
