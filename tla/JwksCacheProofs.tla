-------------------------- MODULE JwksCacheProofs --------------------------
(***************************************************************************)
(* Proofs about JwksCache, for any set of threads, kids and keys, any TTL, *)
(* any latency and any bound on the clock.                                 *)
(***************************************************************************)
EXTENDS JwksCache, TLAPS

(* The rest of a theorem's step analysis: one case per action.             *)
LEMMA NextCases ==
  ASSUME NEW ACTION P, Next \/ UNCHANGED vars,
         Tick => P,
         \A kid \in Kids, k \in MaybeKey : Rotate(kid, k) => P,
         \A t \in Threads : Begin(t) => P,
         \A t \in Threads : ConsultCache(t) => P,
         \A t \in Threads : CompareAge(t) => P,
         \A t \in Threads : TakeCached(t) => P,
         \A t \in Threads : Serve(t, published) => P,
         \A t \in Threads : Serve(t, Malformed) => P,
         \A t \in Threads : FailLoad(t) => P,
         \A t \in Threads : StoreCache(t) => P,
         \A t \in Threads : StampLoadedAt(t) => P,
         \A t \in Threads : RejectLookup(t) => P,
         \A t \in Threads : JudgeClaims(t) => P,
         \A t \in Threads : ForceRefresh(t) => P,
         \A t \in Threads : RejectSignature(t) => P,
         \A t \in Threads : Return(t) => P,
         UNCHANGED vars => P
  PROVE  P
  BY DEF Next, Continue, Load

(* The outcomes an action ends a call with are verdicts.                   *)
LEMMA LookupVerdicts ==
  \A body, kid : LookupErrors(body, kid) \subseteq Verdicts
  BY DEF LookupErrors, Verdicts

(* The variables stay within their types, whatever the threads do.         *)
THEOREM TypeCorrect == Spec => []TypeOK
<1> USE ConfigAssumption, OfferedAssumption
<1>1. Init => TypeOK
  BY DEF Init, TypeOK, PCs, Verdicts
<1>2. TypeOK /\ [Next]_vars => TypeOK'
  <2> SUFFICES ASSUME TypeOK, [Next]_vars PROVE TypeOK'
    OBVIOUS
  <2> USE DEF TypeOK, environment, shared, locals
  <2>1. ASSUME Tick PROVE TypeOK'
    BY <2>1 DEF Tick
  <2>2. ASSUME NEW kid \in Kids, NEW k \in MaybeKey, Rotate(kid, k) PROVE TypeOK'
    <3>1. published' \in KeySets
      BY <2>2 DEF Rotate, KeySets
    <3>2. withdrawnAt' \in [Kids -> [Keys -> 0..MaxTime \cup {NoTime}]]
      <4>1. CASE published[kid] = NoKey
        BY <2>2, <4>1 DEF Rotate
      <4>2. CASE published[kid] # NoKey
        <5>1. published[kid] \in Keys
          BY <4>2 DEF KeySets, MaybeKey
        <5> QED BY <2>2, <4>2, <5>1 DEF Rotate
      <4> QED BY <4>1, <4>2
    <3>3. steady' \in [Threads -> BOOLEAN]
      <4>1. \A t \in Threads :
              (steady[t] /\ published'[token[t].kid] = token[t].key) \in BOOLEAN
        OBVIOUS
      <4> QED BY <2>2, <4>1, Zenon DEF Rotate
    <3> QED BY <2>2, <3>1, <3>2, <3>3 DEF Rotate
  <2>3. ASSUME NEW t \in Threads, Begin(t) PROVE TypeOK'
    <3> PICK tok \in Tokens :
          BeginRejected(t, tok) \/ BeginHS256(t, tok) \/ BeginRS256(t, tok)
      BY <2>3 DEF Begin
    <3>1. StartCall(t, tok)
      BY DEF BeginRejected, BeginHS256, BeginRS256
    <3>2. steady' \in [Threads -> BOOLEAN]
      <4>1. (tok.kid \in Kids /\ published[tok.kid] = tok.key) \in BOOLEAN
        OBVIOUS
      <4> QED BY <3>1, <4>1, Zenon DEF StartCall
    <3>3. pc' \in [Threads -> PCs] /\ jwks' \in [Threads -> Jwks \cup {NoJwks}]
      BY DEF BeginRejected, BeginHS256, BeginRS256, End, Goto, PCs
    <3>4. verdict' \in [Threads -> Verdicts]
      BY DEF BeginRejected, BeginHS256, BeginRS256, End, SignedOutcomes, Verdicts
    <3> QED BY <3>1, <3>2, <3>3, <3>4 DEF StartCall
  <2>4. ASSUME NEW t \in Threads, ConsultCache(t) PROVE TypeOK'
    BY <2>4 DEF ConsultCache, Goto, PCs
  <2>5. ASSUME NEW t \in Threads, CompareAge(t) PROVE TypeOK'
    BY <2>5 DEF CompareAge, Goto, PCs
  <2>6. ASSUME NEW t \in Threads, TakeCached(t) PROVE TypeOK'
    BY <2>6 DEF TakeCached, Goto, PCs
  <2>7. ASSUME NEW t \in Threads, NEW keys \in KeySets \cup {Malformed},
               Serve(t, keys)
        PROVE TypeOK'
    BY <2>7 DEF Serve, Goto, PCs, Jwks
  <2>8. ASSUME NEW t \in Threads, NEW o \in Verdicts, End(t, o),
               UNCHANGED <<environment, shared, token, asked, forced, steady>>
        PROVE TypeOK'
    BY <2>8 DEF End, Goto, PCs
  <2>9. ASSUME NEW t \in Threads, StoreCache(t) PROVE TypeOK'
    BY <2>9 DEF StoreCache, Goto, PCs
  <2>10. ASSUME NEW t \in Threads, StampLoadedAt(t) PROVE TypeOK'
    BY <2>10 DEF StampLoadedAt, Goto, PCs
  <2>11. ASSUME NEW t \in Threads, ForceRefresh(t) PROVE TypeOK'
    BY <2>11 DEF ForceRefresh, Goto, PCs
  <2>12. ASSUME NEW t \in Threads, Return(t) PROVE TypeOK'
    <3>1. /\ forced' \in [Threads -> BOOLEAN]
          /\ steady' \in [Threads -> BOOLEAN]
      BY <2>12, Zenon DEF Return
    <3>2. token' \in [Threads -> Tokens \cup {NoToken}] /\ asked' \in [Threads -> 0..MaxTime]
      BY <2>12 DEF Return
    <3>3. pc' \in [Threads -> PCs] /\ verdict' \in [Threads -> Verdicts]
      BY <2>12 DEF Return, Goto, PCs, Verdicts
    <3> QED BY <2>12, <3>1, <3>2, <3>3 DEF Return
  <2>13. ASSUME UNCHANGED vars PROVE TypeOK'
    BY <2>13 DEF vars
  <2>14. ASSUME NEW t \in Threads, FailLoad(t) PROVE TypeOK'
    BY <2>8, <2>14 DEF FailLoad, Verdicts
  <2>15. ASSUME NEW t \in Threads, RejectLookup(t) PROVE TypeOK'
    BY <2>8, <2>15, LookupVerdicts DEF RejectLookup
  <2>16. ASSUME NEW t \in Threads, JudgeClaims(t) PROVE TypeOK'
    BY <2>8, <2>16 DEF JudgeClaims, SignedOutcomes, Verdicts
  <2>17. ASSUME NEW t \in Threads, RejectSignature(t) PROVE TypeOK'
    BY <2>8, <2>17 DEF RejectSignature, Verdicts
  <2> QED
    BY NextCases, <2>1, <2>2, <2>3, <2>4, <2>5, <2>6, <2>7, <2>9, <2>10,
       <2>11, <2>12, <2>13, <2>14, <2>15, <2>16, <2>17
<1> QED BY <1>1, <1>2, PTL DEF Spec

(***************************************************************************)
(* The inductive invariant, part by part.                                  *)
(***************************************************************************)

(* A key once published stays "published after" the same time: a           *)
(* withdrawal is dated now.                                                *)
LEMMA PublicationIsRecorded ==
  ASSUME TypeOK, [Next]_vars,
         NEW kid \in Kids, NEW k \in Keys, NEW since \in Int, since < now,
         PublishedAfter(kid, k, since)
  PROVE  PublishedAfter(kid, k, since)'
<1> USE DEF TypeOK, PublishedAfter, environment
<1>1. ASSUME NEW kd \in Kids, NEW new \in MaybeKey, Rotate(kd, new)
      PROVE PublishedAfter(kid, k, since)'
  <2> published[kd] \in Keys \cup {NoKey}
    BY DEF KeySets, MaybeKey
  <2> CASE published[kid] = k /\ kd = kid
    <3>1. withdrawnAt'[kid][k] = now
      BY <1>1, NullAssumption DEF Rotate
    <3> QED BY <3>1, NullAssumption
  <2> CASE published[kid] = k /\ kd # kid
    BY <1>1 DEF Rotate, KeySets
  <2> CASE withdrawnAt[kid][k] # NoTime /\ withdrawnAt[kid][k] > since
    <3>1. withdrawnAt'[kid][k] \in {withdrawnAt[kid][k], now}
      BY <1>1 DEF Rotate
    <3> QED BY <3>1, NullAssumption
  <2> QED OBVIOUS
<1>2. ASSUME UNCHANGED <<published, withdrawnAt>>
      PROVE PublishedAfter(kid, k, since)'
  BY <1>2
<1>3. Tick => UNCHANGED <<published, withdrawnAt>>
  BY DEF Tick
<1>4. ASSUME NEW t \in Threads, Begin(t) \/ Continue(t)
      PROVE UNCHANGED <<published, withdrawnAt>>
  BY <1>4 DEF Begin, BeginRejected, BeginHS256, BeginRS256, StartCall,
     Continue, ConsultCache, CompareAge, TakeCached, Load, Serve, FailLoad,
     StoreCache, StampLoadedAt, RejectLookup, JudgeClaims, ForceRefresh,
     RejectSignature, Return
<1> QED BY <1>1, <1>2, <1>3, <1>4 DEF Next, vars

(* A body that is true stays true.                                         *)
LEMMA BodiesStayTrue ==
  ASSUME TypeOK, [Next]_vars, NEW b \in Jwks \cup {NoJwks}, TrueBody(b)
  PROVE  TrueBody(b)'
<1>1. now' \in Int /\ now' >= now
  <2>1. Tick => now' = now + 1
    BY DEF Tick
  <2>2. ASSUME NEW t \in Threads, Begin(t) \/ Continue(t) PROVE now' = now
    BY <2>2 DEF Begin, BeginRejected, BeginHS256, BeginRS256, StartCall,
       Continue, ConsultCache, CompareAge, TakeCached, Load, Serve, FailLoad,
       StoreCache, StampLoadedAt, RejectLookup, JudgeClaims, ForceRefresh,
       RejectSignature, Return, environment
  <2>3. ASSUME NEW kid \in Kids, NEW k \in MaybeKey, Rotate(kid, k)
        PROVE now' = now
    BY <2>3 DEF Rotate
  <2> QED BY <2>1, <2>2, <2>3 DEF Next, vars, environment, TypeOK
<1> SUFFICES ASSUME b # NoJwks PROVE TrueBody(b)'
  BY DEF TrueBody
<1>2. b.servedAt \in Nat /\ b.servedAt <= now /\ b.servedAt - 1 < now
  BY DEF TrueBody, Jwks, TypeOK
<1>3. ASSUME b.keys # Malformed, NEW kid \in Kids, b.keys[kid] \in Keys
      PROVE  PublishedAfter(kid, b.keys[kid], b.servedAt - 1)'
  BY <1>2, <1>3, PublicationIsRecorded DEF TrueBody
<1> QED BY <1>1, <1>2, <1>3 DEF TrueBody, TypeOK

(* Where a step takes a thread's body from ...                             *)
LEMMA BodySources ==
  ASSUME TypeOK, [Next]_vars, NEW u \in Threads
  PROVE  \/ jwks'[u] \in {jwks[u], NoJwks, cache}
         \/ /\ UNCHANGED environment
            /\ \E keys \in {published, Malformed} :
                 jwks'[u] = [keys |-> keys, servedAt |-> now]
<1> USE DEF TypeOK, locals, vars
<1>1. ASSUME NEW t \in Threads, Begin(t)
      PROVE jwks'[u] \in {jwks[u], NoJwks, cache}
  BY <1>1 DEF Begin, BeginRejected, BeginHS256, BeginRS256, End
<1>2. ASSUME NEW t \in Threads, Load(t)
      PROVE \/ jwks'[u] \in {jwks[u], NoJwks, cache}
            \/ /\ UNCHANGED environment
               /\ \E keys \in {published, Malformed} :
                    jwks'[u] = [keys |-> keys, servedAt |-> now]
  BY <1>2 DEF Load, Serve, FailLoad, End
<1>3. ASSUME NEW t \in Threads, Continue(t), ~ Load(t)
      PROVE jwks'[u] \in {jwks[u], NoJwks, cache}
  BY <1>3 DEF Continue, ConsultCache, CompareAge, TakeCached, StoreCache,
     StampLoadedAt, RejectLookup, JudgeClaims, ForceRefresh, RejectSignature,
     Return, End
<1>4. ASSUME NEW kid \in Kids, NEW k \in MaybeKey, Rotate(kid, k)
      PROVE jwks'[u] = jwks[u]
  BY <1>4 DEF Rotate
<1>5. Tick => jwks'[u] = jwks[u]
  BY DEF Tick
<1> QED BY <1>1, <1>2, <1>3, <1>4, <1>5 DEF Next

(* ... and the cache its own.                                              *)
LEMMA CacheSources ==
  ASSUME TypeOK, [Next]_vars
  PROVE  cache' = cache \/ \E t \in Threads : StoreCache(t)
<1> USE DEF shared, vars
<1>1. ASSUME NEW t \in Threads, Begin(t) \/ Continue(t), ~ StoreCache(t)
      PROVE cache' = cache
  BY <1>1 DEF Begin, BeginRejected, BeginHS256, BeginRS256, StartCall,
     Continue, ConsultCache, CompareAge, TakeCached, Load, Serve, FailLoad,
     StampLoadedAt, RejectLookup, JudgeClaims, ForceRefresh, RejectSignature,
     Return
<1>2. ASSUME NEW kid \in Kids, NEW k \in MaybeKey, Rotate(kid, k)
      PROVE cache' = cache
  BY <1>2 DEF Rotate
<1>3. Tick => cache' = cache
  BY DEF Tick
<1> QED BY <1>1, <1>2, <1>3 DEF Next

(* Bodies in the cache and in the calls are true pictures of the moment    *)
(* Keycloak served them, and every step keeps them so (keycloak.py 310,    *)
(* 316).                                                                   *)
LEMMA HistoryStep ==
  ASSUME TypeOK, HistoryInv, [Next]_vars
  PROVE  HistoryInv'
<1>1. ASSUME NEW b \in Jwks \cup {NoJwks}, TrueBody(b) PROVE TrueBody(b)'
  BY <1>1, BodiesStayTrue
<1>2. cache \in Jwks \cup {NoJwks} /\ TrueBody(cache)
  BY DEF HistoryInv, TypeOK
<1>3. ASSUME NEW t \in Threads
      PROVE  jwks[t] \in Jwks \cup {NoJwks} /\ TrueBody(jwks[t])
  BY DEF HistoryInv, TypeOK
<1>4. TrueBody(cache)'
  <2>1. \E b \in Jwks \cup {NoJwks} : TrueBody(b) /\ cache' = b
    <3>1. CASE cache' = cache
      BY <1>2, <3>1
    <3>2. CASE \E t \in Threads : StoreCache(t)
      BY <1>3, <3>2 DEF StoreCache
    <3> QED BY <3>1, <3>2, CacheSources
  <2>2. PICK b \in Jwks \cup {NoJwks} : TrueBody(b) /\ cache' = b
    BY <2>1
  <2>3. TrueBody(b)'
    BY <1>1, <2>2
  <2> QED BY <2>2, <2>3 DEF TrueBody
<1>5. ASSUME NEW u \in Threads PROVE TrueBody(jwks[u])'
  <2>1. CASE jwks'[u] \in {jwks[u], NoJwks, cache}
    <3>1. TrueBody(NoJwks)
      BY DEF TrueBody
    <3>2. PICK b \in Jwks \cup {NoJwks} : TrueBody(b) /\ jwks'[u] = b
      BY <1>2, <1>3, <2>1, <3>1
    <3>3. TrueBody(b)'
      BY <1>1, <3>2
    <3> QED BY <3>2, <3>3 DEF TrueBody
  <2>2. ASSUME UNCHANGED environment, NEW keys \in {published, Malformed},
               jwks'[u] = [keys |-> keys, servedAt |-> now]
        PROVE  TrueBody(jwks[u])'
    <3>1. now' = now /\ published' = published
      BY <2>2 DEF environment
    <3>2. jwks'[u].servedAt = now /\ jwks'[u].keys = keys
      BY <2>2
    <3>3. now \in Nat
      BY DEF TypeOK
    <3> QED BY <2>2, <3>1, <3>2, <3>3 DEF TrueBody, PublishedAfter
  <2> QED BY <2>1, <2>2, BodySources
<1> QED BY <1>4, <1>5 DEF HistoryInv

(* Only its own step moves a thread; every other step leaves its call      *)
(* alone, save for what Keycloak does to "steady".                         *)
OthersKeep(u) ==
  /\ pc'[u] = pc[u] /\ token'[u] = token[u] /\ asked'[u] = asked[u]
  /\ forced'[u] = forced[u] /\ jwks'[u] = jwks[u] /\ verdict'[u] = verdict[u]

(* A thread's own step leaves the locals of the other threads alone.       *)
LEMMA ThreadsAreApart ==
  ASSUME TypeOK, NEW t \in Threads, Begin(t) \/ Continue(t),
         NEW u \in Threads, u # t
  PROVE  OthersKeep(u) /\ steady'[u] = steady[u] /\ UNCHANGED environment
<1> USE DEF TypeOK, OthersKeep, locals, Goto
<1>1. CASE Begin(t)
  BY <1>1 DEF Begin, BeginRejected, BeginHS256, BeginRS256, StartCall, End
<1>2. CASE Load(t) \/ RejectLookup(t) \/ JudgeClaims(t) \/ RejectSignature(t)
  BY <1>2 DEF Load, Serve, FailLoad, RejectLookup, JudgeClaims,
     RejectSignature, End
<1>3. CASE ConsultCache(t) \/ CompareAge(t) \/ TakeCached(t) \/ StoreCache(t)
           \/ StampLoadedAt(t) \/ ForceRefresh(t) \/ Return(t)
  BY <1>3 DEF ConsultCache, CompareAge, TakeCached, StoreCache, StampLoadedAt,
     ForceRefresh, Return
<1> QED BY <1>1, <1>2, <1>3 DEF Continue

(* What the steps that are not thread u's own leave alone.                 *)
LEMMA NotItsStep ==
  ASSUME TypeOK, [Next]_vars, NEW u \in Threads, ~ Begin(u), ~ Continue(u)
  PROVE  /\ OthersKeep(u)
         /\ \/ Tick /\ UNCHANGED <<published, shared, pc, jwks>>
            \/ now' = now
<1>1. Tick => OthersKeep(u) /\ UNCHANGED <<published, shared, pc, jwks>>
  BY DEF Tick, OthersKeep, locals
<1>2. ASSUME NEW kid \in Kids, NEW k \in MaybeKey, Rotate(kid, k)
      PROVE  OthersKeep(u) /\ now' = now
  BY <1>2 DEF Rotate, OthersKeep, locals
<1>3. ASSUME NEW t \in Threads, Begin(t) \/ Continue(t)
      PROVE  OthersKeep(u) /\ now' = now
  BY <1>3, ThreadsAreApart DEF environment
<1>4. UNCHANGED vars => OthersKeep(u) /\ now' = now
  BY DEF vars, OthersKeep, locals, environment
<1> QED BY <1>1, <1>2, <1>3, <1>4 DEF Next

(* A thread inside a load cannot be left behind by the clock.              *)
LEMMA LoadStep ==
  ASSUME TypeOK, HistoryInv, LoadInv, [Next]_vars
  PROVE  LoadInv'
<1> USE ConfigAssumption
<1> SUFFICES ASSUME NEW u \in Threads
             PROVE /\ Loading(u)' => /\ jwks'[u] # NoJwks
                                     /\ now' <= jwks'[u].servedAt + MaxLatency
                   /\ pc'[u] = "stamp" =>
                        /\ cache' # NoJwks
                        /\ cache'.servedAt + MaxLatency >= jwks'[u].servedAt
  BY DEF LoadInv
<1>0. /\ now \in Nat
      /\ \A b \in Jwks : b.servedAt \in Nat
      /\ \A t \in Threads : jwks[t] \in Jwks \cup {NoJwks}
      /\ cache \in Jwks \cup {NoJwks}
      /\ \A t \in Threads : jwks[t] # NoJwks => jwks[t].servedAt <= now
      /\ cache # NoJwks => cache.servedAt <= now
  BY DEF TypeOK, Jwks, HistoryInv, TrueBody
<1>1. CASE ~ Begin(u) /\ ~ Continue(u)
  <2>1. OthersKeep(u)
    BY <1>1, NotItsStep
  <2>2. ASSUME Loading(u)
        PROVE jwks'[u] # NoJwks /\ now' <= jwks'[u].servedAt + MaxLatency
    <3>1. CASE Tick
      BY <1>0, <2>1, <2>2, <3>1 DEF Tick, LoadInv, OthersKeep
    <3>2. CASE now' = now
      BY <2>1, <2>2, <3>2 DEF LoadInv, OthersKeep
    <3> QED BY <1>1, <3>1, <3>2, NotItsStep
  <2>3. ASSUME pc[u] = "stamp"
        PROVE /\ cache' # NoJwks
              /\ cache'.servedAt + MaxLatency >= jwks'[u].servedAt
    <3>1. CASE cache' = cache
      BY <2>1, <2>3, <3>1 DEF LoadInv, OthersKeep
    <3>2. ASSUME NEW t \in Threads, StoreCache(t)
          PROVE /\ cache' # NoJwks
                /\ cache'.servedAt + MaxLatency >= jwks'[u].servedAt
      <4>1. jwks[t] # NoJwks /\ now <= jwks[t].servedAt + MaxLatency
        BY <3>2 DEF StoreCache, LoadInv, Loading
      <4>2. jwks[u] # NoJwks /\ jwks[u].servedAt <= now
        BY <1>0, <2>3 DEF LoadInv, Loading
      <4> QED BY <1>0, <2>1, <3>2, <4>1, <4>2 DEF StoreCache, OthersKeep
    <3> QED BY <3>1, <3>2, CacheSources
  <2> QED BY <2>1, <2>2, <2>3 DEF Loading, OthersKeep
<1>2. CASE Begin(u)
  BY <1>2 DEF Begin, BeginRejected, BeginHS256, BeginRS256, End, Goto,
     Loading, TypeOK
<1>3. ASSUME NEW keys \in {published, Malformed}, Serve(u, keys)
      PROVE  /\ jwks'[u] = [keys |-> keys, servedAt |-> now]
             /\ pc'[u] = "store" /\ now' = now
  BY <1>3 DEF Serve, Goto, TypeOK, environment
<1>4. CASE Serve(u, published) \/ Serve(u, Malformed)
  <2>1. PICK keys \in {published, Malformed} : Serve(u, keys)
    BY <1>4
  <2>2. [keys |-> keys, servedAt |-> now] \in Jwks
    BY <2>1 DEF Jwks, TypeOK
  <2> QED BY <1>0, <1>3, <2>1, <2>2, NullAssumption DEF Loading
<1>5. CASE StoreCache(u)
  BY <1>0, <1>5 DEF StoreCache, Goto, Loading, LoadInv, TypeOK, environment,
     locals
<1>6. CASE FailLoad(u) \/ RejectLookup(u) \/ JudgeClaims(u)
           \/ RejectSignature(u)
  BY <1>6 DEF FailLoad, RejectLookup, JudgeClaims, RejectSignature, End, Goto,
     Loading, TypeOK
<1>7. CASE ConsultCache(u) \/ CompareAge(u) \/ TakeCached(u)
           \/ StampLoadedAt(u) \/ ForceRefresh(u) \/ Return(u)
  BY <1>7 DEF ConsultCache, CompareAge, TakeCached, StampLoadedAt,
     ForceRefresh, Return, Goto, Loading, TypeOK
<1> QED BY <1>1, <1>2, <1>4, <1>5, <1>6, <1>7 DEF Continue, Load

(* Ranges of the numbers the next steps compare.                           *)
LEMMA Ranges ==
  ASSUME TypeOK, HistoryInv
  PROVE  /\ now \in Nat /\ MaxLatency \in Nat /\ TTL \in Nat /\ MaxAge \in Nat
         /\ cache # NoJwks => cache.servedAt \in Nat /\ cache.servedAt <= now
         /\ \A t \in Threads : jwks[t] # NoJwks =>
              jwks[t].servedAt \in Nat /\ jwks[t].servedAt <= now
         /\ \A t \in Threads : asked[t] \in Nat
         /\ loadedAt # NoTime => loadedAt \in Nat
  BY ConfigAssumption DEF TypeOK, HistoryInv, TrueBody, Jwks, MaxAge

(* Time does not run backwards.                                            *)
LEMMA TimePasses ==
  ASSUME TypeOK, [Next]_vars
  PROVE  now' \in Nat /\ now' >= now
<1>1. Tick => now' = now + 1
  BY DEF Tick
<1>2. ASSUME NEW t \in Threads, Begin(t) \/ Continue(t) PROVE now' = now
  BY <1>2 DEF Begin, BeginRejected, BeginHS256, BeginRS256, StartCall,
     Continue, ConsultCache, CompareAge, TakeCached, Load, Serve, FailLoad,
     StoreCache, StampLoadedAt, RejectLookup, JudgeClaims, ForceRefresh,
     RejectSignature, Return, environment
<1>3. ASSUME NEW kid \in Kids, NEW k \in MaybeKey, Rotate(kid, k)
      PROVE now' = now
  BY <1>3 DEF Rotate
<1> QED BY <1>1, <1>2, <1>3 DEF Next, vars, environment, TypeOK

(* A body goes into the cache while it is at most MaxLatency old.          *)
LEMMA StoredBody ==
  ASSUME TypeOK, LoadInv, NEW t \in Threads, StoreCache(t)
  PROVE  /\ cache' = jwks[t] /\ jwks'[t] = jwks[t] /\ pc'[t] = "stamp"
         /\ jwks[t] # NoJwks /\ now <= jwks[t].servedAt + MaxLatency
         /\ UNCHANGED <<loadedAt, now, asked>>
  BY DEF StoreCache, LoadInv, Loading, Goto, TypeOK, environment, locals

(* And the cache is what it was after every other step.                    *)
LEMMA OtherSteps ==
  ASSUME TypeOK, [Next]_vars, \A t \in Threads : ~ StoreCache(t),
         \A t \in Threads : ~ StampLoadedAt(t)
  PROVE  UNCHANGED shared
<1> USE DEF shared, vars
<1>1. ASSUME NEW t \in Threads, Begin(t) \/ Continue(t)
      PROVE UNCHANGED shared
  BY <1>1 DEF Begin, BeginRejected, BeginHS256, BeginRS256, StartCall,
     Continue, ConsultCache, CompareAge, TakeCached, Load, Serve, FailLoad,
     RejectLookup, JudgeClaims, ForceRefresh, RejectSignature, Return
<1>2. ASSUME NEW kid \in Kids, NEW k \in MaybeKey, Rotate(kid, k)
      PROVE UNCHANGED shared
  BY <1>2 DEF Rotate
<1>3. Tick => UNCHANGED shared
  BY DEF Tick
<1> QED BY <1>1, <1>2, <1>3 DEF Next

(* The time stamp stays within two latencies of the body it stands beside, *)
(* whichever load wrote either of them (keycloak.py 316-317).              *)
LEMMA StampStep ==
  ASSUME TypeOK, HistoryInv, LoadInv, StampInv, [Next]_vars
  PROVE  StampInv'
<1> USE Ranges, TimePasses
<1>1. ASSUME NEW t \in Threads, StampLoadedAt(t) PROVE StampInv'
  <2>1. loadedAt' = now /\ cache' = cache /\ now' = now
    BY <1>1 DEF StampLoadedAt, environment
  <2>2. /\ now <= jwks[t].servedAt + MaxLatency /\ cache # NoJwks
        /\ cache.servedAt + MaxLatency >= jwks[t].servedAt /\ jwks[t] # NoJwks
    BY <1>1 DEF StampLoadedAt, LoadInv, Loading
  <2> QED BY <2>1, <2>2, NullAssumption DEF StampInv, StampMatchesBody
<1>2. ASSUME NEW t \in Threads, StoreCache(t) PROVE StampInv'
  <2>1. StampMatchesBody'
    BY <1>2, StoredBody DEF StampInv, StampMatchesBody
  <2> QED BY <1>2, <2>1, StoredBody DEF StampInv
<1>3. ASSUME \A t \in Threads : ~ StoreCache(t) /\ ~ StampLoadedAt(t)
      PROVE  StampInv'
  <2>1. cache' = cache /\ loadedAt' = loadedAt
    BY <1>3, OtherSteps DEF shared
  <2>2. ASSUME NEW u \in Threads, pc[u] = "stamp"
        PROVE  pc'[u] = "stamp" /\ jwks'[u] = jwks[u]
    <3>1. ~ Begin(u) /\ ~ Continue(u)
      BY <1>3, <2>2 DEF Begin, BeginRejected, BeginHS256, BeginRS256, StartCall,
         Continue, ConsultCache, CompareAge, TakeCached, Load, Serve, FailLoad,
         RejectLookup, JudgeClaims, ForceRefresh, RejectSignature, Return
    <3> QED BY <2>2, <3>1, NotItsStep DEF OthersKeep
  <2> QED BY <2>1, <2>2 DEF StampInv, StampMatchesBody
<1> QED BY <1>1, <1>2, <1>3

(* A body recent enough for a call stays so, and so does the cache: what   *)
(* may replace it is younger than any call's clock reading.                *)
LEMMA CacheStaysRecent ==
  ASSUME TypeOK, HistoryInv, LoadInv, [Next]_vars, NEW u \in Threads,
         asked[u] <= now, asked'[u] = asked[u], Recent(cache, u)
  PROVE  Recent(cache, u)'
<1>1. CASE cache' = cache
  BY <1>1 DEF Recent
<1>2. ASSUME NEW t \in Threads, StoreCache(t)
      PROVE  Recent(cache, u)'
  <2>1. MaxAge = TTL + 2 * MaxLatency
    BY DEF MaxAge
  <2> QED BY <1>2, <2>1, StoredBody, Ranges DEF Recent
<1> QED BY <1>1, <1>2, CacheSources

(* What a call has learnt about the age of the body it will use stays true *)
(* until it uses it (keycloak.py 305-309).                                 *)
LEMMA CallStep ==
  ASSUME TypeOK, HistoryInv, LoadInv, StampInv, CallInv, [Next]_vars
  PROVE  CallInv'
<1> USE Ranges, TimePasses
<1> SUFFICES ASSUME NEW u \in Threads
             PROVE  /\ asked'[u] <= now'
                    /\ pc'[u] = "compare" => loadedAt' # NoTime
                    /\ pc'[u] = "take" => Recent(cache, u)'
                    /\ pc'[u] \in {"store", "stamp", "judge"} =>
                         Recent(jwks[u], u)'
                    /\ pc'[u] = "judge" => cache' # NoJwks
  BY DEF CallInv
<1>0. /\ cache # NoJwks => cache' # NoJwks
      /\ loadedAt # NoTime => loadedAt' # NoTime
  <2>1. cache # NoJwks => cache' # NoJwks
    BY CacheSources, StoredBody
  <2>2. ASSUME NEW t \in Threads, StampLoadedAt(t)
        PROVE  loadedAt' # NoTime
    BY <2>2, NullAssumption DEF StampLoadedAt
  <2> QED BY <2>1, <2>2, StoredBody, OtherSteps DEF shared
<1>a. asked[u] <= now
  BY DEF CallInv
<1>1. CASE ~ Begin(u) /\ ~ Continue(u)
  <2>1. OthersKeep(u)
    BY <1>1, NotItsStep
  <2>2. pc[u] = "take" => Recent(cache, u)'
    BY <1>a, <2>1, CacheStaysRecent DEF CallInv, OthersKeep
  <2>3. Recent(jwks[u], u) => Recent(jwks[u], u)'
    BY <2>1 DEF Recent, OthersKeep
  <2> QED BY <1>0, <1>a, <2>1, <2>2, <2>3 DEF CallInv, OthersKeep
<1>2. CASE Begin(u)
  <2>1. pc'[u] \in {"consult", "done"} /\ asked' = asked
    BY <1>2 DEF Begin, BeginRejected, BeginHS256, BeginRS256, StartCall, End,
       Goto, TypeOK
  <2> QED BY <1>a, <2>1
<1>3. CASE ConsultCache(u)
  <2>1. /\ asked'[u] = now /\ now' = now /\ cache' = cache
        /\ loadedAt' = loadedAt /\ jwks'[u] = jwks[u]
        /\ pc'[u] = IF cache = NoJwks THEN "request"
                    ELSE IF loadedAt = NoTime \/ TTL = 0 THEN "take"
                    ELSE "compare"
    BY <1>3 DEF ConsultCache, Goto, TypeOK, environment, shared
  <2>2. ASSUME cache # NoJwks, loadedAt = NoTime
        PROVE  cache.servedAt + MaxLatency >= now
    BY <2>2 DEF StampInv, LoadInv, Loading
  <2>3. pc'[u] = "take" => Recent(cache, u)'
    BY <2>1, <2>2 DEF Recent, MaxAge
  <2> QED BY <1>a, <2>1, <2>3
<1>4. CASE CompareAge(u)
  <2>1. /\ asked' = asked /\ now' = now /\ cache' = cache
        /\ pc'[u] \in {"take", "request"}
        /\ pc'[u] = "take" => asked[u] - loadedAt < TTL
        /\ loadedAt # NoTime
    BY <1>4 DEF CompareAge, Goto, TypeOK, environment, shared, locals, CallInv
  <2>2. cache # NoJwks /\ cache.servedAt + 2 * MaxLatency >= loadedAt
    BY <2>1 DEF StampInv, StampMatchesBody
  <2>3. pc'[u] = "take" => Recent(cache, u)'
    BY <2>1, <2>2 DEF Recent, MaxAge
  <2> QED BY <1>a, <2>1, <2>3
<1>5. CASE TakeCached(u)
  <2>1. /\ asked' = asked /\ now' = now /\ cache' = cache /\ jwks'[u] = cache
        /\ pc'[u] = "judge" /\ Recent(cache, u)
    BY <1>5 DEF TakeCached, Goto, TypeOK, environment, shared, CallInv
  <2> QED BY <1>a, <2>1 DEF Recent
<1>6. CASE Load(u)
  <2>1. CASE FailLoad(u)
    BY <1>a, <2>1 DEF FailLoad, End, Goto, TypeOK
  <2>2. ASSUME NEW keys \in KeySets \cup {Malformed}, Serve(u, keys)
        PROVE  /\ pc'[u] = "store" /\ asked' = asked /\ now' = now
               /\ Recent(jwks[u], u)'
    <3>1. /\ pc'[u] = "store" /\ asked' = asked /\ now' = now
          /\ jwks'[u] = [keys |-> keys, servedAt |-> now]
      BY <2>2 DEF Serve, Goto, TypeOK, environment
    <3>2. jwks'[u] \in Jwks /\ jwks'[u].servedAt = now
      BY <3>1 DEF Jwks
    <3> QED BY <1>a, <3>1, <3>2, NullAssumption DEF Recent, MaxAge
  <2>3. Serve(u, published) \/ Serve(u, Malformed) =>
          \E keys \in KeySets \cup {Malformed} : Serve(u, keys)
    BY DEF TypeOK
  <2> QED BY <1>6, <1>a, <2>1, <2>2, <2>3 DEF Load
<1>7. CASE StoreCache(u) \/ StampLoadedAt(u)
  <2>1. /\ asked' = asked /\ now' = now /\ jwks'[u] = jwks[u]
        /\ pc[u] \in {"store", "stamp"} /\ pc'[u] \in {"stamp", "judge"}
        /\ pc'[u] = "judge" => pc[u] = "stamp"
    BY <1>7 DEF StoreCache, StampLoadedAt, Goto, TypeOK, environment, locals
  <2>2. pc[u] = "stamp" => cache # NoJwks
    BY DEF LoadInv
  <2> QED BY <1>0, <1>a, <2>1, <2>2 DEF CallInv, Recent
<1>8. CASE RejectLookup(u) \/ JudgeClaims(u) \/ RejectSignature(u)
  BY <1>8, <1>a DEF RejectLookup, JudgeClaims, RejectSignature, End, Goto, TypeOK
<1>9. CASE ForceRefresh(u) \/ Return(u)
  BY <1>9, <1>a DEF ForceRefresh, Return, Goto, TypeOK
<1> QED BY <1>1, <1>2, <1>3, <1>4, <1>5, <1>6, <1>7, <1>8, <1>9 DEF Continue

(* Only RS256 tokens with a kid get past the beginning of a call, and only *)
(* a call that is over has a verdict.                                      *)
LEMMA TokenStep ==
  ASSUME TypeOK, TokenInv, [Next]_vars
  PROVE  TokenInv'
<1> SUFFICES ASSUME NEW u \in Threads
             PROVE  /\ pc'[u] \notin {"idle", "done"} =>
                         /\ token'[u] \in Tokens /\ token'[u].alg = "RS256"
                         /\ token'[u].kid \in Kids
                    /\ pc'[u] = "done" => token'[u] \in Tokens
                    /\ pc'[u] # "done" => verdict'[u] = "none"
                    /\ AcceptedByJwks(u)' => token'[u].kid \in Kids
  BY DEF TokenInv
<1> USE DEF TokenInv, AcceptedByJwks
<1>1. CASE ~ Begin(u) /\ ~ Continue(u)
  BY <1>1, NotItsStep DEF OthersKeep
<1>2. ASSUME NEW tok \in Tokens, BeginRejected(u, tok) \/ BeginHS256(u, tok)
                                   \/ BeginRS256(u, tok)
      PROVE  /\ token'[u] = tok
             /\ \/ pc'[u] = "done" /\ (tok.alg = "RS256" => verdict'[u] = "header")
                \/ pc'[u] = "consult" /\ verdict'[u] = verdict[u] /\ tok.alg = "RS256"
                   /\ tok.kid \in Kids /\ pc[u] = "idle"
  BY <1>2 DEF BeginRejected, BeginHS256, BeginRS256, StartCall, End, Goto,
     HeaderRejected, TypeOK, Tokens
<1>3. CASE Begin(u)
  BY <1>2, <1>3, OfferedAssumption DEF Begin
<1>4. CASE Return(u)
  BY <1>4 DEF Return, Goto, TypeOK
<1>5. CASE FailLoad(u) \/ RejectLookup(u) \/ JudgeClaims(u) \/ RejectSignature(u)
  BY <1>5 DEF FailLoad, RejectLookup, JudgeClaims, RejectSignature, End, Goto,
     TypeOK
<1>6. CASE ConsultCache(u) \/ CompareAge(u) \/ TakeCached(u) \/ ForceRefresh(u)
           \/ Serve(u, published) \/ Serve(u, Malformed)
           \/ StoreCache(u) \/ StampLoadedAt(u)
  <2>1. /\ token' = token /\ verdict' = verdict
        /\ pc[u] \notin {"idle", "done"} /\ pc'[u] \notin {"idle", "done"}
    BY <1>6 DEF ConsultCache, CompareAge, TakeCached, ForceRefresh, Serve,
       StoreCache, StampLoadedAt, Goto, TypeOK, locals
  <2> QED BY <2>1
<1> QED BY <1>1, <1>3, <1>4, <1>5, <1>6 DEF Continue, Load

(* A steady key is the published one before and after every step.          *)
LEMMA SteadyKey ==
  ASSUME TypeOK, SteadyInv, [Next]_vars, NEW u \in Threads, ~ Begin(u),
         steady'[u]
  PROVE  steady[u] /\ token'[u] = token[u] /\ published'[token[u].kid] = token[u].key
<1> USE DEF SteadyInv
<1>1. ASSUME NEW kid \in Kids, NEW k \in MaybeKey, Rotate(kid, k)
      PROVE  /\ steady[u] /\ token'[u] = token[u]
             /\ published'[token[u].kid] = token[u].key
  <2>1. steady'[u] = (steady[u] /\ published'[token[u].kid] = token[u].key)
    BY <1>1, Zenon DEF Rotate
  <2> QED BY <1>1, <2>1 DEF Rotate
<1>2. ASSUME NEW t \in Threads, t # u, Begin(t) \/ Continue(t)
      PROVE  steady'[u] = steady[u] /\ token'[u] = token[u] /\ published' = published
  BY <1>2, ThreadsAreApart DEF OthersKeep, environment
<1>3. ASSUME Continue(u), ~ Return(u)
      PROVE  steady' = steady /\ token' = token /\ published' = published
  BY <1>3 DEF Continue, ConsultCache, CompareAge, TakeCached, Load, Serve,
     FailLoad, StoreCache, StampLoadedAt, RejectLookup, JudgeClaims,
     ForceRefresh, RejectSignature, environment, locals
<1>4. ~ Return(u)
  BY DEF Return, TypeOK
<1>5. Tick => steady' = steady /\ token' = token /\ published' = published
  BY DEF Tick, locals
<1>6. UNCHANGED vars => steady' = steady /\ token' = token /\ published' = published
  BY DEF vars, locals, environment
<1> QED BY <1>1, <1>2, <1>3, <1>4, <1>5, <1>6 DEF Next

(* The forced reload of a call brings the key that has been published      *)
(* since before the call began (keycloak.py 260-271).                      *)
LEMMA SteadyStep ==
  ASSUME TypeOK, TokenInv, SteadyInv, [Next]_vars
  PROVE  SteadyInv'
<1> USE DEF SteadyInv
<1> DEFINE Sees(u) == (/\ steady[u] /\ forced[u]
                       /\ pc[u] \in {"store", "stamp", "judge"}
                       /\ jwks[u].keys # Malformed) =>
                      jwks[u].keys[token[u].kid] = token[u].key
<1> SUFFICES ASSUME NEW u \in Threads
             PROVE  /\ pc'[u] \in {"idle", "consult", "compare", "take"} =>
                         ~ forced'[u]
                    /\ pc'[u] = "idle" => ~ steady'[u]
                    /\ steady'[u] => /\ token'[u].kid \in Kids
                                     /\ published'[token'[u].kid] = token'[u].key
                    /\ Sees(u)'
  BY DEF SteadyInv
<1>1. CASE Begin(u)
  <2> PICK tok \in Tokens :
        BeginRejected(u, tok) \/ BeginHS256(u, tok) \/ BeginRS256(u, tok)
    BY <1>1, OfferedAssumption DEF Begin
  <2>1. /\ token'[u] = tok /\ published' = published /\ forced' = forced
        /\ pc[u] = "idle" /\ pc'[u] \in {"consult", "done"}
    BY DEF BeginRejected, BeginHS256, BeginRS256, StartCall, End, Goto, TypeOK,
       environment
  <2>2. steady'[u] = (tok.kid \in Kids /\ published[tok.kid] = tok.key)
    BY Zenon DEF BeginRejected, BeginHS256, BeginRS256, StartCall, TypeOK
  <2> QED BY <2>1, <2>2
<1>2. CASE ~ Begin(u)
  <2>1. steady'[u] => /\ steady[u] /\ token'[u] = token[u]
                      /\ published'[token[u].kid] = token[u].key
    BY <1>2, SteadyKey
  <2>2. CASE ~ Continue(u)
    <3>1. OthersKeep(u)
      BY <1>2, <2>2, NotItsStep
    <3> QED BY <2>1, <3>1 DEF OthersKeep
  <2>3. CASE FailLoad(u) \/ RejectLookup(u) \/ JudgeClaims(u)
             \/ RejectSignature(u)
    BY <2>1, <2>3 DEF FailLoad, RejectLookup, JudgeClaims, RejectSignature,
       End, Goto, TypeOK
  <2>4. CASE Return(u)
    <3>1. pc'[u] = "idle" /\ ~ steady'[u] /\ ~ forced'[u]
      BY <2>4 DEF Return, Goto, TypeOK
    <3> QED BY <3>1
  <2>5. CASE ConsultCache(u) \/ CompareAge(u)
    <3>1. /\ forced' = forced /\ pc'[u] \in {"compare", "take", "request"}
          /\ pc[u] \in {"consult", "compare"}
      BY <2>5 DEF ConsultCache, CompareAge, Goto, TypeOK, locals
    <3> QED BY <2>1, <3>1
  <2>6. CASE TakeCached(u)
    <3>1. forced' = forced /\ ~ forced[u] /\ pc'[u] = "judge"
      BY <2>6 DEF TakeCached, Goto, TypeOK
    <3> QED BY <2>1, <3>1
  <2>7. ASSUME NEW keys \in {published, Malformed}, Serve(u, keys)
        PROVE  /\ jwks'[u].keys = keys /\ pc'[u] = "store"
               /\ published' = published /\ token' = token
    BY <2>7 DEF Serve, Goto, TypeOK, environment
  <2>8. CASE Serve(u, published) \/ Serve(u, Malformed)
    BY <2>1, <2>7, <2>8
  <2>9. CASE StoreCache(u) \/ StampLoadedAt(u)
    <3>1. /\ forced' = forced /\ pc[u] \in {"store", "stamp"}
          /\ pc'[u] \in {"stamp", "judge"} /\ jwks' = jwks
      BY <2>9 DEF StoreCache, StampLoadedAt, Goto, TypeOK, locals
    <3> QED BY <2>1, <3>1
  <2>10. CASE ForceRefresh(u)
    <3>1. pc'[u] = "request"
      BY <2>10 DEF ForceRefresh, Goto, TypeOK
    <3> QED BY <2>1, <3>1
  <2> QED BY <1>2, <2>2, <2>3, <2>4, <2>5, <2>6, <2>8, <2>9, <2>10
      DEF Continue, Load
<1> QED BY <1>1, <1>2

(* The initial states satisfy the inductive invariant.                     *)
LEMMA InitIInv == Init => IInv
<1> SUFFICES ASSUME Init PROVE IInv
  OBVIOUS
<1> USE DEF Init
<1>1. TypeOK
  BY ConfigAssumption DEF TypeOK, PCs, Verdicts
<1>2. HistoryInv /\ LoadInv /\ StampInv
  BY DEF HistoryInv, TrueBody, LoadInv, Loading, StampInv, StampMatchesBody
<1>3. CallInv /\ TokenInv /\ SteadyInv
  BY DEF CallInv, TokenInv, AcceptedByJwks, SteadyInv
<1> QED BY <1>1, <1>2, <1>3 DEF IInv

(* The invariant from which the properties follow holds in every state.    *)
THEOREM Invariance == Spec => []IInv
<1>1. TypeOK /\ IInv /\ [Next]_vars /\ TypeOK' => IInv'
  BY HistoryStep, LoadStep, StampStep, CallStep, TokenStep, SteadyStep DEF IInv
<1> QED BY <1>1, InitIInv, TypeCorrect, PTL DEF Spec

(* However loads and rotations interleave, a token is accepted only on a   *)
(* key that Keycloak still published less than TTL + 2 MaxLatency before   *)
(* the call looked at the cache.                                           *)
THEOREM AcceptanceIsRecent == Spec => []AcceptedKeyIsRecent
<1>1. Init => AcceptedKeyIsRecent
  BY DEF Init, AcceptedKeyIsRecent, AcceptedByJwks
<1>2. IInv /\ AcceptedKeyIsRecent /\ [Next]_vars => AcceptedKeyIsRecent'
  <2> SUFFICES ASSUME IInv, AcceptedKeyIsRecent, [Next]_vars, TTL > 0,
                      NEW u \in Threads, AcceptedByJwks(u)'
               PROVE  PublishedAfter(token[u].kid, token[u].key, asked[u] - MaxAge)'
    BY DEF AcceptedKeyIsRecent
  <2>1. TypeOK /\ HistoryInv /\ CallInv /\ TokenInv
    BY DEF IInv
  <2>2. /\ asked[u] \in Nat /\ asked[u] <= now /\ MaxAge \in Nat /\ MaxAge > 0
        /\ now \in Nat
    BY <2>1, Ranges, ConfigAssumption DEF CallInv, MaxAge
  <2>3. asked[u] - MaxAge \in Int /\ asked[u] - MaxAge < now
    BY <2>2
  <2>4. CASE ~ Begin(u) /\ ~ Continue(u)
    <3>1. OthersKeep(u)
      BY <2>1, <2>4, NotItsStep
    <3>2. AcceptedByJwks(u)
      BY <3>1 DEF AcceptedByJwks, OthersKeep
    <3>3. token[u].kid \in Kids /\ token[u].key \in Keys
      BY <2>1, <3>2 DEF TokenInv, AcceptedByJwks, Tokens
    <3>4. PublishedAfter(token[u].kid, token[u].key, asked[u] - MaxAge)
      BY <3>2 DEF AcceptedKeyIsRecent
    <3>5. PICK kid \in Kids, k \in Keys, a \in Int :
            kid = token[u].kid /\ k = token[u].key /\ a = asked[u] - MaxAge
      BY <2>3, <3>3
    <3>6. PublishedAfter(kid, k, a)'
      BY <2>1, <2>3, <3>4, <3>5, PublicationIsRecorded
    <3> QED BY <3>1, <3>5, <3>6 DEF PublishedAfter, OthersKeep
  <2>5. CASE JudgeClaims(u)
    <3>1. /\ pc[u] = "judge" /\ Found(u) /\ Signed(u)
          /\ UNCHANGED <<published, withdrawnAt, token, asked>>
      BY <2>5 DEF JudgeClaims, environment
    <3>2. /\ token[u].kid \in Kids /\ token[u].key \in Keys
          /\ Recent(jwks[u], u) /\ jwks[u].keys # Malformed
          /\ jwks[u].keys[token[u].kid] = token[u].key
      BY <2>1, <3>1 DEF CallInv, TokenInv, Tokens, Found, LookupErrors, Signed
    <3>3. /\ PublishedAfter(token[u].kid, token[u].key, jwks[u].servedAt - 1)
          /\ jwks[u].servedAt \in Nat /\ jwks[u].servedAt + MaxAge > asked[u]
      BY <2>1, <3>2, Ranges DEF Recent, HistoryInv, TrueBody
    <3>4. withdrawnAt[token[u].kid][token[u].key] \in Nat \cup {NoTime}
      BY <2>1, <3>2 DEF TypeOK
    <3> QED BY <2>2, <3>1, <3>3, <3>4 DEF PublishedAfter
  <2>6. CASE Begin(u)
    <3> PICK tok \in Tokens :
          BeginRejected(u, tok) \/ BeginHS256(u, tok) \/ BeginRS256(u, tok)
      BY <2>6, OfferedAssumption DEF Begin
    <3>1. ~ AcceptedByJwks(u)'
      BY <2>1 DEF BeginRejected, BeginHS256, BeginRS256, StartCall, End, Goto,
         TypeOK, AcceptedByJwks
    <3> QED BY <3>1
  <2>7. CASE FailLoad(u) \/ RejectLookup(u) \/ RejectSignature(u)
    BY <2>1, <2>7 DEF FailLoad, RejectLookup, RejectSignature, LookupErrors,
       End, Goto, TypeOK, AcceptedByJwks
  <2>8. CASE ConsultCache(u) \/ CompareAge(u) \/ TakeCached(u)
             \/ ForceRefresh(u) \/ Serve(u, published) \/ Serve(u, Malformed)
             \/ StoreCache(u) \/ StampLoadedAt(u) \/ Return(u)
    BY <2>1, <2>8 DEF ConsultCache, CompareAge, TakeCached, ForceRefresh, Serve,
       StoreCache, StampLoadedAt, Return, Goto, TypeOK, AcceptedByJwks
  <2> QED BY <2>4, <2>5, <2>6, <2>7, <2>8 DEF Continue, Load
<1> QED BY <1>1, <1>2, Invariance, PTL DEF Spec

(* A token whose key stays published is never refused for its signature.   *)
THEOREM SignatureVerdictIsRight == Spec => []NoFalseSignatureReject
<1>1. Init => NoFalseSignatureReject
  BY DEF Init, NoFalseSignatureReject
<1>2. IInv /\ NoFalseSignatureReject /\ [Next]_vars => NoFalseSignatureReject'
  <2> SUFFICES ASSUME IInv, NoFalseSignatureReject, [Next]_vars,
                      NEW u \in Threads, steady'[u], token'[u].alg = "RS256",
                      verdict'[u] = "signature"
               PROVE  FALSE
    BY DEF NoFalseSignatureReject
  <2>1. TypeOK /\ CallInv /\ TokenInv /\ SteadyInv
    BY DEF IInv
  <2>2. CASE Begin(u)
    <3> PICK tok \in Tokens :
          BeginRejected(u, tok) \/ BeginHS256(u, tok) \/ BeginRS256(u, tok)
      BY <2>2, OfferedAssumption DEF Begin
    <3>1. token'[u] = tok
      BY <2>1 DEF BeginRejected, BeginHS256, BeginRS256, StartCall, TypeOK
    <3>2. tok.alg = "RS256" => verdict'[u] # "signature"
      BY <2>1 DEF BeginRejected, BeginHS256, BeginRS256, StartCall, End,
         TypeOK, TokenInv
    <3> QED BY <3>1, <3>2
  <2>3. CASE ~ Begin(u)
    <3>1. steady[u] /\ token'[u] = token[u]
      BY <2>1, <2>3, SteadyKey
    <3>2. verdict[u] # "signature"
      BY <3>1 DEF NoFalseSignatureReject
    <3>3. ~ RejectSignature(u)
      BY <2>1, <3>1 DEF RejectSignature, Found, LookupErrors, Signed,
         MayRefresh, SteadyInv, CallInv
    <3>4. CASE ~ Continue(u)
      BY <2>1, <2>3, <3>2, <3>4, NotItsStep DEF OthersKeep
    <3>5. CASE FailLoad(u) \/ RejectLookup(u) \/ JudgeClaims(u) \/ Return(u)
      BY <2>1, <3>5 DEF FailLoad, RejectLookup, JudgeClaims, LookupErrors,
         SignedOutcomes, End, Return, TypeOK
    <3>6. CASE ConsultCache(u) \/ CompareAge(u) \/ TakeCached(u)
               \/ ForceRefresh(u) \/ Serve(u, published) \/ Serve(u, Malformed)
               \/ StoreCache(u) \/ StampLoadedAt(u)
      BY <3>2, <3>6 DEF ConsultCache, CompareAge, TakeCached, ForceRefresh,
         Serve, StoreCache, StampLoadedAt, locals
    <3> QED BY <2>3, <3>3, <3>4, <3>5, <3>6 DEF Continue, Load
  <2> QED BY <2>2, <2>3
<1> QED BY <1>1, <1>2, Invariance, PTL DEF Spec

(* No late answer sets the cache back by more than one latency.            *)
THEOREM RollbackBound == Spec => RollbackIsBounded
<1>1. IInv /\ [Next]_vars =>
        [cache # NoJwks => cache'.servedAt + MaxLatency >= cache.servedAt]_vars
  <2> SUFFICES ASSUME IInv, [Next]_vars, cache # NoJwks
               PROVE  cache'.servedAt + MaxLatency >= cache.servedAt
    OBVIOUS
  <2>1. TypeOK /\ HistoryInv /\ LoadInv
    BY DEF IInv
  <2>2. ASSUME NEW t \in Threads, StoreCache(t)
        PROVE  cache'.servedAt + MaxLatency >= cache.servedAt
    BY <2>1, <2>2, StoredBody, Ranges
  <2>3. cache' = cache => cache'.servedAt + MaxLatency >= cache.servedAt
    BY <2>1, Ranges
  <2> QED BY <2>1, <2>2, <2>3, CacheSources
<1> QED BY <1>1, Invariance, PTL DEF Spec, RollbackIsBounded

(* The time stamp is at most two latencies ahead of the body beside it.    *)
THEOREM StampIsHonest == Spec => []StampMatchesBody
<1>1. IInv => StampMatchesBody
  BY DEF IInv, StampInv
<1> QED BY <1>1, Invariance, PTL

(* A body without a time stamp belongs to a load still under way, and is   *)
(* at most a latency old.                                                  *)
THEOREM UnstampedIsNew == Spec => []UnstampedIsFresh
<1>1. IInv => UnstampedIsFresh
  BY DEF IInv, StampInv, UnstampedIsFresh, LoadInv, Loading
<1> QED BY <1>1, Invariance, PTL

(* Every body a call judges by, a bad one included, was served less than   *)
(* TTL + 2 MaxLatency before the call looked at the cache.                 *)
THEOREM JudgementIsRecent == Spec => []JudgedByRecentBody
<1>1. IInv => JudgedByRecentBody
  BY DEF IInv, CallInv, Recent, JudgedByRecentBody
<1> QED BY <1>1, Invariance, PTL

=============================================================================
