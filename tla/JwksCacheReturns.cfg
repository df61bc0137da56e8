\* Tokens of every kind, a key no JWK decodes to, answers without keys; every call
\* judges by a recent body and returns.
SPECIFICATION FairSpec
CONSTANTS
  t1 = t1
  t2 = t2
  kid1 = kid1
  kid2 = kid2
  k1 = k1
  k2 = k2
  k3 = k3
  Threads = {t1, t2}
  Kids = {kid1}
  Keys = {k1, k2}
  RsaKeys = {k1}
  AllowedAlgs <- BothAlgs
  VerificationKey = k1
  Offered <- MixedTokens
  TTL = 1
  Garbled = TRUE
  MaxLatency = 0
  MaxTime = 1
  NoKey = NoKey
  NoKid = NoKid
  NoTime = NoTime
  NoToken = NoToken
  NoJwks = NoJwks
  Malformed = Malformed
INVARIANT JudgedByRecentBody
PROPERTY CallsReturn
