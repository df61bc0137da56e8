\* One thread, two kids: a token of a kid the cached JWKS does not have.
SPECIFICATION Spec
CONSTANTS
  t1 = t1
  t2 = t2
  kid1 = kid1
  kid2 = kid2
  k1 = k1
  k2 = k2
  k3 = k3
  Threads = {t1}
  Kids = {kid1, kid2}
  Keys = {k1, k2}
  RsaKeys = {k1, k2}
  AllowedAlgs = {"RS256"}
  VerificationKey = NoKey
  Offered <- RS256Tokens
  TTL = 1
  Garbled = TRUE
  MaxLatency = 1
  MaxTime = 1
  NoKey = NoKey
  NoKid = NoKid
  NoTime = NoTime
  NoToken = NoToken
  NoJwks = NoJwks
  Malformed = Malformed
INVARIANT PublishedKidIsFound
