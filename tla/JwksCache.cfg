\* Two threads, one kid whose key is replaced, a TTL longer than the latency.
SPECIFICATION Spec
CONSTANTS
  t1 = t1
  t2 = t2
  kid1 = kid1
  kid2 = kid2
  k1 = k1
  k2 = k2
  k3 = k3
  Threads = {t1, t2}
  Kids = {kid1}
  Keys = {k1, k2}
  RsaKeys = {k1, k2}
  AllowedAlgs = {"RS256"}
  VerificationKey = NoKey
  Offered <- OneToken
  TTL = 1
  Garbled = FALSE
  MaxLatency = 1
  MaxTime = 3
  NoKey = NoKey
  NoKid = NoKid
  NoTime = NoTime
  NoToken = NoToken
  NoJwks = NoJwks
  Malformed = Malformed
SYMMETRY ThreadSymmetry
INVARIANTS
  TypeOK
  AcceptedKeyIsRecent
  NoFalseSignatureReject
  StampMatchesBody
  UnstampedIsFresh
PROPERTY RollbackIsBounded
