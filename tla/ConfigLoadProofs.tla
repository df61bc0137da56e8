-------------------------- MODULE ConfigLoadProofs --------------------------
(***************************************************************************)
(* Proofs about ConfigLoad, for any environment an application may start   *)
(* in, any selection of services, and any changes by others, and about     *)
(* Startup, for any constructor that may raise: what the fields' values    *)
(* say of the raw ones, what the rules say of an environment, the          *)
(* invariant of a call, the outcome of a call, and the clients made of it. *)
(***************************************************************************)
EXTENDS Startup, FiniteSetTheorems, TLAPS

(***************************************************************************)
(* Fields and values.                                                      *)
(***************************************************************************)

(* Which fields the rules and the factories ask for, and of what kind.     *)
Kinds(c, kind, fields) == \A f \in fields : f \in DOMAIN Fields[c] /\ Fields[c][f] = kind

(* ... of Keycloak,                                                        *)
LEMMA KeycloakKinds ==
  /\ Kinds("keycloak", "required", {"client_id"})
  /\ Kinds("keycloak", "optional",
       {"client_secret", "admin_client_secret", "admin_username", "admin_password"})
  /\ Kinds("keycloak", "flag", {"client_public", "provisioning_enabled", "verify_ssl"})
<1> USE DEF Kinds
<1>1. Fields["keycloak"] = KeycloakFields
  BY DEF Fields
<1>2. \A f \in {"client_id"} :
        f \in DOMAIN KeycloakFields /\ KeycloakFields[f] = "required"
  BY DEF KeycloakFields, Class, Range
<1>3. \A f \in {"client_secret", "admin_client_secret", "admin_username", "admin_password"} :
        f \in DOMAIN KeycloakFields /\ KeycloakFields[f] = "optional"
  BY DEF KeycloakFields, Class, Range
<1>4. \A f \in {"client_public", "provisioning_enabled", "verify_ssl"} :
        f \in DOMAIN KeycloakFields /\ KeycloakFields[f] = "flag"
  BY DEF KeycloakFields, Class, Range
<1> QED BY <1>1, <1>2, <1>3, <1>4

(* ... of the stores,                                                      *)
LEMMA StoreKinds ==
  /\ Kinds("postgres", "optional", {"dsn", "host", "db", "user", "password"})
  /\ Kinds("sqlite", "required", {"path"})
  /\ Kinds("minio", "required", {"endpoint", "access_key", "secret_key"})
  /\ Kinds("minio", "flag", {"secure"})
  /\ Kinds("milvus", "required", {"uri"})
  /\ Kinds("milvus", "flag", {"secure"})
<1> USE DEF Kinds
<1>1. /\ Fields["postgres"] = PostgresFields /\ Fields["sqlite"] = SqliteFields
      /\ Fields["minio"] = MinioFields /\ Fields["milvus"] = MilvusFields
  BY DEF Fields
<1>2. \A f \in {"dsn", "host", "db", "user", "password"} :
        f \in DOMAIN PostgresFields /\ PostgresFields[f] = "optional"
  BY DEF PostgresFields, Class, Range
<1>3. "path" \in DOMAIN SqliteFields /\ SqliteFields["path"] = "required"
  BY DEF SqliteFields, Class, Range
<1>4. /\ \A f \in {"endpoint", "access_key", "secret_key"} :
           f \in DOMAIN MinioFields /\ MinioFields[f] = "required"
      /\ "secure" \in DOMAIN MinioFields /\ MinioFields["secure"] = "flag"
  BY DEF MinioFields, Class, Range
<1>5. /\ "uri" \in DOMAIN MilvusFields /\ MilvusFields["uri"] = "required"
      /\ "secure" \in DOMAIN MilvusFields /\ MilvusFields["secure"] = "flag"
  BY DEF MilvusFields, Class, Range
<1> QED BY <1>1, <1>2, <1>3, <1>4, <1>5

(* ... and of the rest.                                                    *)
LEMMA ServiceKinds ==
  /\ Kinds("common", "text", {"env"})
  /\ Kinds("ollama", "required", {"host"})
  /\ Kinds("langfuse", "optional", {"host", "public_key", "secret_key", "environment"})
  /\ Kinds("langfuse", "flag", {"enabled"})
  /\ Kinds("nats", "optional", {"user", "password", "token", "creds_file"})
  /\ Kinds("nats", "list", {"servers"})
<1> USE DEF Kinds
<1>1. /\ Fields["common"] = CommonFields /\ Fields["ollama"] = OllamaFields
      /\ Fields["langfuse"] = LangfuseFields /\ Fields["nats"] = NatsFields
  BY DEF Fields
<1>2. "env" \in DOMAIN CommonFields /\ CommonFields["env"] = "text"
  BY DEF CommonFields, Class, Range
<1>3. "host" \in DOMAIN OllamaFields /\ OllamaFields["host"] = "required"
  BY DEF OllamaFields, Class, Range
<1>4. /\ \A f \in {"host", "public_key", "secret_key", "environment"} :
           f \in DOMAIN LangfuseFields /\ LangfuseFields[f] = "optional"
      /\ "enabled" \in DOMAIN LangfuseFields /\ LangfuseFields["enabled"] = "flag"
  BY DEF LangfuseFields, Class, Range
<1>5. /\ \A f \in {"user", "password", "token", "creds_file"} :
           f \in DOMAIN NatsFields /\ NatsFields[f] = "optional"
      /\ "servers" \in DOMAIN NatsFields /\ NatsFields["servers"] = "list"
  BY DEF NatsFields, Class, Range
<1> QED BY <1>1, <1>2, <1>3, <1>4, <1>5

(* The sections are told from the common settings.                         *)
LEMMA ClassFacts == "common" \notin Services /\ "langfuse" \in Services
BY DEF Services, Order, Range

(* What an accepted value says of the variable it was read from, by the    *)
(* kind of its field.                                                      *)
LEMMA Accepts ==
  ASSUME NEW c, NEW e, Range(e) \subseteq Raws, Invalid(c, e) = {}, NEW f \in DOMAIN Fields[c]
  PROVE  /\ Raw(e, c, f) \in Raws \cup {Unset}
         /\ Raw(e, c, f) \in Accepted(Fields[c][f])
BY DEF Invalid, Raw, Range

(* A required field has a value,                                           *)
LEMMA RequiredMeans ==
  ASSUME NEW c, NEW e, Range(e) \subseteq Raws, Invalid(c, e) = {},
         NEW fields, Kinds(c, "required", fields), NEW f \in fields
  PROVE  Given(e, c, f) /\ Value(c, f, Raw(e, c, f)) # None
<1>1. f \in DOMAIN Fields[c] /\ Fields[c][f] = "required"
  BY DEF Kinds
<1>2. Raw(e, c, f) \in Raws \ {" "}
  BY <1>1, Accepts DEF Accepted
<1>3. Unset \notin Raws /\ None \notin Raws
  BY DEF Raws, Unset, None, Numbers
<1> QED BY <1>1, <1>2, <1>3 DEF Given, Value

(* ... an optional one just when its variable is given,                    *)
LEMMA OptionalMeans ==
  ASSUME NEW c, NEW e, Range(e) \subseteq Raws, Invalid(c, e) = {},
         NEW fields, Kinds(c, "optional", fields), NEW f \in fields
  PROVE  /\ Given(e, c, f) => Value(c, f, Raw(e, c, f)) = Raw(e, c, f)
         /\ Given(e, c, f) <=> Value(c, f, Raw(e, c, f)) # None
<1>1. f \in DOMAIN Fields[c] /\ Fields[c][f] = "optional"
  BY DEF Kinds
<1>2. Raw(e, c, f) \in Raws \cup {Unset}
  BY <1>1, Accepts
<1>3. None \notin Raws
  BY DEF Raws, None, Numbers
<1>4. CASE Given(e, c, f)
  BY <1>1, <1>2, <1>3, <1>4 DEF Given, Value
<1>5. CASE ~ Given(e, c, f)
  <2>1. <<c, f>> # <<"common", "env">>
    BY <1>1, ServiceKinds DEF Kinds
  <2>2. Default(c, f) = None
    BY <1>1, <2>1 DEF Default
  <2> QED BY <1>5, <2>2 DEF Given, Value
<1> QED BY <1>4, <1>5

(* ... a flag is one of two, by its variable or by its default,            *)
LEMMA FlagMeans ==
  ASSUME NEW c, NEW e, Range(e) \subseteq Raws, Invalid(c, e) = {},
         NEW fields, Kinds(c, "flag", fields), NEW f \in fields
  PROVE  /\ Value(c, f, Raw(e, c, f)) \in {"true", "false"}
         /\ Value(c, f, Raw(e, c, f)) = "false" <=>
              Off(e, c, f) \/ (Raw(e, c, f) = Unset /\ <<c, f>> \notin OnByDefault)
         /\ Value(c, f, Raw(e, c, f)) = "true" <=>
              On(e, c, f) \/ (Raw(e, c, f) = Unset /\ <<c, f>> \in OnByDefault)
<1>1. f \in DOMAIN Fields[c] /\ Fields[c][f] = "flag"
  BY DEF Kinds
<1>2. Raw(e, c, f) \in {Unset, "true", "TRUE", "false"}
  BY <1>1, Accepts DEF Accepted
<1>3. CASE Raw(e, c, f) = Unset
  <2>1. <<c, f>> # <<"common", "env">>
    BY <1>1, ServiceKinds DEF Kinds
  <2>2. Default(c, f) = IF <<c, f>> \in OnByDefault THEN "true" ELSE "false"
    BY <1>1, <2>1 DEF Default
  <2> QED BY <1>3, <2>2 DEF Value, Off, On, Unset
<1>4. CASE Raw(e, c, f) # Unset
  <2>1. Value(c, f, Raw(e, c, f)) = Lower(Raw(e, c, f))
    BY <1>1, <1>2, <1>4 DEF Value
  <2> QED BY <1>2, <1>4, <2>1 DEF Lower, Off, On
<1> QED BY <1>3, <1>4

(* ... and a list is there when it holds something.                        *)
LEMMA ListMeans ==
  ASSUME NEW c, NEW e, Range(e) \subseteq Raws, Invalid(c, e) = {},
         NEW fields, Kinds(c, "list", fields), NEW f \in fields
  PROVE  Value(c, f, Raw(e, c, f)) = None <=> ~ (Given(e, c, f) /\ Raw(e, c, f) # ",")
<1>1. f \in DOMAIN Fields[c] /\ Fields[c][f] = "list"
  BY DEF Kinds
<1>2. Raw(e, c, f) \in Raws \cup {Unset}
  BY <1>1, Accepts
<1>3. None \notin Raws
  BY DEF Raws, None, Numbers
<1>4. CASE Given(e, c, f)
  BY <1>1, <1>2, <1>3, <1>4 DEF Given, Value
<1>5. CASE ~ Given(e, c, f)
  <2>1. <<c, f>> # <<"common", "env">>
    BY <1>1, ServiceKinds DEF Kinds
  <2>2. Default(c, f) = None
    BY <1>1, <2>1 DEF Default
  <2> QED BY <1>5, <2>2 DEF Given, Value
<1> QED BY <1>4, <1>5

(***************************************************************************)
(* Rules and environments.                                                 *)
(***************************************************************************)

(* Of rules that are broken one is the first.  No class has more than four. *)
LEMMA BrokenMeans ==
  ASSUME NEW c, NEW s, NEW n \in {0, 1, 2, 3, 4}, DOMAIN Rules(c, s) = 1..n
  PROVE  /\ Broken(c, s) = {} <=> \A i \in 1..n : ~ Rules(c, s)[i].broken
         /\ \A v \in Broken(c, s) : v[1] = c
<1>1. PICK R : R = Rules(c, s)
  OBVIOUS
<1> DEFINE first(i) == R[i].broken /\ \A j \in 1..(i - 1) : ~ R[j].broken
<1>2. Broken(c, s) = {<<c, R[i].complaint>> : i \in {j \in 1..n : first(j)}}
  BY <1>1 DEF Broken
<1>3. (\E i \in 1..n : R[i].broken) <=> (\E i \in 1..n : first(i))
  <2>1. \A i : first(i) => R[i].broken
    OBVIOUS
  <2>2. 1..n \subseteq {1, 2, 3, 4} /\ \A i \in 1..n : \A j \in 1..(i - 1) : j \in 1..n
    OBVIOUS
  <2>3. ASSUME 1 \in 1..n, R[1].broken PROVE first(1)
    BY <2>3
  <2>4. ASSUME 2 \in 1..n, R[2].broken, ~ R[1].broken PROVE first(2)
    BY <2>4
  <2>5. ASSUME 3 \in 1..n, R[3].broken, ~ R[1].broken, ~ R[2].broken PROVE first(3)
    <3>1. \A j \in 1..(3 - 1) : j = 1 \/ j = 2
      OBVIOUS
    <3> QED BY <2>5, <3>1
  <2>6. ASSUME 4 \in 1..n, R[4].broken, ~ R[1].broken, ~ R[2].broken, ~ R[3].broken PROVE first(4)
    <3>1. \A j \in 1..(4 - 1) : j = 1 \/ j = 2 \/ j = 3
      OBVIOUS
    <3> QED BY <2>6, <3>1
  <2>7. \A i \in 1..n : i \in {1, 2, 3, 4} /\ (i > 1 => 1 \in 1..n) /\ (i > 2 => 2 \in 1..n)
                          /\ (i > 3 => 3 \in 1..n)
    OBVIOUS
  <2> HIDE DEF first
  <2> QED BY <2>1, <2>3, <2>4, <2>5, <2>6, <2>7
<1> HIDE DEF first
<1>4. PICK F : F = {j \in 1..n : first(j)}
  OBVIOUS
<1>5. Broken(c, s) = {<<c, R[i].complaint>> : i \in F}
  BY <1>2, <1>4
<1>6. Broken(c, s) = {} <=> F = {}
  BY <1>5
<1>7. F = {} <=> \A i \in 1..n : ~ R[i].broken
  BY <1>3, <1>4
<1>8. \A v \in Broken(c, s) : v[1] = c
  BY <1>5
<1> QED BY <1>1, <1>6, <1>7, <1>8

LEMMA RuleMeans == ASSUME NEW complaint, NEW broken PROVE Rule(complaint, broken).broken = broken
BY DEF Rule

LEMMA MissingMeans ==
  ASSUME NEW s, NEW fields, NEW i \in DOMAIN fields
  PROVE  Missing(s, fields)[i].broken <=> s[fields[i]] = None
BY DEF Missing, Rule

(* Fewer than two of the three ways to authenticate: none, or one alone.   *)
LEMMA OneMode ==
  ASSUME NEW M, M \subseteq {"user", "token", "creds_file"}
  PROVE  ~ (Cardinality(M) > 1) <=> \A m, k \in M : m = k
<1>1. IsFiniteSet({"user", "token", "creds_file"})
  <2>1. IsFiniteSet({"user"}) /\ IsFiniteSet({"user", "token"})
    BY FS_EmptySet, FS_AddElement
  <2> QED BY <2>1, FS_AddElement
<1>2. IsFiniteSet(M)
  BY <1>1, FS_Subset
<1>3. ASSUME NEW m \in M, NEW k \in M, m # k PROVE Cardinality(M) > 1
  <2>1. IsFiniteSet(M \ {m}) /\ Cardinality(M \ {m}) = Cardinality(M) - 1
    BY <1>2, FS_RemoveElement
  <2>2. Cardinality(M) \in Nat
    BY <1>2, FS_CardinalityType
  <2>3. k \in M \ {m}
    BY <1>3
  <2>4. Cardinality(M \ {m}) # 0
    BY <2>1, <2>3, FS_EmptySet
  <2>5. Cardinality(M \ {m}) \in Nat
    BY <2>1, FS_CardinalityType
  <2> QED BY <2>1, <2>2, <2>4, <2>5
<1>4. ASSUME \A m, k \in M : m = k PROVE ~ (Cardinality(M) > 1)
  <2>1. CASE M = {}
    BY <2>1, FS_EmptySet
  <2>2. CASE M # {}
    <3>1. PICK m : M = {m}
      BY <1>4, <2>2
    <3>2. Cardinality({m}) = 1
      BY FS_Singleton
    <3>3. ~ (1 > 1)
      OBVIOUS
    <3> QED BY <3>1, <3>2, <3>3
  <2> QED BY <2>1, <2>2
<1> QED BY <1>3, <1>4

(* What each class's validator lets pass.                                  *)
LEMMA KeycloakRulesMean ==
  ASSUME NEW s
  PROVE  Broken("keycloak", s) = {} <=>
           /\ s.client_id # None
           /\ ~ (s.client_public = "false" /\ s.client_secret = None)
           /\ s.provisioning_enabled = "true" => SingleAdminMode(s)
<1> DEFINE R == KeycloakRules(s)
<1>1. Rules("keycloak", s) = R
  BY DEF Rules
<1>2. /\ DOMAIN R = 1..3
      /\ R[1] = Rule("client_id", s.client_id = None)
      /\ R[2] = Rule("client_secret", s.client_public = "false" /\ s.client_secret = None)
      /\ R[3] = Rule("admin mode", s.provisioning_enabled = "true" /\ ~ SingleAdminMode(s))
  BY DEF KeycloakRules
<1> HIDE DEF R
<1>3. Broken("keycloak", s) = {} <=> \A i \in 1..3 : ~ R[i].broken
  BY <1>1, <1>2, BrokenMeans
<1>4. (\A i \in 1..3 : ~ R[i].broken) <=> ~ R[1].broken /\ ~ R[2].broken /\ ~ R[3].broken
  <2>1. \A i \in 1..3 : i = 1 \/ i = 2 \/ i = 3
    OBVIOUS
  <2> QED BY <2>1
<1>5. /\ R[1].broken <=> s.client_id = None
      /\ R[2].broken <=> s.client_public = "false" /\ s.client_secret = None
      /\ R[3].broken <=> s.provisioning_enabled = "true" /\ ~ SingleAdminMode(s)
  BY <1>2, RuleMeans
<1> QED BY <1>3, <1>4, <1>5

LEMMA NatsRulesMean ==
  ASSUME NEW s
  PROVE  Broken("nats", s) = {} <=>
           /\ s.servers # None
           /\ \A m, k \in NatsModes(s) : m = k
           /\ NatsPair(s)
<1> DEFINE R == NatsRules(s)
<1>1. Rules("nats", s) = R
  BY DEF Rules
<1>2. /\ DOMAIN R = 1..3
      /\ R[1] = Rule("servers", s.servers = None)
      /\ R[2] = Rule("single mode", Cardinality(NatsModes(s)) > 1)
      /\ R[3] = Rule("together", ~ NatsPair(s))
  BY DEF NatsRules
<1> HIDE DEF R
<1>3. Broken("nats", s) = {} <=> \A i \in 1..3 : ~ R[i].broken
  BY <1>1, <1>2, BrokenMeans
<1>4. (\A i \in 1..3 : ~ R[i].broken) <=> ~ R[1].broken /\ ~ R[2].broken /\ ~ R[3].broken
  <2>1. \A i \in 1..3 : i = 1 \/ i = 2 \/ i = 3
    OBVIOUS
  <2> QED BY <2>1
<1>5. NatsModes(s) \subseteq {"user", "token", "creds_file"}
  BY DEF NatsModes
<1>6. R[1].broken <=> s.servers = None
  BY <1>2, RuleMeans
<1>7. R[2].broken <=> Cardinality(NatsModes(s)) > 1
  <2>1. PICK several : several = (Cardinality(NatsModes(s)) > 1)
    OBVIOUS
  <2>2. R[2] = Rule("single mode", several)
    BY <1>2, <2>1, Zenon
  <2>3. R[2].broken = several
    BY <2>2, RuleMeans
  <2> QED BY <2>1, <2>3, Zenon
<1>8. R[3].broken <=> ~ NatsPair(s)
  BY <1>2, RuleMeans
<1> QED BY <1>3, <1>4, <1>5, <1>6, <1>7, <1>8, OneMode

(* ... where it is a list of fields that may not be missing.               *)
LEMMA MissingRulesMean ==
  ASSUME NEW c, NEW s, NEW fields, Rules(c, s) = Missing(s, fields),
         NEW n \in {0, 1, 2, 3, 4}, DOMAIN fields = 1..n
  PROVE  Broken(c, s) = {} <=> \A i \in 1..n : s[fields[i]] # None
<1>1. DOMAIN Rules(c, s) = 1..n
  BY DEF Missing
<1>2. Broken(c, s) = {} <=> \A i \in 1..n : ~ Rules(c, s)[i].broken
  BY <1>1, BrokenMeans
<1>3. \A i \in 1..n : Rules(c, s)[i].broken <=> s[fields[i]] = None
  BY MissingMeans
<1> QED BY <1>2, <1>3

LEMMA PostgresRulesMean ==
  ASSUME NEW s
  PROVE  Broken("postgres", s) = {} <=>
           s.dsn # None \/ \A f \in {"host", "db", "user", "password"} : s[f] # None
<1>1. CASE s.dsn # None
  <2>1. Rules("postgres", s) = << >>
    BY <1>1 DEF Rules, PostgresRules
  <2>2. DOMAIN Rules("postgres", s) = 1..0
    BY <2>1
  <2> QED BY <1>1, <2>2, BrokenMeans
<1>2. CASE s.dsn = None
  <2> DEFINE fields == <<"host", "db", "user", "password">>
  <2>1. Rules("postgres", s) = Missing(s, fields)
    BY <1>2 DEF Rules, PostgresRules
  <2>2. DOMAIN fields = 1..4 /\ {fields[i] : i \in 1..4} = {"host", "db", "user", "password"}
    OBVIOUS
  <2> HIDE DEF fields
  <2>3. Broken("postgres", s) = {} <=> \A i \in 1..4 : s[fields[i]] # None
    BY <2>1, <2>2, MissingRulesMean
  <2> QED BY <1>2, <2>2, <2>3
<1> QED BY <1>1, <1>2

LEMMA LangfuseRulesMean ==
  ASSUME NEW s
  PROVE  Broken("langfuse", s) = {} <=>
           s.enabled = "false" \/ \A f \in {"host", "public_key", "secret_key"} : s[f] # None
<1>1. CASE s.enabled = "false"
  <2>1. Rules("langfuse", s) = << >>
    BY <1>1 DEF Rules, LangfuseRules
  <2>2. DOMAIN Rules("langfuse", s) = 1..0
    BY <2>1
  <2> QED BY <1>1, <2>2, BrokenMeans
<1>2. CASE s.enabled # "false"
  <2> DEFINE fields == <<"host", "public_key", "secret_key">>
  <2>1. Rules("langfuse", s) = Missing(s, fields)
    BY <1>2 DEF Rules, LangfuseRules
  <2>2. DOMAIN fields = 1..3 /\ {fields[i] : i \in 1..3} = {"host", "public_key", "secret_key"}
    OBVIOUS
  <2> HIDE DEF fields
  <2>3. Broken("langfuse", s) = {} <=> \A i \in 1..3 : s[fields[i]] # None
    BY <2>1, <2>2, MissingRulesMean
  <2> QED BY <1>2, <2>2, <2>3
<1> QED BY <1>1, <1>2

(* ... and the classes whose only rules ask for their required fields.     *)
LEMMA PlainRulesMean ==
  ASSUME NEW c \in {"common", "sqlite", "minio", "milvus", "ollama"}, NEW s,
         \A f \in DOMAIN Fields[c] : Fields[c][f] = "required" => s[f] # None
  PROVE  Broken(c, s) = {}
<1>1. CASE c = "common"
  <2>1. DOMAIN Rules(c, s) = 1..0
    BY <1>1 DEF Rules
  <2> QED BY <2>1, BrokenMeans
<1>2. CASE c \in {"sqlite", "milvus", "ollama"}
  <2>1. PICK f \in {"path", "uri", "host"} : Rules(c, s) = Missing(s, <<f>>) /\ Kinds(c, "required", {f})
    BY <1>2, StoreKinds, ServiceKinds DEF Rules
  <2>2. DOMAIN <<f>> = 1..1 /\ \A i \in 1..1 : <<f>>[i] = f
    OBVIOUS
  <2> QED BY <2>1, <2>2, MissingRulesMean DEF Kinds
<1>3. CASE c = "minio"
  <2> DEFINE fields == <<"endpoint", "access_key", "secret_key">>
  <2>1. Rules(c, s) = Missing(s, fields)
    BY <1>3 DEF Rules
  <2>2. DOMAIN fields = 1..3 /\ \A i \in 1..3 : fields[i] \in {"endpoint", "access_key", "secret_key"}
    OBVIOUS
  <2> HIDE DEF fields
  <2>3. Broken(c, s) = {} <=> \A i \in 1..3 : s[fields[i]] # None
    BY <2>1, <2>2, MissingRulesMean
  <2> QED BY <1>3, <2>2, <2>3, StoreKinds DEF Kinds
<1> QED BY <1>1, <1>2, <1>3

LEMMA Reflected ==
  ASSUME NEW s, NEW c, NEW e, Reflects(s, c, e), NEW kind, NEW fields, Kinds(c, kind, fields),
         NEW f \in fields, <<c, f>> # <<"langfuse", "environment">>
  PROVE  s[f] = Value(c, f, Raw(e, c, f))
BY DEF Reflects, Kinds

LEMMA OptionalGiven ==
  ASSUME NEW s, NEW c, NEW e, Reflects(s, c, e), Range(e) \subseteq Raws, Invalid(c, e) = {},
         NEW fields, Kinds(c, "optional", fields),
         NEW f \in fields, <<c, f>> # <<"langfuse", "environment">>
  PROVE  Given(e, c, f) <=> s[f] # None
<1>1. s[f] = Value(c, f, Raw(e, c, f))
  BY Reflected
<1> QED BY <1>1, OptionalMeans

(* The rules of the classes with rules of their own.                       *)
LEMMA KeycloakConsistency ==
  ASSUME NEW e, Range(e) \subseteq Raws, Invalid("keycloak", e) = {},
         NEW s, Reflects(s, "keycloak", e)
  PROVE  Broken("keycloak", s) = {} <=> Consistent("keycloak", e)
<1>1. \A f \in DOMAIN Fields["keycloak"] : s[f] = Value("keycloak", f, Raw(e, "keycloak", f))
  BY DEF Reflects
<1>2. s.client_id # None
  BY <1>1, KeycloakKinds, RequiredMeans DEF Kinds
<1>3. \A f \in {"client_secret", "admin_client_secret", "admin_username", "admin_password"} :
        Given(e, "keycloak", f) <=> s[f] # None
  BY KeycloakKinds, OptionalGiven
<1>4. \A f \in {"client_public", "provisioning_enabled"} :
        /\ s[f] = "false" <=> ~ On(e, "keycloak", f)
        /\ s[f] = "true" <=> On(e, "keycloak", f)
  <2>1. \A f \in {"client_public", "provisioning_enabled"} : <<"keycloak", f>> \notin OnByDefault
    BY DEF OnByDefault
  <2>2. \A f \in {"client_public", "provisioning_enabled"} :
          /\ f \in {"client_public", "provisioning_enabled", "verify_ssl"}
          /\ f \in DOMAIN Fields["keycloak"]
    BY KeycloakKinds DEF Kinds
  <2> QED BY <1>1, <2>1, <2>2, KeycloakKinds, FlagMeans
<1>5. SingleAdminMode(s) <=>
        Given(e, "keycloak", "admin_client_secret")
          # (Given(e, "keycloak", "admin_username") /\ Given(e, "keycloak", "admin_password"))
  BY <1>3 DEF SingleAdminMode, Given
<1> DEFINE given(fields) == {f \in fields : Given(e, "keycloak", f)}
           all(fields)   == given(fields) = fields
<1>6. Consistent("keycloak", e) <=>
        /\ On(e, "keycloak", "client_public") \/ Given(e, "keycloak", "client_secret")
        /\ On(e, "keycloak", "provisioning_enabled") =>
             all({"admin_client_secret"}) # all({"admin_username", "admin_password"})
  BY DEF Consistent
<1>7. /\ all({"admin_client_secret"}) <=> Given(e, "keycloak", "admin_client_secret")
      /\ all({"admin_username", "admin_password"}) <=>
           Given(e, "keycloak", "admin_username") /\ Given(e, "keycloak", "admin_password")
  OBVIOUS
<1>8. SingleAdminMode(s) <=> all({"admin_client_secret"}) # all({"admin_username", "admin_password"})
  BY <1>5, <1>7 DEF Given
<1> QED BY <1>2, <1>3, <1>4, <1>6, <1>8, KeycloakRulesMean

LEMMA PostgresConsistency ==
  ASSUME NEW e, Range(e) \subseteq Raws, Invalid("postgres", e) = {},
         NEW s, Reflects(s, "postgres", e)
  PROVE  Broken("postgres", s) = {} <=> Consistent("postgres", e)
<1>1. \A f \in {"dsn", "host", "db", "user", "password"} : Given(e, "postgres", f) <=> s[f] # None
  BY StoreKinds, OptionalGiven
<1> DEFINE given(fields) == {f \in fields : Given(e, "postgres", f)}
           four == {"host", "db", "user", "password"}
<1>2. Consistent("postgres", e) <=> Given(e, "postgres", "dsn") \/ given(four) = four
  BY DEF Consistent
<1>3. given(four) = four <=> \A f \in four : Given(e, "postgres", f)
  OBVIOUS
<1> HIDE DEF given
<1> QED BY <1>1, <1>2, <1>3, PostgresRulesMean

LEMMA LangfuseConsistency ==
  ASSUME NEW e, Range(e) \subseteq Raws, Invalid("langfuse", e) = {},
         NEW s, Reflects(s, "langfuse", e)
  PROVE  Broken("langfuse", s) = {} <=> Consistent("langfuse", e)
<1>1. ASSUME NEW f \in {"host", "public_key", "secret_key"}
      PROVE  Given(e, "langfuse", f) <=> s[f] # None
  <2>1. f \in {"host", "public_key", "secret_key", "environment"} /\ f # "environment"
    OBVIOUS
  <2> QED BY <2>1, ServiceKinds, OptionalGiven
<1>2. s.enabled = "false" <=> Off(e, "langfuse", "enabled")
  <2>1. <<"langfuse", "enabled">> \in OnByDefault
    BY DEF OnByDefault
  <2>2. s.enabled = Value("langfuse", "enabled", Raw(e, "langfuse", "enabled"))
    BY ServiceKinds DEF Kinds, Reflects
  <2> QED BY <2>1, <2>2, ServiceKinds, FlagMeans
<1> DEFINE given(fields) == {f \in fields : Given(e, "langfuse", f)}
           three == {"host", "public_key", "secret_key"}
<1>3. Consistent("langfuse", e) <=> Off(e, "langfuse", "enabled") \/ given(three) = three
  BY DEF Consistent
<1>4. given(three) = three <=> \A f \in three : Given(e, "langfuse", f)
  OBVIOUS
<1> HIDE DEF given
<1> QED BY <1>1, <1>2, <1>3, <1>4, LangfuseRulesMean

LEMMA NatsConsistency ==
  ASSUME NEW e, Range(e) \subseteq Raws, Invalid("nats", e) = {},
         NEW s, Reflects(s, "nats", e)
  PROVE  Broken("nats", s) = {} <=> Consistent("nats", e)
<1> DEFINE given == {f \in {"user", "password", "token", "creds_file"} : Given(e, "nats", f)}
<1>1. \A f \in {"user", "password", "token", "creds_file"} : Given(e, "nats", f) <=> s[f] # None
  BY ServiceKinds, OptionalGiven
<1>2. s.servers # None <=> Given(e, "nats", "servers") /\ Raw(e, "nats", "servers") # ","
  <2>1. s.servers = Value("nats", "servers", Raw(e, "nats", "servers"))
    BY ServiceKinds DEF Kinds, Reflects
  <2> QED BY <2>1, ServiceKinds, ListMeans
<1>3. Consistent("nats", e) <=>
        /\ Given(e, "nats", "servers") /\ Raw(e, "nats", "servers") # ","
        /\ given \in {{}, {"user", "password"}, {"token"}, {"creds_file"}}
  BY DEF Consistent
<1>4. /\ NatsPair(s) <=> ("user" \in given <=> "password" \in given)
      /\ "user" \in NatsModes(s) <=> "user" \in given \/ "password" \in given
      /\ "token" \in NatsModes(s) <=> "token" \in given
      /\ "creds_file" \in NatsModes(s) <=> "creds_file" \in given
      /\ NatsModes(s) \subseteq {"user", "token", "creds_file"}
  BY <1>1 DEF NatsPair, NatsModes
<1>5. given \subseteq {"user", "password", "token", "creds_file"}
  OBVIOUS
<1> HIDE DEF given
<1>6. NatsPair(s) /\ (\A m, k \in NatsModes(s) : m = k) <=>
        given \in {{}, {"user", "password"}, {"token"}, {"creds_file"}}
  <2>1. ASSUME NatsPair(s), \A m, k \in NatsModes(s) : m = k
        PROVE  given \in {{}, {"user", "password"}, {"token"}, {"creds_file"}}
    <3>1. CASE "user" \in given
      <4>1. given = {"user", "password"}
        BY <1>4, <1>5, <2>1, <3>1
      <4> QED BY <4>1
    <3>2. CASE "token" \in given
      <4>1. given = {"token"}
        BY <1>4, <1>5, <2>1, <3>2
      <4> QED BY <4>1
    <3>3. CASE "creds_file" \in given
      <4>1. given = {"creds_file"}
        BY <1>4, <1>5, <2>1, <3>3
      <4> QED BY <4>1
    <3>4. CASE given \cap {"user", "token", "creds_file"} = {}
      <4>1. given = {}
        BY <1>4, <1>5, <2>1, <3>4
      <4> QED BY <4>1
    <3> QED BY <3>1, <3>2, <3>3, <3>4
  <2>2. ASSUME given \in {{}, {"user", "password"}, {"token"}, {"creds_file"}}
        PROVE  NatsPair(s) /\ \A m, k \in NatsModes(s) : m = k
    BY <1>4, <2>2
  <2> QED BY <2>1, <2>2
<1> QED BY <1>2, <1>3, <1>6, NatsRulesMean

(* The rules of a class, put to settings read from an environment with no  *)
(* invalid field, pass just when that environment's raw values are         *)
(* consistent (config.py 132-325).                                         *)
THEOREM RulesSayConsistent ==
  ASSUME NEW c \in Classes, NEW e, Range(e) \subseteq Raws, Invalid(c, e) = {},
         NEW s, Reflects(s, c, e)
  PROVE  Broken(c, s) = {} <=> Consistent(c, e)
<1>1. CASE c \in {"common", "sqlite", "minio", "milvus", "ollama"}
  <2>1. ASSUME NEW f \in DOMAIN Fields[c], Fields[c][f] = "required" PROVE s[f] # None
    <3>1. Kinds(c, "required", {f}) /\ f \in {f}
      BY <2>1 DEF Kinds
    <3>2. s[f] = Value(c, f, Raw(e, c, f))
      BY <1>1 DEF Reflects
    <3>3. Value(c, f, Raw(e, c, f)) # None
      BY <3>1, RequiredMeans
    <3> QED BY <3>2, <3>3
  <2> QED BY <1>1, <2>1, PlainRulesMean DEF Consistent
<1>2. CASE c \in {"keycloak", "postgres", "langfuse", "nats"}
  BY <1>2, KeycloakConsistency, PostgresConsistency, LangfuseConsistency, NatsConsistency
<1>3. c \in {"common", "sqlite", "minio", "milvus", "ollama", "keycloak", "postgres", "langfuse", "nats"}
  BY DEF Classes, Services, Order, Range
<1> QED BY <1>1, <1>2, <1>3

(***************************************************************************)
(* The invariant of a call.                                                *)
(***************************************************************************)

(* The defaults are values.                                                *)
LEMMA DefaultType == ASSUME NEW c, NEW f PROVE Default(c, f) \in Texts
<1> USE DEF Texts, Raws, None
<1>1. CASE <<c, f>> = <<"common", "env">>
  BY <1>1 DEF Default
<1>2. CASE <<c, f>> # <<"common", "env">> /\ Fields[c][f] = "flag"
  BY <1>2 DEF Default
<1>3. CASE <<c, f>> # <<"common", "env">> /\ Fields[c][f] # "flag"
  BY <1>3 DEF Default
<1> QED BY <1>1, <1>2, <1>3

(* Accepted values make well-typed settings.                               *)
LEMMA SettingsType ==
  ASSUME NEW c, NEW e, Range(e) \subseteq Raws, Invalid(c, e) = {}
  PROVE  Settings(c, e) \in [DOMAIN Fields[c] -> Texts]
<1> SUFFICES ASSUME NEW f \in DOMAIN Fields[c]
             PROVE  Value(c, f, Raw(e, c, f)) \in Texts
  BY DEF Settings
<1>1. Raw(e, c, f) \in Accepted(Fields[c][f])
  BY DEF Invalid
<1>2. Raw(e, c, f) \in Raws \cup {Unset}
  BY DEF Raw, Range
<1>3. Default(c, f) \in Texts
  BY DefaultType
<1>4. CASE Raw(e, c, f) \in {Unset, " "}
  BY <1>3, <1>4 DEF Value
<1>5. CASE Raw(e, c, f) \notin {Unset, " "} /\ Fields[c][f] = "flag"
  <2>1. Raw(e, c, f) \in {"true", "TRUE", "false"}
    BY <1>1, <1>5 DEF Accepted, Unset
  <2>2. Lower(Raw(e, c, f)) \in Texts
    BY <2>1 DEF Lower, Texts, Raws
  <2> QED BY <1>5, <2>2 DEF Value
<1>6. CASE Raw(e, c, f) \notin {Unset, " "} /\ Fields[c][f] # "flag"
  <2>1. Raw(e, c, f) \in Texts /\ None \in Texts
    BY <1>2, <1>6 DEF Texts
  <2> QED BY <1>6, <2>1 DEF Value
<1> QED BY <1>4, <1>5, <1>6

(* A failure for fields names some.                                        *)
LEMMA NamedNotEmpty == ASSUME NEW c, NEW F, F # {} PROVE Named(c, F) # {}
BY DEF Named

(* The present is the last of the moments there have been.                 *)
LEMMA MomentFacts ==
  ASSUME IInv
  PROVE  /\ Now \in Nat \ {0} /\ DOMAIN moments = 1..Now /\ env = moments[Now]
         /\ DOMAIN env \subseteq Variables /\ Range(env) \subseteq Raws
<1>1. moments \in Seq(Range(moments)) /\ Len(moments) > 0
  BY DEF IInv, MomentsInv
<1>2. Len(moments) \in Nat \ {0} /\ DOMAIN moments = 1..Len(moments)
  BY <1>1
<1> QED BY <1>2 DEF IInv, TypeOK, Now, env

(* The initial states satisfy the invariant,                               *)
LEMMA InitIInv == Init => IInv
<1> SUFFICES ASSUME NEW s \in Scenarios,
                    moments = <<s.env>>, budget = s.budget, pc = "common", todo = {},
                    loaded = << >>, readAt = << >>, outcome = "none", errors = {}
             PROVE  IInv
  BY DEF Init
<1>1. DOMAIN s.env \subseteq Variables /\ Range(s.env) \subseteq Raws /\ s.budget \in Nat
  BY ConfigAssumption
<1>2. DOMAIN moments = {1} /\ moments[1] = s.env /\ Len(moments) = 1
  OBVIOUS
<1>3. DOMAIN loaded = {} /\ DOMAIN readAt = {}
  OBVIOUS
<1>4. TypeOK
  BY <1>1, <1>2, <1>3 DEF TypeOK
<1>5. moments \in Seq(Range(moments))
  <2>1. s.env \in Range(moments)
    BY <1>2 DEF Range
  <2> QED BY <2>1
<1> QED BY <1>2, <1>3, <1>4, <1>5 DEF IInv, MomentsInv, OrderInv, ReadInv, SoundInv

(* Another thread adds a moment and takes none away.                       *)
LEMMA ChangeStep == IInv /\ Change => IInv'
<1> SUFFICES ASSUME IInv, Change PROVE IInv'
  OBVIOUS
<1> DEFINE n == Len(moments)
<1>1. PICK v \in Volatile : moments' = Append(moments, Including(env, v.variable, v.raw))
  BY DEF Change
<1> DEFINE e == Including(env, v.variable, v.raw)
<1>2. /\ budget' = budget - 1 /\ budget > 0
      /\ request' = request /\ pc' = pc /\ todo' = todo /\ loaded' = loaded
      /\ readAt' = readAt /\ outcome' = outcome /\ errors' = errors
  BY DEF Change
<1>3. /\ n \in Nat \ {0} /\ DOMAIN moments = 1..n
      /\ DOMAIN env \subseteq Variables /\ Range(env) \subseteq Raws
  BY MomentFacts DEF Now
<1>4. DOMAIN e \subseteq Variables /\ Range(e) \subseteq Raws
  <2>1. v.variable \in Variables /\ v.raw \in Raws
    BY ConfigAssumption
  <2>2. \A y \in DOMAIN env : env[y] \in Raws
    BY <1>3 DEF Range
  <2>3. DOMAIN e = DOMAIN env \cup {v.variable}
    BY DEF Including
  <2>4. \A y \in DOMAIN e : e[y] \in Raws
    BY <2>1, <2>2, <2>3 DEF Including
  <2> QED BY <1>3, <2>1, <2>3, <2>4 DEF Range
<1> HIDE DEF e
<1>5. moments \in Seq(Range(moments))
  BY DEF IInv, MomentsInv
<1>6. /\ Len(moments') = n + 1 /\ DOMAIN moments' = 1..(n + 1)
      /\ \A i \in 1..n : moments'[i] = moments[i]
      /\ moments'[n + 1] = e
  <2>1. PICK S : S = Range(moments) \cup {e}
    OBVIOUS
  <2>2. moments \in Seq(S) /\ e \in S
    BY <1>5, <2>1
  <2> QED BY <1>1, <1>3, <2>2 DEF e
<1>7. moments' \in Seq(Range(moments'))
  <2>1. \A i \in 1..(n + 1) : moments'[i] \in Range(moments')
    BY <1>6 DEF Range
  <2>2. PICK S : S = Range(moments) \cup {e}
    OBVIOUS
  <2>3. moments' \in Seq(S)
    <3>1. moments \in Seq(S) /\ e \in S
      BY <1>5, <2>2
    <3> QED BY <1>1, <3>1 DEF e
  <2>4. ASSUME NEW R, NEW t \in Seq(S), \A i \in 1..Len(t) : t[i] \in R PROVE t \in Seq(R)
    BY <2>4
  <2> QED BY <1>6, <2>1, <2>3, <2>4
<1>8. n + 1 \in Nat /\ \A i \in 1..(n + 1) : i \in 1..n \/ i = n + 1
  BY <1>3
<1>9. TypeOK'
  <2>1. \A i \in 1..(n + 1) : DOMAIN moments'[i] \subseteq Variables
                              /\ Range(moments'[i]) \subseteq Raws
    BY <1>3, <1>4, <1>6, <1>8 DEF IInv, TypeOK
  <2>2. \A c \in DOMAIN loaded : readAt[c] \in 1..(n + 1)
    BY <1>3 DEF IInv, TypeOK
  <2>3. budget' \in Nat
    BY <1>2 DEF IInv, TypeOK
  <2> QED BY <1>2, <1>6, <2>1, <2>2, <2>3 DEF IInv, TypeOK
<1>10. MomentsInv' /\ OrderInv'
  <2>1. Requested' = Requested
    BY <1>2 DEF Requested
  <2> QED BY <1>2, <1>3, <1>6, <1>7, <2>1 DEF IInv, MomentsInv, OrderInv, Earliest
<1>11. ReadInv'
  <2>1. \A i \in 1..n : NamedAt(i)' = NamedAt(i)
    BY <1>6 DEF NamedAt
  <2>2. \A c \in DOMAIN loaded : readAt[c] \in 1..n /\ moments'[readAt[c]] = moments[readAt[c]]
    BY <1>3, <1>6 DEF IInv, TypeOK
  <2>3. \A c \in DOMAIN loaded : \A i \in readAt[c]..n : i \in 1..n /\ i \in readAt[c]..(n + 1)
    BY <1>3, <2>2
  <2>4. \A c \in DOMAIN loaded : Reflects(loaded[c], c, moments'[readAt[c]])
    BY <2>2 DEF IInv, ReadInv
  <2>5. ASSUME "langfuse" \in DOMAIN loaded, pc = "read" \/ outcome = "returned",
               ~ Given(moments[readAt["langfuse"]], "langfuse", "environment")
        PROVE  \E i \in readAt["langfuse"]..(n + 1) :
                 loaded["langfuse"].environment = NamedAt(i)'
    <3>1. PICK i \in readAt["langfuse"]..n : loaded["langfuse"].environment = NamedAt(i)
      BY <2>5 DEF IInv, ReadInv, Now
    <3> QED BY <2>1, <2>3, <2>5, <3>1
  <2> QED BY <1>2, <1>6, <2>2, <2>4, <2>5 DEF ReadInv, Now
<1>12. SoundInv'
  <2>1. \A c \in DOMAIN loaded : moments'[readAt[c]] = moments[readAt[c]]
    BY <1>3, <1>6 DEF IInv, TypeOK
  <2>2. Insecure' = Insecure
    BY <1>2 DEF Insecure
  <2> QED BY <1>2, <2>1, <2>2 DEF IInv, SoundInv
<1> QED BY <1>9, <1>10, <1>11, <1>12 DEF IInv

(* A failure leaves what was read alone.                                   *)
LEMMA FailStep ==
  ASSUME IInv, pc # "done", NEW complaints, complaints # {}, Fail(complaints)
  PROVE  IInv'
<1>1. /\ pc' = "done" /\ outcome' = "ConfigError" /\ errors' = complaints
      /\ moments' = moments /\ request' = request /\ budget' = budget
      /\ todo' = todo /\ loaded' = loaded /\ readAt' = readAt
  BY DEF Fail
<1>2. TypeOK' /\ MomentsInv' /\ OrderInv'
  BY <1>1 DEF IInv, TypeOK, MomentsInv, OrderInv
<1>3. ReadInv' /\ SoundInv'
  BY <1>1 DEF IInv, ReadInv, SoundInv, NamedAt, Now
<1> QED BY <1>2, <1>3 DEF IInv

LEMMA ReflectsEnv ==
  ASSUME NEW s, NEW e, Reflects(s, "common", e)
  PROVE  s.env = Value("common", "env", Raw(e, "common", "env"))
BY ServiceKinds, Reflected

(* Settings that meet the rules are added, the common ones first, and each *)
(* section at most once, in its turn.                                      *)
LEMMA JudgeStep ==
  ASSUME IInv, NEW c \in Classes, NEW s \in [DOMAIN Fields[c] -> Texts], Judge(c, s),
         NEW at \in DOMAIN moments, at = IF c \in DOMAIN readAt THEN readAt[c] ELSE Now,
         Reflects(s, c, moments[at]), Invalid(c, moments[at]) = {},
         \/ c = "common" /\ pc = "common"
         \/ /\ c \in todo /\ pc = "read"
            /\ c = "langfuse" => Given(env, "langfuse", "environment")
         \/ c = "langfuse" /\ pc = "inherit" /\ s.environment = NamedAt(Now)
  PROVE  IInv'
<1> USE MomentFacts DEF IInv
<1>1. CASE Broken(c, s) # {} /\ Fail(Broken(c, s))
  BY <1>1, FailStep
<1>2. CASE ~ (Broken(c, s) # {} /\ Fail(Broken(c, s)))
  <2>1. /\ loaded' = Including(loaded, c, s) /\ readAt' = Including(readAt, c, at)
        /\ pc' = IF c = "common" THEN "select" ELSE "read"
        /\ todo' = todo \ {c}
        /\ moments' = moments /\ request' = request /\ budget' = budget
        /\ outcome' = outcome /\ errors' = errors
        /\ Broken(c, s) = {}
    BY <1>2 DEF Judge
  <2>2. /\ DOMAIN loaded' = DOMAIN loaded \cup {c} /\ DOMAIN readAt' = DOMAIN loaded'
        /\ loaded'[c] = s /\ readAt'[c] = at
        /\ \A d \in DOMAIN loaded : d # c => loaded'[d] = loaded[d] /\ readAt'[d] = readAt[d]
    BY <2>1 DEF TypeOK, Including
  <2>3. Consistent(c, moments[at])
    <3>1. Range(moments[at]) \subseteq Raws
      BY DEF TypeOK
    <3> QED BY <2>1, <3>1, RulesSayConsistent
  <2>4. outcome = "none"
    BY DEF TypeOK
  <2>5. TypeOK'
    <3>1. \A d \in DOMAIN loaded' : /\ loaded'[d] \in [DOMAIN Fields[d] -> Texts]
                                    /\ readAt'[d] \in DOMAIN moments
      BY <2>2 DEF TypeOK
    <3> QED BY <2>1, <2>2, <2>4, <3>1 DEF TypeOK
  <2>6. MomentsInv'
    BY <2>1 DEF MomentsInv
  <2>7. OrderInv'
    <3>1. Requested' = Requested
      BY <2>1 DEF Requested
    <3>2. CASE c = "common"
      <4>1. pc = "common"
        BY <3>2, ClassFacts DEF TypeOK
      <4> QED BY <2>1, <2>2, <2>4, <3>2, <4>1 DEF OrderInv
    <3>3. CASE c # "common"
      <4>1. pc \in {"read", "inherit"} /\ c \in todo /\ pc' = "read"
        BY <2>1, <3>3 DEF OrderInv, Earliest
      <4>2. todo' \cap DOMAIN loaded' = {} /\ "common" \in DOMAIN loaded'
        BY <2>1, <2>2, <3>3, <4>1 DEF OrderInv
      <4>3. Requested \subseteq Services /\ todo' \cup (DOMAIN loaded' \ {"common"}) = Requested
        BY <2>1, <2>2, <3>3, <4>1 DEF OrderInv
      <4> QED BY <2>4, <2>1, <3>1, <4>1, <4>2, <4>3 DEF OrderInv
    <3> QED BY <3>2, <3>3
  <2>8. ReadInv'
    <3>1. \A i : NamedAt(i)' = NamedAt(i)
      BY <2>1 DEF NamedAt
    <3>2. Now' = Now
      BY <2>1 DEF Now
    <3>3. \A d \in DOMAIN loaded' : Reflects(loaded'[d], d, moments[readAt'[d]])
      BY <2>2 DEF ReadInv
    <3>4. ASSUME "langfuse" \in DOMAIN loaded', pc' = "read",
                 ~ Given(moments[readAt'["langfuse"]], "langfuse", "environment")
          PROVE  \E i \in readAt'["langfuse"]..Now :
                   loaded'["langfuse"].environment = NamedAt(i)
      <4>1. CASE c = "langfuse" /\ pc = "read"
        <5>1. at = Now
          BY <4>1 DEF OrderInv, TypeOK
        <5> QED BY <2>2, <3>4, <4>1, <5>1
      <4>2. CASE c = "langfuse" /\ pc = "inherit"
        <5>1. Now \in at..Now
          OBVIOUS
        <5> QED BY <2>2, <4>2, <5>1
      <4>3. CASE c # "langfuse"
        <5>1. pc = "read" /\ "langfuse" \in DOMAIN loaded
          BY <2>1, <2>2, <3>4, <4>3
        <5> QED BY <2>2, <3>4, <4>3, <5>1 DEF ReadInv
      <4> QED BY <2>1, <3>4, <4>1, <4>2, <4>3
    <3> QED BY <2>1, <2>4, <3>1, <3>2, <3>3, <3>4 DEF ReadInv
  <2>9. SoundInv'
    <3>1. ASSUME NEW d \in DOMAIN loaded'
          PROVE  /\ Invalid(d, moments'[readAt'[d]]) = {}
                 /\ d \notin todo' => Consistent(d, moments'[readAt'[d]])
      <4>1. CASE d = c
        BY <2>1, <2>2, <2>3, <4>1
      <4>2. CASE d # c
        BY <2>1, <2>2, <4>2 DEF SoundInv
      <4> QED BY <4>1, <4>2
    <3>2. outcome' = "none"
      BY <2>1, <2>4
    <3> QED BY <3>1, <3>2 DEF SoundInv
  <2> QED BY <2>5, <2>6, <2>7, <2>8, <2>9
<1> QED BY <1>1, <1>2

LEMMA SettingsReflect == ASSUME NEW c, NEW e PROVE Reflects(Settings(c, e), c, e)
BY DEF Reflects, Settings

(* The steps of a call, one by one.                                        *)
LEMMA ReadCommonStep == IInv /\ ReadCommon => IInv'
<1> SUFFICES ASSUME IInv, ReadCommon PROVE IInv'
  OBVIOUS
<1>1. pc = "common" /\ "common" \in Classes
  BY DEF ReadCommon, Classes
<1>2. CASE Invalid("common", env) # {}
  BY <1>1, <1>2, NamedNotEmpty, FailStep DEF ReadCommon
<1>3. CASE Invalid("common", env) = {}
  <2>1. Settings("common", env) \in [DOMAIN Fields["common"] -> Texts]
    BY <1>3, MomentFacts, SettingsType
  <2>2. "common" \notin DOMAIN readAt /\ Now \in DOMAIN moments /\ env = moments[Now]
    BY <1>1, MomentFacts DEF IInv, OrderInv, TypeOK
  <2>3. Judge("common", Settings("common", env))
    BY <1>3 DEF ReadCommon
  <2>4. Reflects(Settings("common", env), "common", env)
    BY SettingsReflect
  <2> QED BY <1>1, <1>3, <2>1, <2>2, <2>3, <2>4, JudgeStep
<1> QED BY <1>2, <1>3

LEMMA NormalizeStep == IInv /\ Normalize => IInv'
<1> SUFFICES ASSUME IInv, Normalize PROVE IInv'
  OBVIOUS
<1>1. CASE Requested \ Services # {}
  BY <1>1, NamedNotEmpty, FailStep DEF Normalize
<1>2. CASE Requested \ Services = {}
  <2>1. /\ pc = "select" /\ pc' = "read" /\ todo' = Requested
        /\ moments' = moments /\ request' = request /\ budget' = budget
        /\ loaded' = loaded /\ readAt' = readAt /\ outcome' = outcome /\ errors' = errors
    BY <1>2 DEF Normalize
  <2>2. Requested \subseteq Services
    BY <1>2
  <2>3. TypeOK' /\ MomentsInv'
    BY <2>1, <2>2 DEF IInv, TypeOK, MomentsInv
  <2>4. DOMAIN loaded = {"common"} /\ Requested \cap DOMAIN loaded = {}
    BY <2>1, <2>2, ClassFacts DEF IInv, OrderInv
  <2>5. Requested' = Requested
    BY <2>1 DEF Requested
  <2>6. OrderInv'
    BY <2>1, <2>2, <2>4, <2>5 DEF IInv, TypeOK, OrderInv
  <2>7. ReadInv'
    BY <2>1, <2>4, ClassFacts DEF IInv, ReadInv
  <2>8. SoundInv'
    BY <2>1, <2>4 DEF IInv, TypeOK, OrderInv, SoundInv
  <2> QED BY <2>3, <2>6, <2>7, <2>8 DEF IInv
<1> QED BY <1>1, <1>2

LEMMA ReadSectionStep == IInv /\ ReadSection => IInv'
<1> SUFFICES ASSUME IInv, pc = "read", NEW c \in todo, Earliest(c, todo),
                    LET s == Settings(c, env)
                    IN  \/ Invalid(c, env) # {} /\ Fail(Named(c, Invalid(c, env)))
                        \/ Invalid(c, env) = {} /\ ~ Inherits(c, s) /\ Judge(c, s)
                        \/ /\ Invalid(c, env) = {} /\ Inherits(c, s)
                           /\ pc' = "inherit"
                           /\ loaded' = Including(loaded, c, s)
                           /\ readAt' = Including(readAt, c, Now)
                           /\ UNCHANGED <<moments, request, budget, todo, outcome, errors>>
             PROVE  IInv'
  BY DEF ReadSection
<1> DEFINE s == Settings(c, env)
<1>1. c \in Classes /\ c # "common"
  BY ClassFacts DEF IInv, TypeOK, Classes
<1>2. CASE Invalid(c, env) # {} /\ Fail(Named(c, Invalid(c, env)))
  BY <1>2, NamedNotEmpty, FailStep
<1>3. ASSUME Invalid(c, env) = {} PROVE s \in [DOMAIN Fields[c] -> Texts]
  BY <1>3, MomentFacts, SettingsType
<1>4. CASE Invalid(c, env) = {} /\ ~ Inherits(c, s) /\ Judge(c, s)
  <2>1. c = "langfuse" => Given(env, "langfuse", "environment")
    <3> SUFFICES ASSUME c = "langfuse", ~ Given(env, "langfuse", "environment")
                 PROVE  s.environment = None
      BY <1>4 DEF Inherits
    <3>1. /\ "environment" \in DOMAIN Fields["langfuse"]
          /\ Fields["langfuse"]["environment"] = "optional"
      BY ServiceKinds DEF Kinds
    <3>2. /\ s.environment = Value("langfuse", "environment", Raw(env, "langfuse", "environment"))
          /\ Default("langfuse", "environment") = None
      BY <3>1 DEF Settings, Default
    <3>3. Raw(env, "langfuse", "environment") \in {Unset, " "}
      BY DEF Given
    <3> QED BY <3>2, <3>3 DEF Value
  <2>2. c \notin DOMAIN readAt /\ Now \in DOMAIN moments /\ env = moments[Now]
    BY MomentFacts DEF IInv, OrderInv, TypeOK
  <2>3. Reflects(s, c, env)
    BY SettingsReflect
  <2> QED BY <1>1, <1>3, <1>4, <2>1, <2>2, <2>3, JudgeStep
<1>5. CASE /\ Invalid(c, env) = {} /\ Inherits(c, s)
           /\ pc' = "inherit"
           /\ loaded' = Including(loaded, c, s) /\ readAt' = Including(readAt, c, Now)
           /\ UNCHANGED <<moments, request, budget, todo, outcome, errors>>
  <2>1. /\ c = "langfuse" /\ pc' = "inherit"
        /\ loaded' = Including(loaded, c, s) /\ readAt' = Including(readAt, c, Now)
        /\ moments' = moments /\ request' = request /\ budget' = budget
        /\ todo' = todo /\ outcome' = outcome /\ errors' = errors
    BY <1>5 DEF Inherits
  <2>2. /\ DOMAIN loaded' = DOMAIN loaded \cup {c} /\ DOMAIN readAt' = DOMAIN loaded'
        /\ loaded'[c] = s /\ readAt'[c] = Now
        /\ \A d \in DOMAIN loaded : d # c => loaded'[d] = loaded[d] /\ readAt'[d] = readAt[d]
    BY <2>1 DEF IInv, TypeOK, Including
  <2>3. Now \in DOMAIN moments
    BY MomentFacts
  <2>4. outcome = "none"
    BY DEF IInv, TypeOK
  <2>5. TypeOK'
    <3>1. \A d \in DOMAIN loaded' : /\ loaded'[d] \in [DOMAIN Fields[d] -> Texts]
                                    /\ readAt'[d] \in DOMAIN moments
      BY <1>3, <1>5, <2>2, <2>3 DEF IInv, TypeOK
    <3> QED BY <1>1, <2>1, <2>2, <2>4, <3>1 DEF IInv, TypeOK
  <2>6. MomentsInv' /\ OrderInv'
    <3>1. Requested' = Requested /\ (Earliest(c, todo))'
      BY <2>1 DEF Requested, Earliest
    <3>2. todo \cap DOMAIN loaded' = {"langfuse"}
      BY <2>1, <2>2 DEF IInv, OrderInv
    <3>3. Requested \subseteq Services /\ todo \cup (DOMAIN loaded' \ {"common"}) = Requested
      BY <1>1, <2>2 DEF IInv, OrderInv
    <3> QED BY <2>1, <2>2, <2>4, <3>1, <3>2, <3>3 DEF IInv, MomentsInv, OrderInv
  <2>7. Reflects(s, c, moments[Now]) /\ Invalid(c, moments[Now]) = {}
    BY <1>5, MomentFacts, SettingsReflect
  <2> HIDE DEF s
  <2>8. ReadInv'
    <3>1. \A d \in DOMAIN loaded' : Reflects(loaded'[d], d, moments[readAt'[d]])
      BY <2>2, <2>7 DEF IInv, ReadInv
    <3> QED BY <2>1, <2>4, <3>1 DEF ReadInv
  <2>9. SoundInv'
    BY <2>1, <2>2, <2>4, <2>7 DEF IInv, SoundInv
  <2> QED BY <2>5, <2>6, <2>8, <2>9 DEF IInv
<1> QED BY <1>2, <1>4, <1>5

LEMMA InheritStep == IInv /\ Inherit => IInv'
<1> SUFFICES ASSUME IInv, Inherit PROVE IInv'
  OBVIOUS
<1>1. pc = "inherit" /\ "langfuse" \in Classes
  BY ClassFacts DEF Inherit, Classes
<1>2. CASE Invalid("common", env) # {}
  BY <1>1, <1>2, NamedNotEmpty, FailStep DEF Inherit
<1>3. CASE Invalid("common", env) = {}
  <2> DEFINE v == Settings("common", env).env
             s == [loaded["langfuse"] EXCEPT !.environment = v]
  <2>1. Judge("langfuse", s)
    BY <1>3 DEF Inherit
  <2>2. v = NamedAt(Now) /\ v \in Texts
    <3>1. v = NamedAt(Now)
      BY MomentFacts, SettingsReflect, ReflectsEnv DEF NamedAt
    <3>2. Settings("common", env) \in [DOMAIN Fields["common"] -> Texts]
      BY <1>3, MomentFacts, SettingsType
    <3> QED BY <3>1, <3>2, ServiceKinds DEF Kinds
  <2> HIDE DEF v
  <2>3. loaded["langfuse"] \in [DOMAIN Fields["langfuse"] -> Texts]
    BY <1>1 DEF IInv, TypeOK, OrderInv
  <2>4. s \in [DOMAIN Fields["langfuse"] -> Texts] /\ s.environment = NamedAt(Now)
    BY <2>2, <2>3, ServiceKinds DEF Kinds
  <2>5. \A f \in DOMAIN Fields["langfuse"] : f # "environment" => s[f] = loaded["langfuse"][f]
    BY <2>3
  <2> HIDE DEF s
  <2> DEFINE at == readAt["langfuse"]
  <2>6. "langfuse" \in DOMAIN readAt /\ "langfuse" \in DOMAIN loaded /\ at \in DOMAIN moments
    BY <1>1 DEF IInv, OrderInv, TypeOK
  <2>7. Reflects(s, "langfuse", moments[at]) /\ Invalid("langfuse", moments[at]) = {}
    <3>1. Reflects(loaded["langfuse"], "langfuse", moments[at])
      BY <2>6 DEF IInv, ReadInv
    <3>2. Invalid("langfuse", moments[at]) = {}
      BY <2>6 DEF IInv, SoundInv
    <3> QED BY <2>5, <3>1, <3>2 DEF Reflects
  <2> HIDE DEF at
  <2>8. at = IF "langfuse" \in DOMAIN readAt THEN readAt["langfuse"] ELSE Now
    BY <2>6 DEF at
  <2> QED BY <1>1, <2>1, <2>4, <2>6, <2>7, <2>8, JudgeStep
<1> QED BY <1>2, <1>3

LEMMA CheckStep == IInv /\ Check => IInv'
<1> SUFFICES ASSUME IInv, Check PROVE IInv'
  OBVIOUS
<1>1. CASE Fail({<<"common", "security">>})
  BY <1>1, FailStep DEF Check
<1>2. CASE ~ Fail({<<"common", "security">>})
  <2>1. /\ pc = "read" /\ pc' = "done" /\ outcome' = "returned"
        /\ moments' = moments /\ request' = request /\ budget' = budget
        /\ todo' = todo /\ loaded' = loaded /\ readAt' = readAt /\ errors' = errors
        /\ todo = {} /\ (Lower(loaded["common"].env) \in {"production", "prod"} => Insecure = {})
    BY <1>2 DEF Check
  <2>2. Requested' = Requested /\ Insecure' = Insecure
    BY <2>1 DEF Requested, Insecure
  <2>3. TypeOK' /\ MomentsInv' /\ OrderInv'
    BY <2>1, <2>2 DEF IInv, TypeOK, MomentsInv, OrderInv
  <2>4. ReadInv' /\ SoundInv'
    BY <2>1, <2>2 DEF IInv, ReadInv, SoundInv, NamedAt, Now
  <2> QED BY <2>3, <2>4 DEF IInv
<1> QED BY <1>1, <1>2

(* ... and what changes nothing.                                           *)
LEMMA StutterStep == IInv /\ UNCHANGED vars => IInv'
<1> SUFFICES ASSUME IInv, UNCHANGED vars PROVE IInv'
  OBVIOUS
<1>1. Requested' = Requested /\ Insecure' = Insecure
  BY DEF vars, Requested, Insecure
<1>2. TypeOK' /\ MomentsInv' /\ OrderInv'
  BY <1>1 DEF vars, IInv, TypeOK, MomentsInv, OrderInv, Earliest
<1>3. ReadInv' /\ SoundInv'
  BY <1>1 DEF vars, IInv, ReadInv, SoundInv, NamedAt, Now
<1> QED BY <1>2, <1>3 DEF IInv

(* The invariant holds throughout.                                         *)
THEOREM Invariance == Spec => []IInv
<1>1. IInv /\ Next => IInv'
  BY ChangeStep, ReadCommonStep, NormalizeStep, ReadSectionStep, InheritStep, CheckStep
     DEF Next
<1> QED
  BY InitIInv, StutterStep, <1>1, PTL DEF Spec

(* The variables keep their types: settings hold nothing but values their  *)
(* fields accept, and a call that fails names what it fails for            *)
(* (config.py 371-391).                                                    *)
THEOREM TypeCorrect == Spec => []TypeOK
BY Invariance, PTL DEF IInv

(* What Langfuse inherits is one environment's name, read when its own     *)
(* settings were or later (config.py 285-289).                             *)
THEOREM InheritedIsCurrent == Spec => []EnvironmentsAgree
<1>1. IInv => EnvironmentsAgree
  <2> SUFFICES ASSUME IInv, outcome = "returned", "langfuse" \in DOMAIN loaded,
                      ~ Given(moments[readAt["langfuse"]], "langfuse", "environment")
      PROVE  /\ \E i \in readAt["langfuse"]..Now : loaded["langfuse"].environment = NamedAt(i)
             /\ (\A i \in 1..Now : NamedAt(i) = NamedAt(1)) =>
                  loaded["langfuse"].environment = loaded["common"].env
    BY DEF EnvironmentsAgree
  <2>1. PICK i \in readAt["langfuse"]..Now : loaded["langfuse"].environment = NamedAt(i)
    BY DEF IInv, ReadInv
  <2>2. i \in 1..Now
    BY MomentFacts DEF IInv, TypeOK
  <2>3. "common" \in DOMAIN loaded /\ readAt["common"] \in 1..Now
    BY MomentFacts DEF IInv, TypeOK, OrderInv
  <2>4. loaded["common"].env = NamedAt(readAt["common"])
    BY <2>3, ReflectsEnv DEF IInv, ReadInv, NamedAt
  <2> QED BY <2>1, <2>2, <2>3, <2>4
<1> QED BY <1>1, Invariance, PTL

(***************************************************************************)
(* The outcome of a call.                                                  *)
(***************************************************************************)

(* While nothing a call depends on changes, all environments are as good   *)
(* as the first.                                                           *)
LEMMA SettledRaws ==
  ASSUME Settled, NEW c \in Classes, c \in Requested \cup {"common"},
         NEW i \in DOMAIN moments, NEW f \in DOMAIN Fields[c]
  PROVE  Raw(moments[i], c, f) = Raw(moments[1], c, f)
<1>1. <<c, f>> \in Variables
  BY DEF Variables
<1>2. <<c, f>>[1] = c /\ <<c, f>>[2] = f
  OBVIOUS
<1> QED BY <1>1, <1>2 DEF Settled

LEMMA SettledSound ==
  ASSUME IInv, Settled, NEW c \in Classes, c \in Requested \cup {"common"},
         NEW i \in DOMAIN moments
  PROVE  /\ Invalid(c, moments[i]) = Invalid(c, moments[1])
         /\ Settings(c, moments[i]) = Settings(c, moments[1])
         /\ Sound(c, moments[i]) <=> Sound(c, moments[1])
<1>1. \A f \in DOMAIN Fields[c] : Raw(moments[i], c, f) = Raw(moments[1], c, f)
  BY SettledRaws
<1>2. Invalid(c, moments[i]) = Invalid(c, moments[1])
  BY <1>1 DEF Invalid
<1>3. Settings(c, moments[i]) = Settings(c, moments[1])
  BY <1>1 DEF Settings
<1>4. 1 \in DOMAIN moments /\ \A j \in DOMAIN moments : Range(moments[j]) \subseteq Raws
  BY MomentFacts DEF IInv, TypeOK
<1>5. ASSUME Invalid(c, moments[1]) = {}
      PROVE  Consistent(c, moments[i]) <=> Consistent(c, moments[1])
  <2>1. Broken(c, Settings(c, moments[1])) = {} <=> Consistent(c, moments[1])
    BY <1>4, <1>5, SettingsReflect, RulesSayConsistent
  <2>2. Broken(c, Settings(c, moments[i])) = {} <=> Consistent(c, moments[i])
    BY <1>2, <1>4, <1>5, SettingsReflect, RulesSayConsistent
  <2> QED BY <1>3, <2>1, <2>2
<1> QED BY <1>2, <1>3, <1>5 DEF Sound

(* The sections that are done with are good.                               *)
LEMMA LoadedSound ==
  ASSUME IInv, Settled, NEW c \in DOMAIN loaded \ todo, c \in Requested \cup {"common"}
  PROVE  c \notin Bad
<1>1. c \in Classes /\ readAt[c] \in DOMAIN moments
  BY DEF IInv, TypeOK
<1>2. Sound(c, moments[readAt[c]])
  BY DEF IInv, SoundInv, Sound
<1> QED BY <1>1, <1>2, SettledSound DEF Bad

(* The complaints of a failure are all about one class.                    *)
LEMMA ComplaintsName ==
  ASSUME NEW c, NEW E, E # {}, \A v \in E : v[1] = c
  PROVE  {v[1] : v \in E} = {c}
OBVIOUS

LEMMA BrokenNames == ASSUME NEW c, NEW s PROVE \A v \in Broken(c, s) : v[1] = c
BY DEF Broken

LEMMA InvalidNames == ASSUME NEW c, NEW F PROVE \A v \in Named(c, F) : v[1] = c
BY DEF Named

(* A section in its turn that the first environment has at fault is the    *)
(* first of them.                                                          *)
LEMMA TurnIsEarliest ==
  ASSUME IInv, Settled, pc \in {"read", "inherit"}, NEW c, Earliest(c, todo),
         ~ Sound(c, moments[1])
  PROVE  /\ c \in Bad /\ "common" \notin Bad /\ Requested \subseteq Services
         /\ Earliest(c, Bad)
<1>1. /\ "common" \in DOMAIN loaded /\ Requested \subseteq Services
      /\ todo \cup (DOMAIN loaded \ {"common"}) = Requested
      /\ todo \cap DOMAIN loaded \subseteq {"langfuse"}
      /\ todo \subseteq Services
  BY DEF IInv, TypeOK, OrderInv
<1>2. "common" \notin Bad
  BY <1>1, ClassFacts, LoadedSound
<1>3. c \in Bad
  <2>1. c \in todo
    BY DEF Earliest
  <2> QED BY <1>1, <2>1 DEF Bad, Classes
<1>4. ASSUME NEW d \in Bad PROVE d \in todo
  <2>1. d \in Requested \cup {"common"}
    BY DEF Bad
  <2> QED BY <1>1, <1>2, <2>1, LoadedSound
<1>5. Earliest(c, Bad)
  BY <1>3, <1>4 DEF Earliest
<1> QED BY <1>1, <1>2, <1>3, <1>5

(* The first environment and the request decide, and neither changes.      *)
LEMMA SameFirst ==
  ASSUME moments' = moments, request' = request
  PROVE  /\ Settled' = Settled /\ Bad' = Bad /\ Safe' = Safe /\ Requested' = Requested
         /\ \A names, c : Blames(names, c)' = Blames(names, c)
<1>1. Requested' = Requested
  BY DEF Requested
<1> QED BY <1>1 DEF Settled, Bad, Safe, Blames

(* A failure that names the right section is a documented one.             *)
LEMMA FailDocumented ==
  ASSUME IInv, NEW complaints, Fail(complaints),
         Settled =>
           /\ ~ (Bad = {} /\ Requested \subseteq Services /\ Safe)
           /\ "common" \in Bad => Blames(complaints, "common")
           /\ "common" \notin Bad /\ Bad # {} /\ Requested \subseteq Services =>
                \E c \in Bad : Earliest(c, Bad) /\ Blames(complaints, c)
  PROVE  OutcomeIsDocumented'
<1>1. /\ outcome' = "ConfigError" /\ errors' = complaints
      /\ moments' = moments /\ request' = request
  BY DEF Fail
<1>2. \A c : Earliest(c, Bad)' = Earliest(c, Bad')
  BY DEF Earliest
<1> QED BY <1>1, <1>2, SameFirst DEF OutcomeIsDocumented

(* What others do after the call changes nothing of its outcome.           *)
LEMMA ChangeDocumented == IInv /\ OutcomeIsDocumented /\ Change => OutcomeIsDocumented'
<1> SUFFICES ASSUME IInv, OutcomeIsDocumented, Change, Settled', outcome' # "none"
             PROVE  OutcomeIsDocumented'
  BY DEF OutcomeIsDocumented
<1>1. PICK v \in Volatile : moments' = Append(moments, Including(env, v.variable, v.raw))
  BY DEF Change
<1> DEFINE e == Including(env, v.variable, v.raw)
           n == Len(moments)
<1>2. request' = request /\ outcome' = outcome /\ errors' = errors
  BY DEF Change
<1>3. n \in Nat \ {0} /\ DOMAIN moments = 1..n /\ moments \in Seq(Range(moments))
  BY MomentFacts DEF Now, IInv, MomentsInv
<1> HIDE DEF e
<1>4. DOMAIN moments' = 1..(n + 1) /\ \A i \in 1..n : moments'[i] = moments[i]
  <2>1. PICK S : S = Range(moments) \cup {e}
    OBVIOUS
  <2>2. moments \in Seq(S) /\ e \in S
    BY <1>3, <2>1
  <2> QED BY <1>1, <1>3, <2>2 DEF e
<1>5. 1 \in 1..n /\ 1..n \subseteq 1..(n + 1)
  BY <1>3
<1>6. Requested' = Requested /\ moments'[1] = moments[1]
  BY <1>2, <1>4, <1>5 DEF Requested
<1>7. Settled
  BY <1>3, <1>4, <1>5, <1>6 DEF Settled
<1>8. Bad' = Bad /\ Safe' = Safe /\ \A names, c : Blames(names, c)' = Blames(names, c)
  BY <1>6 DEF Bad, Safe, Blames
<1> QED BY <1>2, <1>6, <1>7, <1>8 DEF OutcomeIsDocumented, Earliest

(* Before the end of a call there is nothing to document.                  *)
LEMMA UnendedDocumented == outcome' = "none" => OutcomeIsDocumented'
BY DEF OutcomeIsDocumented

(* The common settings have fields at fault, but no rule.                  *)
LEMMA ReadCommonDocumented == IInv /\ ReadCommon => OutcomeIsDocumented'
<1> SUFFICES ASSUME IInv, ReadCommon PROVE OutcomeIsDocumented'
  OBVIOUS
<1> DEFINE invalid == Invalid("common", env)
           s == Settings("common", env)
<1>1. /\ pc = "common" /\ outcome = "none" /\ "common" \in Classes
      /\ Now \in DOMAIN moments /\ env = moments[Now] /\ Range(env) \subseteq Raws
  BY MomentFacts DEF ReadCommon, IInv, TypeOK, Classes
<1>2. CASE invalid # {} /\ Fail(Named("common", invalid))
  <2>1. ASSUME Settled PROVE "common" \in Bad /\ Blames(Named("common", invalid), "common")
    <3>1. invalid = Invalid("common", moments[1])
      BY <1>1, <2>1, SettledSound
    <3>2. "common" \in Bad
      BY <1>1, <1>2, <3>1 DEF Bad, Sound
    <3>3. {v[1] : v \in Named("common", invalid)} = {"common"}
      BY <1>2, NamedNotEmpty, InvalidNames, ComplaintsName
    <3> QED BY <3>1, <3>2, <3>3 DEF Blames
  <2> QED BY <1>2, <2>1, FailDocumented
<1>3. CASE invalid = {} /\ Judge("common", s)
  <2>1. Broken("common", s) = {}
    <3>1. Consistent("common", env)
      BY DEF Consistent
    <3> QED BY <1>1, <1>3, <3>1, SettingsReflect, RulesSayConsistent
  <2>2. outcome' = outcome
    BY <1>3, <2>1 DEF Judge
  <2> QED BY <1>1, <2>2, UnendedDocumented
<1> QED BY <1>2, <1>3 DEF ReadCommon

(* Names of no section are complained of after the common settings.        *)
LEMMA NormalizeDocumented == IInv /\ Normalize => OutcomeIsDocumented'
<1> SUFFICES ASSUME IInv, Normalize PROVE OutcomeIsDocumented'
  OBVIOUS
<1>1. CASE Requested \ Services # {} /\ Fail(Named("services", Requested \ Services))
  <2>1. ~ (Requested \subseteq Services)
    BY <1>1
  <2>2. "common" \in DOMAIN loaded \ todo
    BY DEF Normalize, IInv, OrderInv
  <2>3. Settled => "common" \notin Bad
    BY <2>2, LoadedSound
  <2> QED BY <1>1, <2>1, <2>3, FailDocumented
<1>2. CASE outcome' = outcome
  BY <1>2, UnendedDocumented DEF Normalize, IInv, TypeOK
<1> QED BY <1>1, <1>2 DEF Normalize

(* A section that fails in its turn is the one to blame.                   *)
LEMMA TurnDocumented ==
  ASSUME IInv, pc \in {"read", "inherit"}, NEW c, Earliest(c, todo),
         NEW complaints, Fail(complaints), complaints # {}, \A v \in complaints : v[1] = c,
         Settled => /\ ~ Sound(c, moments[1])
                    /\ Named(c, Invalid(c, moments[1])) \subseteq complaints
  PROVE  OutcomeIsDocumented'
<1>1. ASSUME Settled
      PROVE  /\ c \in Bad /\ "common" \notin Bad /\ Requested \subseteq Services
             /\ Earliest(c, Bad) /\ Blames(complaints, c)
  <2>1. {v[1] : v \in complaints} = {c}
    BY ComplaintsName
  <2> QED BY <1>1, <2>1, TurnIsEarliest DEF Blames
<1> QED BY <1>1, FailDocumented

(* ... be it for a field or for a rule.                                    *)
LEMMA JudgeDocumented ==
  ASSUME IInv, pc \in {"read", "inherit"}, NEW c \in todo, Earliest(c, todo),
         NEW at \in DOMAIN moments, Invalid(c, moments[at]) = {},
         NEW s, Reflects(s, c, moments[at]), Judge(c, s)
  PROVE  OutcomeIsDocumented'
<1>1. /\ outcome = "none" /\ c \in Classes /\ c \in Requested
      /\ Range(moments[at]) \subseteq Raws
  BY DEF IInv, TypeOK, OrderInv, Classes
<1>2. CASE Broken(c, s) # {} /\ Fail(Broken(c, s))
  <2>1. ~ Sound(c, moments[at])
    BY <1>1, <1>2, RulesSayConsistent DEF Sound
  <2>2. Settled => ~ Sound(c, moments[1]) /\ Invalid(c, moments[1]) = {}
    BY <1>1, <2>1, SettledSound
  <2>3. Named(c, {}) = {}
    BY DEF Named
  <2> QED BY <1>2, <2>2, <2>3, BrokenNames, TurnDocumented
<1>3. CASE outcome' = outcome
  BY <1>1, <1>3, UnendedDocumented
<1> QED BY <1>2, <1>3 DEF Judge

LEMMA ReadSectionDocumented == IInv /\ ReadSection => OutcomeIsDocumented'
<1> SUFFICES ASSUME IInv, pc = "read", NEW c \in todo, Earliest(c, todo),
                    \/ Invalid(c, env) # {} /\ Fail(Named(c, Invalid(c, env)))
                    \/ Invalid(c, env) = {} /\ Judge(c, Settings(c, env))
                    \/ outcome' = outcome
             PROVE  OutcomeIsDocumented'
  BY DEF ReadSection
<1>1. /\ outcome = "none" /\ c \in Classes /\ c \in Requested
      /\ Now \in DOMAIN moments /\ env = moments[Now]
  BY MomentFacts DEF IInv, TypeOK, OrderInv, Classes
<1>2. CASE Invalid(c, env) # {} /\ Fail(Named(c, Invalid(c, env)))
  <2>1. Settled => Invalid(c, env) = Invalid(c, moments[1])
    BY <1>1, SettledSound
  <2> QED BY <1>2, <2>1, NamedNotEmpty, InvalidNames, TurnDocumented DEF Sound
<1>3. CASE Invalid(c, env) = {} /\ Judge(c, Settings(c, env))
  BY <1>1, <1>3, SettingsReflect, JudgeDocumented
<1>4. CASE outcome' = outcome
  BY <1>1, <1>4, UnendedDocumented
<1> QED BY <1>2, <1>3, <1>4

(* The common settings cannot have become invalid in between.              *)
LEMMA InheritDocumented == IInv /\ Inherit => OutcomeIsDocumented'
<1> SUFFICES ASSUME IInv, Inherit PROVE OutcomeIsDocumented'
  OBVIOUS
<1>1. /\ pc = "inherit" /\ Earliest("langfuse", todo) /\ "langfuse" \in todo
      /\ "langfuse" \in DOMAIN loaded /\ "common" \in DOMAIN loaded \ todo
      /\ "common" \in Classes
  BY ClassFacts DEF Inherit, IInv, TypeOK, OrderInv, Earliest, Classes
<1>2. /\ Now \in DOMAIN moments /\ env = moments[Now]
      /\ readAt["langfuse"] \in DOMAIN moments
  BY <1>1, MomentFacts DEF IInv, TypeOK
<1>3. CASE Invalid("common", env) # {} /\ Fail(Named("langfuse", Invalid("common", env)))
  <2>1. ASSUME Settled PROVE FALSE
    <3>1. ~ Sound("common", moments[1])
      BY <1>1, <1>2, <1>3, <2>1, SettledSound DEF Sound
    <3>2. "common" \in Bad
      BY <1>1, <3>1 DEF Bad
    <3> QED BY <1>1, <2>1, <3>2, LoadedSound
  <2> QED BY <1>3, <2>1, FailDocumented
<1>4. CASE Invalid("common", env) = {}
  <2> DEFINE s == [loaded["langfuse"] EXCEPT !.environment = Settings("common", env).env]
  <2>1. Judge("langfuse", s)
    BY <1>4 DEF Inherit
  <2>2. loaded["langfuse"] \in [DOMAIN Fields["langfuse"] -> Texts]
    BY <1>1 DEF IInv, TypeOK
  <2>3. \A f \in DOMAIN Fields["langfuse"] : f # "environment" => s[f] = loaded["langfuse"][f]
    BY <2>2
  <2> HIDE DEF s
  <2>4. /\ Reflects(loaded["langfuse"], "langfuse", moments[readAt["langfuse"]])
        /\ Invalid("langfuse", moments[readAt["langfuse"]]) = {}
    BY <1>1 DEF IInv, ReadInv, SoundInv
  <2>5. Reflects(s, "langfuse", moments[readAt["langfuse"]])
    BY <2>3, <2>4 DEF Reflects
  <2> QED BY <1>1, <1>2, <2>1, <2>4, <2>5, JudgeDocumented
<1> QED BY <1>3, <1>4 DEF Inherit

(* A flag of the settings read is off just when production forbids the     *)
(* variable's raw value.                                                   *)
LEMMA FlagsProtect ==
  ASSUME NEW c \in Classes, NEW e, Range(e) \subseteq Raws, Invalid(c, e) = {},
         NEW s, Reflects(s, c, e)
  PROVE  Protected(c, e) <=> (c \in DOMAIN SecurityFlag => s[SecurityFlag[c]] # "false")
<1>1. DOMAIN SecurityFlag = {"keycloak", "minio", "milvus"}
  BY DEF SecurityFlag
<1>2. CASE c \notin {"keycloak", "minio", "milvus"}
  BY <1>1, <1>2 DEF Protected
<1>3. CASE c \in {"keycloak", "minio", "milvus"}
  <2> DEFINE f == SecurityFlag[c]
  <2>1. Kinds(c, "flag", {f})
    BY <1>3, KeycloakKinds, StoreKinds DEF Kinds, SecurityFlag
  <2>2. <<c, f>> \in OnByDefault <=> c # "milvus"
    BY <1>3 DEF SecurityFlag, OnByDefault
  <2>3. c = "milvus" => f = "secure"
    BY DEF SecurityFlag
  <2> HIDE DEF f
  <2>4. s[f] = Value(c, f, Raw(e, c, f))
    BY <1>3, <2>1, Reflected
  <2>5. /\ Value(c, f, Raw(e, c, f)) \in {"true", "false"}
        /\ Value(c, f, Raw(e, c, f)) = "false" <=>
             Off(e, c, f) \/ (Raw(e, c, f) = Unset /\ <<c, f>> \notin OnByDefault)
        /\ Value(c, f, Raw(e, c, f)) = "true" <=>
             On(e, c, f) \/ (Raw(e, c, f) = Unset /\ <<c, f>> \in OnByDefault)
    BY <2>1, FlagMeans
  <2>6. CASE c = "milvus"
    BY <1>1, <2>2, <2>3, <2>4, <2>5, <2>6 DEF Protected, f
  <2>7. CASE c # "milvus"
    <3>1. Protected(c, e) <=> ~ Off(e, c, f)
      BY <1>3, <2>7 DEF Protected, f
    <3>2. s[f] = "false" <=> Off(e, c, f)
      BY <2>2, <2>4, <2>5, <2>7
    <3> QED BY <1>1, <1>3, <3>1, <3>2 DEF f
  <2> QED BY <2>6, <2>7
<1> QED BY <1>2, <1>3

(* The environment is called production just when DOCMESH_ENV says so.     *)
LEMMA NameSaysProduction ==
  ASSUME NEW e, Range(e) \subseteq Raws, Invalid("common", e) = {},
         NEW s, Reflects(s, "common", e)
  PROVE  Lower(s.env) \in {"production", "prod"} <=> Production(e)
<1>1. s.env = Value("common", "env", Raw(e, "common", "env"))
  BY ReflectsEnv
<1>2. /\ "env" \in DOMAIN Fields["common"] /\ Fields["common"]["env"] = "text"
  BY ServiceKinds DEF Kinds
<1>3. Raw(e, "common", "env") \in (Raws \ {" "}) \cup {Unset}
  BY <1>2, Accepts DEF Accepted
<1>4. CASE Raw(e, "common", "env") = Unset
  <2>1. s.env = "development"
    BY <1>1, <1>4 DEF Value, Default
  <2>2. Lower("development") = "development"
    BY DEF Lower
  <2> QED BY <1>4, <2>1, <2>2 DEF Production, Unset
<1>5. CASE Raw(e, "common", "env") # Unset
  <2>1. s.env = Raw(e, "common", "env") /\ s.env \in Raws
    BY <1>1, <1>2, <1>3, <1>5 DEF Value
  <2>2. \A word \in Raws : Lower(word) \in {"production", "prod"} <=> word \in {"prod", "Production"}
    BY DEF Raws, Numbers, Lower
  <2> QED BY <2>1, <2>2 DEF Production
<1> QED BY <1>4, <1>5

(* The sections are all good when production is checked.                   *)
LEMMA CheckDocumented == IInv /\ Check => OutcomeIsDocumented'
<1> SUFFICES ASSUME IInv, Check PROVE OutcomeIsDocumented'
  OBVIOUS
<1>1. /\ todo = {} /\ Requested \subseteq Services /\ DOMAIN loaded = Requested \cup {"common"}
      /\ DOMAIN loaded \subseteq Classes
  BY DEF Check, IInv, TypeOK, OrderInv
<1> DEFINE named == Lower(loaded["common"].env) \in {"production", "prod"}
<1>2. ASSUME Settled
      PROVE  Bad = {} /\ (Safe <=> ~ (named /\ Insecure # {}))
  <2>1. ASSUME NEW c \in DOMAIN loaded
        PROVE  /\ c \in Classes /\ c \in Requested \cup {"common"} /\ c \notin Bad
               /\ Invalid(c, moments[1]) = {}
               /\ Reflects(loaded[c], c, moments[1])
    <3>1. c \in Classes /\ readAt[c] \in DOMAIN moments
      BY DEF IInv, TypeOK
    <3>2. c \notin Bad
      BY <1>1, <1>2, LoadedSound
    <3>3. Invalid(c, moments[1]) = {}
      BY <1>1, <3>1, <3>2 DEF Bad, Sound
    <3>4. \A f \in DOMAIN Fields[c] : Raw(moments[readAt[c]], c, f) = Raw(moments[1], c, f)
      BY <1>1, <1>2, <3>1, SettledRaws
    <3>5. Reflects(loaded[c], c, moments[1])
      BY <3>4 DEF IInv, ReadInv, Reflects
    <3> QED BY <1>1, <3>1, <3>2, <3>3, <3>5
  <2>2. Bad = {}
    BY <1>1, <2>1 DEF Bad
  <2>3. Range(moments[1]) \subseteq Raws
    BY MomentFacts DEF IInv, TypeOK
  <2>4. named <=> Production(moments[1])
    BY <1>1, <2>1, <2>3, NameSaysProduction
  <2>5. Insecure = {} <=> \A c \in Requested : Protected(c, moments[1])
    <3>1. \A c \in DOMAIN loaded : Protected(c, moments[1]) <=>
            (c \in DOMAIN SecurityFlag => loaded[c][SecurityFlag[c]] # "false")
      BY <2>1, <2>3, FlagsProtect
    <3>2. Protected("common", moments[1])
      BY DEF Protected
    <3> QED BY <1>1, <3>1, <3>2 DEF Insecure
  <2> HIDE DEF named
  <2> QED BY <2>2, <2>4, <2>5 DEF Safe
<1>3. CASE named /\ Insecure # {} /\ Fail({<<"common", "security">>})
  BY <1>2, <1>3, FailDocumented
<1>4. CASE /\ ~ (named /\ Insecure # {}) /\ outcome' = "returned"
           /\ moments' = moments /\ request' = request
  BY <1>1, <1>2, <1>4, SameFirst DEF OutcomeIsDocumented
<1> QED BY <1>3, <1>4 DEF Check

(* What a call returns, and what it complains of, is decided by the common *)
(* and the selected sections alone, and it names the first of them at      *)
(* fault (config.py 344-391).                                              *)
THEOREM OutcomeDocumented == Spec => []OutcomeIsDocumented
<1>1. Init => OutcomeIsDocumented
  BY DEF Init, OutcomeIsDocumented
<1>2. IInv /\ OutcomeIsDocumented /\ [Next]_vars => OutcomeIsDocumented'
  <2>1. CASE Next
    BY <2>1, ChangeDocumented, ReadCommonDocumented, NormalizeDocumented,
       ReadSectionDocumented, InheritDocumented, CheckDocumented DEF Next
  <2>2. ASSUME OutcomeIsDocumented, UNCHANGED vars PROVE OutcomeIsDocumented'
    <3>1. moments' = moments /\ request' = request /\ outcome' = outcome /\ errors' = errors
      BY <2>2 DEF vars
    <3> QED BY <2>2, <3>1, SameFirst DEF OutcomeIsDocumented, Earliest
  <2> QED BY <2>1, <2>2
<1> QED BY <1>1, <1>2, Invariance, PTL DEF Spec

(***************************************************************************)
(* The clients.                                                            *)
(***************************************************************************)

(* An application's start is a call of load_service_configs, whatever its  *)
(* factories do, so that all of this holds of it too (config.py 385-391,   *)
(* factories.py 130-214).                                                  *)
THEOREM StartupLoads == StartupSpec => Spec
<1>1. StartupInit => Init
  BY DEF StartupInit
<1>2. [StartupNext]_startupVars => [Next]_vars
  BY DEF StartupNext, startupVars, Load, Loaded, Create, Run, LateChange, Next, vars
<1> QED BY <1>1, <1>2, PTL DEF StartupSpec, Spec

(* Once a call has ended nothing but the environment changes.              *)
LEMMA EndedStays ==
  ASSUME IInv, Change
  PROVE  loaded' = loaded /\ outcome' = outcome
BY DEF Change

(* Clients are made of the settings returned, one by one.                  *)
LEMMA StartupStep ==
  ASSUME IInv, StartupInv, [StartupNext]_startupVars
  PROVE  StartupInv'
<1> USE DEF StartupInv
<1>1. CASE Load
  BY <1>1 DEF Load, Uncreated
<1>2. CASE Loaded
  BY <1>2 DEF Loaded, vars, Uncreated
<1>3. CASE Create
  <2>1. PICK c \in Uncreated :
          \/ clients' = Including(clients, c, Arguments(c, loaded[c])) /\ stage' = stage
          \/ stage' = "failed" /\ clients' = clients
    BY <1>3 DEF Create
  <2>2. stage = "create" /\ loaded' = loaded /\ outcome' = outcome
    BY <1>3 DEF Create, vars
  <2>3. CASE clients' = Including(clients, c, Arguments(c, loaded[c])) /\ stage' = stage
    <3>1. /\ DOMAIN clients' = DOMAIN clients \cup {c}
          /\ \A d \in DOMAIN clients' : clients'[d] = IF d = c THEN Arguments(c, loaded[c]) ELSE clients[d]
      BY <2>3 DEF Including
    <3> QED BY <2>1, <2>2, <2>3, <3>1 DEF Uncreated
  <2>4. CASE stage' = "failed" /\ clients' = clients
    BY <2>2, <2>4
  <2> QED BY <2>1, <2>3, <2>4
<1>4. CASE Run
  BY <1>4 DEF Run, vars, Uncreated
<1>5. CASE LateChange
  BY <1>5, EndedStays DEF LateChange, Uncreated
<1>6. CASE UNCHANGED startupVars
  BY <1>6 DEF startupVars, vars, Uncreated
<1> QED BY <1>1, <1>2, <1>3, <1>4, <1>5, <1>6 DEF StartupNext

(* Both invariants hold throughout a start.                                *)
THEOREM StartupInvariance == StartupSpec => [](IInv /\ StartupInv)
<1>1. StartupInit => StartupInv
  BY DEF StartupInit, StartupInv
<1> QED BY <1>1, StartupLoads, Invariance, StartupStep, PTL DEF StartupSpec

(* A client comes of consistent variables, read from one environment.      *)
LEMMA ClientFacts ==
  ASSUME IInv, StartupInv, NEW c \in DOMAIN clients
  PROVE  /\ clients[c] = Arguments(c, loaded[c])
         /\ outcome = "returned" /\ c \in DOMAIN loaded /\ readAt[c] \in DOMAIN moments
         /\ Range(moments[readAt[c]]) \subseteq Raws
         /\ Invalid(c, moments[readAt[c]]) = {} /\ Consistent(c, moments[readAt[c]])
         /\ Reflects(loaded[c], c, moments[readAt[c]])
<1>1. /\ clients[c] = Arguments(c, loaded[c]) /\ c \in DOMAIN loaded /\ outcome = "returned"
      /\ todo = {}
  BY DEF StartupInv, IInv, SoundInv
<1>2. readAt[c] \in DOMAIN moments /\ Range(moments[readAt[c]]) \subseteq Raws
  BY <1>1 DEF IInv, TypeOK
<1>3. /\ Invalid(c, moments[readAt[c]]) = {} /\ Consistent(c, moments[readAt[c]])
      /\ Reflects(loaded[c], c, moments[readAt[c]])
  BY <1>1 DEF IInv, SoundInv, ReadInv
<1> QED BY <1>1, <1>2, <1>3

(* The four parts of the property, client by client.                       *)
LEMMA PostgresWhole ==
  ASSUME IInv, StartupInv, "postgres" \in DOMAIN clients, "dsn" \notin DOMAIN clients["postgres"],
         NEW a \in {<<"username", "user">>, <<"password", "password">>, <<"host", "host">>,
                    <<"database", "db">>}
  PROVE  Chosen("postgres", a[2], clients["postgres"][a[1]])
<1> DEFINE s == loaded["postgres"]
           e == moments[readAt["postgres"]]
<1>1. /\ clients["postgres"] = Arguments("postgres", s)
      /\ readAt["postgres"] \in DOMAIN moments /\ Range(e) \subseteq Raws
      /\ Invalid("postgres", e) = {} /\ Consistent("postgres", e) /\ Reflects(s, "postgres", e)
  BY ClientFacts
<1> HIDE DEF s, e
<1> DEFINE present == Present(s, {"pool_size", "max_overflow", "connect_timeout_seconds", "sslmode"})
<1>2. clients["postgres"] = Merged(PostgresUrl(s), present)
  BY <1>1 DEF Arguments
<1> HIDE DEF present
<1>3. /\ DOMAIN PostgresUrl(s) \subseteq DOMAIN clients["postgres"]
      /\ \A x \in DOMAIN PostgresUrl(s) : clients["postgres"][x] = PostgresUrl(s)[x]
  BY <1>2 DEF Merged
<1>4. s.dsn = None
  BY <1>3 DEF PostgresUrl
<1>5. \A f \in {"dsn", "host", "db", "user", "password"} : Given(e, "postgres", f) <=> s[f] # None
  BY <1>1, StoreKinds, OptionalGiven
<1>6. \A f \in {"host", "db", "user", "password"} : s[f] # None
  BY <1>1, <1>4, PostgresConsistency, PostgresRulesMean
<1>7. a[2] \in {"host", "db", "user", "password"} /\ a[1] \in DOMAIN PostgresUrl(s)
      /\ PostgresUrl(s)[a[1]] = s[a[2]]
  BY <1>4, <1>6 DEF PostgresUrl, Or
<1>8. a[2] \in {"dsn", "host", "db", "user", "password"}
  BY <1>7
<1>9. Given(e, "postgres", a[2]) /\ s[a[2]] = Raw(e, "postgres", a[2])
  <2>1. s[a[2]] = Value("postgres", a[2], Raw(e, "postgres", a[2]))
    BY <1>1, <1>8, StoreKinds, Reflected
  <2>2. Given(e, "postgres", a[2])
    BY <1>5, <1>6, <1>7, <1>8
  <2> QED BY <1>1, <1>8, <2>1, <2>2, StoreKinds, OptionalMeans
<1> QED BY <1>1, <1>3, <1>7, <1>9 DEF Chosen, e

LEMMA NatsWhole ==
  ASSUME IInv, StartupInv, "nats" \in DOMAIN clients
  PROVE  DOMAIN clients["nats"] \cap {"user", "password", "token", "creds_file"}
           \in {{}, {"user", "password"}, {"token"}, {"creds_file"}}
<1> DEFINE s == loaded["nats"]
           e == moments[readAt["nats"]]
           ways == {"user", "password", "token", "creds_file"}
<1>1. /\ clients["nats"] = Arguments("nats", s)
      /\ Range(e) \subseteq Raws
      /\ Invalid("nats", e) = {} /\ Consistent("nats", e) /\ Reflects(s, "nats", e)
  BY ClientFacts
<1> HIDE DEF s, e
<1>2. DOMAIN clients["nats"] \cap ways = {f \in ways : s[f] # None}
  BY <1>1 DEF Arguments, Present
<1>3. \A f \in ways : Given(e, "nats", f) <=> s[f] # None
  BY <1>1, ServiceKinds, OptionalGiven
<1>4. {f \in ways : Given(e, "nats", f)} \in {{}, {"user", "password"}, {"token"}, {"creds_file"}}
  BY <1>1 DEF Consistent
<1>5. DOMAIN clients["nats"] \cap ways = {f \in ways : Given(e, "nats", f)}
  BY <1>2, <1>3
<1> QED BY <1>4, <1>5

LEMMA LangfuseWhole ==
  ASSUME IInv, StartupInv, "langfuse" \in DOMAIN clients, clients["langfuse"] # Nothing
  PROVE  {"host", "public_key", "secret_key"} \subseteq DOMAIN clients["langfuse"]
<1> DEFINE s == loaded["langfuse"]
           e == moments[readAt["langfuse"]]
<1>1. /\ clients["langfuse"] = Arguments("langfuse", s)
      /\ Range(e) \subseteq Raws
      /\ Invalid("langfuse", e) = {} /\ Consistent("langfuse", e) /\ Reflects(s, "langfuse", e)
  BY ClientFacts
<1> HIDE DEF s, e
<1>2. /\ s.enabled # "false"
      /\ clients["langfuse"] =
           Present(s, {"host", "public_key", "secret_key", "environment", "release",
                       "request_timeout_seconds"})
  BY <1>1 DEF Arguments
<1>3. \A f \in {"host", "public_key", "secret_key"} : s[f] # None
  BY <1>1, <1>2, LangfuseConsistency, LangfuseRulesMean
<1> QED BY <1>2, <1>3 DEF Present

LEMMA ProductionVerifies ==
  ASSUME IInv, StartupInv, Lower(loaded["common"].env) \in {"production", "prod"}
  PROVE  /\ "keycloak" \in DOMAIN clients => clients["keycloak"].verify_ssl = "true"
         /\ "minio" \in DOMAIN clients =>
              clients["minio"].secure = "true" /\ clients["minio"].cert_check = "true"
<1>1. ASSUME NEW c \in DOMAIN clients, c \in {"keycloak", "minio"}
      PROVE  loaded[c][SecurityFlag[c]] = "true"
  <2> DEFINE s == loaded[c]
             e == moments[readAt[c]]
             f == SecurityFlag[c]
  <2>1. /\ outcome = "returned" /\ c \in DOMAIN loaded
        /\ Range(e) \subseteq Raws /\ Invalid(c, e) = {} /\ Reflects(s, c, e)
    BY ClientFacts
  <2>2. c \in DOMAIN SecurityFlag
    BY <1>1 DEF SecurityFlag
  <2>3. s[f] # "false"
    BY <2>1, <2>2 DEF IInv, SoundInv, Insecure
  <2>4. Kinds(c, "flag", {f}) /\ f # "environment"
    BY <1>1, KeycloakKinds, StoreKinds DEF Kinds, SecurityFlag
  <2> HIDE DEF s, e, f
  <2>5. s[f] = Value(c, f, Raw(e, c, f))
    BY <2>1, <2>4, Reflected
  <2>6. Value(c, f, Raw(e, c, f)) \in {"true", "false"}
    BY <2>1, <2>4, FlagMeans
  <2>7. s[f] = "true"
    BY <2>3, <2>5, <2>6
  <2> QED BY <2>7 DEF s, f
<1>2. ASSUME "keycloak" \in DOMAIN clients PROVE clients["keycloak"].verify_ssl = "true"
  <2>1. clients["keycloak"] = loaded["keycloak"]
    BY <1>2, ClientFacts DEF Arguments
  <2> QED BY <1>1, <1>2, <2>1 DEF SecurityFlag
<1>3. ASSUME "minio" \in DOMAIN clients
      PROVE  clients["minio"].secure = "true" /\ clients["minio"].cert_check = "true"
  <2> DEFINE s == loaded["minio"]
             present == Present(s, {"endpoint", "access_key", "secret_key", "secure", "region"})
  <2>1. clients["minio"] = Merged([cert_check |-> s.secure], present)
    BY <1>3, ClientFacts DEF Arguments
  <2>2. s.secure = "true"
    BY <1>1, <1>3 DEF SecurityFlag
  <2>3. "secure" \in DOMAIN present /\ present["secure"] = "true"
    BY <2>2 DEF Present, None
  <2> HIDE DEF present, s
  <2> QED BY <2>1, <2>2, <2>3 DEF Merged
<1> QED BY <1>2, <1>3

(* The clients an application starts with are whole, and in production     *)
(* none of them is told not to verify, whatever changed during the call    *)
(* (config.py 159-325, 378-391; factories.py 88-105, 130-238).             *)
THEOREM ClientsWhole == StartupSpec => []ClientsAreWhole
<1>1. IInv /\ StartupInv => ClientsAreWhole
  BY PostgresWhole, NatsWhole, LangfuseWhole, ProductionVerifies DEF ClientsAreWhole
<1> QED BY <1>1, StartupInvariance, PTL

=============================================================================
