----------------------------- MODULE ConfigLoad -----------------------------
(***************************************************************************)
(* load_service_configs (config.py): an application reads its settings     *)
(* from the environment, one class after the other, and creates the        *)
(* clients of the sections it got (factories.py).  Each class takes its    *)
(* own picture of the environment, and another thread may set variables in *)
(* between.                                                                *)
(*                                                                         *)
(* The variable of field f of class c is <<c, f>> (env_key).  An           *)
(* environment maps the variables that are set to raw values, members of   *)
(* Raws that stand for the spellings the code tells apart.                 *)
(***************************************************************************)
EXTENDS Naturals, Sequences, FiniteSets, Functions

CONSTANTS
  Scenarios, \* [env, request, budget]: what an application starts with
  Volatile   \* [variable, raw]: what other threads may set

(***************************************************************************)
(* The settings classes: every field with its kind.                        *)
(***************************************************************************)

Order    == <<"keycloak", "postgres", "sqlite", "minio", "milvus", "ollama", "langfuse", "nats">>
Services == Range(Order)
Classes  == Services \cup {"common"}

(* A class from its fields, grouped by kind.                               *)
Class(groups) ==
  [f \in UNION Range(groups) |-> CHOOSE kind \in DOMAIN groups : f \in groups[kind]]

CommonFields == Class([text |-> {"env"}, flag |-> {"healthcheck_enabled"}])

KeycloakFields == Class([
  required |-> {"url", "realm", "client_id"},
  optional |-> {"client_secret", "audience", "token_scope", "token_username", "token_password",
                "admin_client_secret", "admin_username", "admin_password", "realm_display_name"},
  flag     |-> {"verify_ssl", "provisioning_enabled", "provisioning_dry_run", "realm_enabled",
                "client_public"},
  list     |-> {"client_redirect_uris", "client_web_origins", "realm_roles", "client_roles"},
  text     |-> {"admin_realm", "admin_client_id"},
  grant    |-> {"token_grant_type"},
  positive |-> {"request_timeout_seconds"},
  natural  |-> {"max_retries", "jwks_cache_ttl_seconds"} ])

PostgresFields == Class([
  optional |-> {"dsn", "host", "db", "user", "password"},
  text     |-> {"sslmode"},
  positive |-> {"port", "connect_timeout_seconds", "pool_size"},
  natural  |-> {"max_overflow"} ])

SqliteFields == Class([
  required |-> {"path"},
  flag     |-> {"readonly", "enable_wal"},
  natural  |-> {"busy_timeout_ms"} ])

MinioFields == Class([
  required |-> {"endpoint", "access_key", "secret_key"},
  optional |-> {"region", "bucket"},
  flag     |-> {"secure"},
  positive |-> {"request_timeout_seconds"},
  natural  |-> {"max_retries"} ])

MilvusFields == Class([
  required |-> {"uri"},
  optional |-> {"token", "collection"},
  text     |-> {"db_name"},
  flag     |-> {"secure"},
  positive |-> {"connect_timeout_seconds", "request_timeout_seconds"},
  natural  |-> {"max_retries"} ])

OllamaFields == Class([
  required |-> {"host"},
  optional |-> {"generation_model", "embedding_model"},
  positive |-> {"request_timeout_seconds"},
  natural  |-> {"max_retries"} ])

LangfuseFields == Class([
  optional |-> {"host", "public_key", "secret_key", "release", "environment"},
  flag     |-> {"enabled"},
  positive |-> {"request_timeout_seconds"},
  natural  |-> {"max_retries"} ])

NatsFields == Class([
  optional |-> {"user", "password", "token", "creds_file"},
  list     |-> {"servers"},
  text     |-> {"name"},
  positive |-> {"connect_timeout_seconds"},
  natural  |-> {"max_reconnect_attempts"} ])

Fields == [
  common |-> CommonFields, keycloak |-> KeycloakFields, postgres |-> PostgresFields,
  sqlite |-> SqliteFields, minio |-> MinioFields, milvus |-> MilvusFields,
  ollama |-> OllamaFields, langfuse |-> LangfuseFields, nats |-> NatsFields ]

Variables == UNION {{<<c, f>> : f \in DOMAIN Fields[c]} : c \in Classes}

OnByDefault == {<<"common", "healthcheck_enabled">>, <<"keycloak", "verify_ssl">>,
                <<"keycloak", "realm_enabled">>, <<"minio", "secure">>, <<"langfuse", "enabled">>}

(***************************************************************************)
(* Raw values: nothing but blanks, commas only, numbers, booleans in       *)
(* either case, and words.  Unset is the raw value of no variable.         *)
(***************************************************************************)

Numbers == {"-1", "0", "7"}
Raws    == {" ", ",", "true", "TRUE", "false", "Production", "prod", "x", ":memory:",
            "client_credentials", "password"} \cup Numbers

Unset == "unset"
None  == "None"

ASSUME ConfigAssumption ==
  /\ \A s \in Scenarios : DOMAIN s.env \subseteq Variables /\ Range(s.env) \subseteq Raws
                           /\ s.budget \in Nat
  /\ \A v \in Volatile : v.variable \in Variables /\ v.raw \in Raws

Raw(e, c, f) == IF <<c, f>> \in DOMAIN e THEN e[<<c, f>>] ELSE Unset

(* What pydantic and the field validators let pass.  A blank value is an   *)
(* empty list to _parse_csv, an error to _parse_bool, and strip_strings    *)
(* makes None of any other, which only optional fields take.               *)
Accepted(kind) ==
  CASE kind = "required" -> Raws \ {" "}
    [] kind = "text"     -> (Raws \ {" "}) \cup {Unset}
    [] kind = "grant"    -> {Unset, "client_credentials", "password"}
    [] kind = "flag"     -> {Unset, "true", "TRUE", "false"}
    [] kind = "natural"  -> {Unset, "0", "7"}
    [] kind = "positive" -> {Unset, "7"}
    [] OTHER             -> Raws \cup {Unset}

Lower(word) ==
  CASE word = "TRUE"       -> "true"
    [] word = "Production" -> "production"
    [] word = "Keycloak"   -> "keycloak"
    [] OTHER               -> word

Default(c, f) ==
  IF <<c, f>> = <<"common", "env">> THEN "development" ELSE
  CASE Fields[c][f] = "flag"  -> IF <<c, f>> \in OnByDefault THEN "true" ELSE "false"
    [] Fields[c][f] = "grant" -> "client_credentials"
    [] Fields[c][f] \in {"text", "natural", "positive"} -> "default"
    [] OTHER                  -> None

(* The value of a field whose raw value is accepted.  A list of nothing is *)
(* empty, like the one that is not there.                                  *)
Value(c, f, raw) ==
  IF raw \in {Unset, " "} THEN Default(c, f) ELSE
  CASE Fields[c][f] = "flag"               -> Lower(raw)
    [] Fields[c][f] = "list" /\ raw = "," -> None
    [] OTHER                               -> raw

Settings(c, e) == [f \in DOMAIN Fields[c] |-> Value(c, f, Raw(e, c, f))]

Invalid(c, e) == {f \in DOMAIN Fields[c] : Raw(e, c, f) \notin Accepted(Fields[c][f])}

(***************************************************************************)
(* The model validators: what they complain of, in their order.            *)
(***************************************************************************)

Rule(complaint, broken) == [complaint |-> complaint, broken |-> broken]

Missing(s, fields) == [i \in DOMAIN fields |-> Rule(fields[i], s[fields[i]] = None)]

(* Slip: half a pair of credentials counts as an administrator.            *)
SingleAdminModeLoose(s) ==
  (s.admin_client_secret # None) # (s.admin_username # None \/ s.admin_password # None)

SingleAdminMode(s) ==
  (s.admin_client_secret # None) # (s.admin_username # None /\ s.admin_password # None)

NatsModes(s) ==
  {m \in {"user", "token", "creds_file"} :
     s[m] # None \/ (m = "user" /\ s.password # None)}

(* Slip: a password without a user passes.                                 *)
NatsPairLoose(s) == s.user # None => s.password # None

NatsPair(s) == (s.user # None) = (s.password # None)

KeycloakRules(s) ==
  << Rule("client_id", s.client_id = None),
     Rule("client_secret", s.client_public = "false" /\ s.client_secret = None),
     Rule("admin mode", s.provisioning_enabled = "true" /\ ~ SingleAdminMode(s)) >>

PostgresRules(s) ==
  IF s.dsn # None THEN << >> ELSE Missing(s, <<"host", "db", "user", "password">>)

LangfuseRules(s) ==
  IF s.enabled = "false" THEN << >> ELSE Missing(s, <<"host", "public_key", "secret_key">>)

NatsRules(s) ==
  << Rule("servers", s.servers = None),
     Rule("single mode", Cardinality(NatsModes(s)) > 1),
     Rule("together", ~ NatsPair(s)) >>

Rules(c, s) ==
  CASE c = "keycloak" -> KeycloakRules(s)
    [] c = "postgres" -> PostgresRules(s)
    [] c = "sqlite"   -> Missing(s, <<"path">>)
    [] c = "minio"    -> Missing(s, <<"endpoint", "access_key", "secret_key">>)
    [] c = "milvus"   -> Missing(s, <<"uri">>)
    [] c = "ollama"   -> Missing(s, <<"host">>)
    [] c = "langfuse" -> LangfuseRules(s)
    [] c = "nats"     -> NatsRules(s)
    [] OTHER          -> << >>

(* The first rule that is broken speaks, and no other.                     *)
Broken(c, s) ==
  LET rules    == Rules(c, s)
      first(i) == rules[i].broken /\ \A j \in 1..(i - 1) : ~ rules[j].broken
  IN  {<<c, rules[i].complaint>> : i \in {j \in DOMAIN rules : first(j)}}

(* _rewrite_validation_message: fields under the names of their variables. *)
Named(c, fields) == {<<c, f>> : f \in fields}

(***************************************************************************)
(* The call.                                                               *)
(***************************************************************************)

VARIABLES
  moments, \* the environments there have been, the present one last
  request, \* services: [given, names]
  budget,  \* how often others may still change the environment
  pc,      \* where the call is
  todo,    \* the sections still to read
  loaded,  \* the settings read, by class
  readAt,  \* when each class was read
  outcome, \* how load_service_configs ended
  errors   \* what a ConfigError names

vars == <<moments, request, budget, pc, todo, loaded, readAt, outcome, errors>>

env      == moments[Len(moments)]
Now      == Len(moments)

Init ==
  \E s \in Scenarios :
    /\ moments = <<s.env>> /\ request = s.request /\ budget = s.budget
    /\ pc = "common" /\ todo = {}
    /\ loaded = << >> /\ readAt = << >>
    /\ outcome = "none" /\ errors = {}

(* The function f with the value v for x.                                  *)
Including(f, x, v) == [y \in DOMAIN f \cup {x} |-> IF y = x THEN v ELSE f[y]]

(* Another thread sets a variable.                                         *)
Change ==
  /\ budget > 0
  /\ \E v \in Volatile :
       /\ Including(env, v.variable, v.raw) # env
       /\ moments' = Append(moments, Including(env, v.variable, v.raw))
  /\ budget' = budget - 1
  /\ UNCHANGED <<request, pc, todo, loaded, readAt, outcome, errors>>

(* Slip: the message of the failure is lost on the way.                    *)
FailUnnamed(complaints) ==
  /\ pc' = "done" /\ outcome' = "ConfigError"
  /\ UNCHANGED <<moments, request, budget, todo, loaded, readAt, errors>>

Fail(complaints) ==
  /\ pc' = "done" /\ outcome' = "ConfigError" /\ errors' = complaints
  /\ UNCHANGED <<moments, request, budget, todo, loaded, readAt>>

(* Settings that passed their fields' validators meet the rules.           *)
Judge(c, s) ==
  \/ Broken(c, s) # {} /\ Fail(Broken(c, s))
  \/ /\ Broken(c, s) = {}
     /\ loaded' = Including(loaded, c, s)
     /\ readAt' = Including(readAt, c, IF c \in DOMAIN readAt THEN readAt[c] ELSE Now)
     /\ pc' = IF c = "common" THEN "select" ELSE "read"
     /\ todo' = todo \ {c}
     /\ UNCHANGED <<moments, request, budget, outcome, errors>>

ReadCommon ==
  /\ pc = "common"
  /\ IF Invalid("common", env) # {}
     THEN Fail(Named("common", Invalid("common", env)))
     ELSE Judge("common", Settings("common", env))

Requested == IF request.given THEN {Lower(n) : n \in request.names} ELSE Services

Normalize ==
  /\ pc = "select"
  /\ IF Requested \ Services # {}
     THEN Fail(Named("services", Requested \ Services))
     ELSE /\ pc' = "read" /\ todo' = Requested
          /\ UNCHANGED <<moments, request, budget, loaded, readAt, outcome, errors>>

(* The sections are read in the order of ServiceConfigs' arguments.        *)
Earliest(c, sections) ==
  c \in sections /\ \A i, j \in DOMAIN Order : i < j /\ Order[j] = c => Order[i] \notin sections

Inherits(c, s) == c = "langfuse" /\ s.environment = None

ReadSection ==
  /\ pc = "read"
  /\ \E c \in todo :
       /\ Earliest(c, todo)
       /\ LET s == Settings(c, env)
          IN  \/ Invalid(c, env) # {} /\ Fail(Named(c, Invalid(c, env)))
              \/ Invalid(c, env) = {} /\ ~ Inherits(c, s) /\ Judge(c, s)
              \/ /\ Invalid(c, env) = {} /\ Inherits(c, s)
                 /\ pc' = "inherit"
                 /\ loaded' = Including(loaded, c, s) /\ readAt' = Including(readAt, c, Now)
                 /\ UNCHANGED <<moments, request, budget, todo, outcome, errors>>

(* Slip: the environment comes from the common settings of before.         *)
InheritCommon ==
  /\ pc = "inherit"
  /\ Judge("langfuse", [loaded["langfuse"] EXCEPT !.environment = loaded["common"].env])

(* LangfuseConfig makes a CommonConfig of its own.  What is invalid in it  *)
(* then goes by the name of a Langfuse variable.                           *)
Inherit ==
  /\ pc = "inherit"
  /\ IF Invalid("common", env) # {}
     THEN Fail(Named("langfuse", Invalid("common", env)))
     ELSE Judge("langfuse",
            [loaded["langfuse"] EXCEPT !.environment = Settings("common", env).env])

SecurityFlag == [keycloak |-> "verify_ssl", minio |-> "secure", milvus |-> "secure"]

Insecure == {c \in DOMAIN SecurityFlag \cap DOMAIN loaded : loaded[c][SecurityFlag[c]] = "false"}

(* validate_runtime_security, and the return.                              *)
Check ==
  /\ pc = "read" /\ todo = {}
  /\ IF Lower(loaded["common"].env) \in {"production", "prod"} /\ Insecure # {}
     THEN Fail({<<"common", "security">>})
     ELSE /\ pc' = "done" /\ outcome' = "returned"
          /\ UNCHANGED <<moments, request, budget, todo, loaded, readAt, errors>>

Next == Change \/ ReadCommon \/ Normalize \/ ReadSection \/ Inherit \/ Check

Spec == Init /\ [][Next]_vars

(***************************************************************************)
(* Properties.  What makes a section's variables good is stated anew, from *)
(* their raw values.                                                       *)
(***************************************************************************)

Texts == Raws \cup {None, "default", "development"}

TypeOK ==
  /\ \A i \in DOMAIN moments :
       /\ DOMAIN moments[i] \subseteq Variables
       /\ Range(moments[i]) \subseteq Raws
  /\ budget \in Nat
  /\ pc \in {"common", "select", "read", "inherit", "done"}
  /\ todo \subseteq Services
  /\ DOMAIN loaded \subseteq Classes /\ DOMAIN readAt = DOMAIN loaded
  /\ \A c \in DOMAIN loaded :
       /\ loaded[c] \in [DOMAIN Fields[c] -> Texts]
       /\ readAt[c] \in DOMAIN moments
  /\ outcome \in {"none", "returned", "ConfigError"}
  /\ outcome = "none" <=> pc # "done"
  /\ errors # {} <=> outcome = "ConfigError"

Given(e, c, f) == Raw(e, c, f) \notin {Unset, " "}
Off(e, c, f)   == Raw(e, c, f) = "false"
On(e, c, f)    == Raw(e, c, f) \in {"true", "TRUE"}

Consistent(c, e) ==
  LET given(fields) == {f \in fields : Given(e, c, f)}
      all(fields)   == given(fields) = fields
  IN CASE c = "keycloak" ->
            /\ On(e, c, "client_public") \/ Given(e, c, "client_secret")
            /\ On(e, c, "provisioning_enabled") =>
                 all({"admin_client_secret"}) # all({"admin_username", "admin_password"})
       [] c = "postgres" -> Given(e, c, "dsn") \/ all({"host", "db", "user", "password"})
       [] c = "langfuse" -> Off(e, c, "enabled") \/ all({"host", "public_key", "secret_key"})
       [] c = "nats"     ->
            /\ Given(e, c, "servers") /\ Raw(e, c, "servers") # ","
            /\ given({"user", "password", "token", "creds_file"})
                 \in {{}, {"user", "password"}, {"token"}, {"creds_file"}}
       [] OTHER -> TRUE

Sound(c, e) == Invalid(c, e) = {} /\ Consistent(c, e)

(* In production no flag of a selected section may be off; Milvus's is off *)
(* unless it is set.                                                       *)
Production(e) == Raw(e, "common", "env") \in {"prod", "Production"}
Protected(c, e) ==
  /\ c \in {"keycloak", "minio"} => ~ Off(e, c, SecurityFlag[c])
  /\ c = "milvus" => On(e, c, "secure")

(* The variables a call depends on stayed as they were while it ran.       *)
Settled ==
  \A i \in DOMAIN moments : \A v \in Variables :
    v[1] \in Requested \cup {"common"} => Raw(moments[i], v[1], v[2]) = Raw(moments[1], v[1], v[2])

(* The common and the selected sections that the first environment has at  *)
(* fault, and whether production may use what it selects.                  *)
Bad  == {c \in Classes \cap (Requested \cup {"common"}) : ~ Sound(c, moments[1])}
Safe == Production(moments[1]) => \A c \in Requested : Protected(c, moments[1])

(* Its names are those of one section, with all of its invalid fields.     *)
Blames(names, c) ==
  {v[1] : v \in names} = {c} /\ Named(c, Invalid(c, moments[1])) \subseteq names

(* What a call returns or complains of depends on the variables of the     *)
(* common and the selected sections alone, whatever becomes of the others: *)
(* it returns just when all of those are good, each of them and in         *)
(* production together, and otherwise names nothing but the first section  *)
(* at fault, with all its invalid fields.  (config.py 344-391)             *)
OutcomeIsDocumented ==
  outcome # "none" /\ Settled =>
    /\ outcome = "returned" <=> Bad = {} /\ Requested \subseteq Services /\ Safe
    /\ "common" \in Bad => Blames(errors, "common")
    /\ "common" \notin Bad /\ Bad # {} /\ Requested \subseteq Services =>
         \E c \in Bad : Earliest(c, Bad) /\ Blames(errors, c)

NamedAt(i) == Value("common", "env", Raw(moments[i], "common", "env"))

(* The environment Langfuse inherits is one DOCMESH_ENV named when the     *)
(* rest of the Langfuse settings were read, or later, never one from       *)
(* before; it is the common one unless DOCMESH_ENV changed during the      *)
(* call.  (config.py 285-289, 385-391)                                     *)
EnvironmentsAgree ==
  LET from      == readAt["langfuse"]
      inherited == loaded["langfuse"].environment
  IN  outcome = "returned" /\ "langfuse" \in DOMAIN loaded
      /\ ~ Given(moments[from], "langfuse", "environment") =>
        /\ \E i \in from..Now : inherited = NamedAt(i)
        /\ (\A i \in 1..Now : NamedAt(i) = NamedAt(1)) => inherited = loaded["common"].env

(* docs/config.md:14 says that a blank string is treated as unset, so it   *)
(* is no fault of its own.                                                 *)
BlankIsUnset ==
  \A c \in Classes : \A f \in Invalid(c, env) :
    <<c, f>> \in errors /\ Raw(env, c, f) = " " => Unset \notin Accepted(Fields[c][f])

(***************************************************************************)
(* The inductive invariant behind them, in parts.                          *)
(***************************************************************************)

MomentsInv == Len(moments) > 0 /\ moments \in Seq(Range(moments))

(* Every section is read once, in its turn, after the common settings.     *)
OrderInv ==
  /\ pc = "common" => DOMAIN loaded = {}
  /\ pc = "select" => DOMAIN loaded = {"common"}
  /\ pc \in {"common", "select"} => todo = {}
  /\ pc = "read" => todo \cap DOMAIN loaded = {}
  /\ pc = "inherit" => Earliest("langfuse", todo) /\ todo \cap DOMAIN loaded = {"langfuse"}
  /\ pc \in {"select", "read", "inherit"} \/ outcome = "returned" => "common" \in DOMAIN loaded
  /\ pc \in {"read", "inherit"} \/ outcome = "returned" =>
       Requested \subseteq Services /\ todo \cup (DOMAIN loaded \ {"common"}) = Requested

(* Settings say what the environment they were read from said, but for the *)
(* environment of Langfuse's, which have it from there or, unless they are *)
(* about to inherit theirs, from one since then.                           *)
Reflects(s, c, e) ==
  \A f \in DOMAIN Fields[c] : <<c, f>> # <<"langfuse", "environment">> => s[f] = Value(c, f, Raw(e, c, f))

ReadInv ==
  /\ \A c \in DOMAIN loaded : Reflects(loaded[c], c, moments[readAt[c]])
  /\ "langfuse" \in DOMAIN loaded /\ (pc = "read" \/ outcome = "returned")
     /\ ~ Given(moments[readAt["langfuse"]], "langfuse", "environment") =>
       \E i \in readAt["langfuse"]..Now : loaded["langfuse"].environment = NamedAt(i)

(* No section that is done with came from an environment at fault, and the *)
(* settings returned hold no flag that production forbids.                 *)
SoundInv ==
  /\ \A c \in DOMAIN loaded :
       LET e == moments[readAt[c]]
       IN  Invalid(c, e) = {} /\ (c \notin todo => Consistent(c, e))
  /\ outcome = "returned" =>
       todo = {} /\ (Lower(loaded["common"].env) \in {"production", "prod"} => Insecure = {})

IInv == TypeOK /\ MomentsInv /\ OrderInv /\ ReadInv /\ SoundInv

=============================================================================
