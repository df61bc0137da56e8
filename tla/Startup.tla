------------------------------ MODULE Startup ------------------------------
(***************************************************************************)
(* An application that loads its settings (ConfigLoad) and creates a       *)
(* client for every section it got, with the factories of factories.py     *)
(* 130-264.  The constructors they call are third-party code and may       *)
(* raise.  An application without Langfuse gets None from its factory.     *)
(***************************************************************************)
EXTENDS ConfigLoad

VARIABLES
  stage,   \* "load", "create", "running" or "failed"
  clients  \* what the constructor of each client created was given, by section

startupVars == <<vars, stage, clients>>

Or(value, fallback) == IF value = None THEN fallback ELSE value

PostgresUrl(s) ==
  IF s.dsn # None THEN [dsn |-> s.dsn]
  ELSE [username |-> Or(s.user, ""), password |-> Or(s.password, ""),
        host |-> Or(s.host, "localhost"), port |-> s.port, database |-> Or(s.db, "")]

SqliteUrl(s) ==
  [database |-> s.path,
   mode |-> IF s.path # ":memory:" /\ s.readonly = "true" THEN "ro" ELSE "default"]

(* A function of the names in fields, without those whose value is None.   *)
Present(s, fields) == [f \in {g \in fields : s[g] # None} |-> s[f]]

Merged(f, g) == [x \in DOMAIN f \cup DOMAIN g |-> IF x \in DOMAIN f THEN f[x] ELSE g[x]]

(* What the factory of a section passes on; Nothing: it makes no client.   *)
Nothing == [none |-> None]

Arguments(c, s) ==
  CASE c = "keycloak" -> s
    [] c = "postgres" -> Merged(PostgresUrl(s),
           Present(s, {"pool_size", "max_overflow", "connect_timeout_seconds", "sslmode"}))
    [] c = "sqlite"   -> Merged(SqliteUrl(s), Present(s, {"busy_timeout_ms", "enable_wal"}))
    [] c = "minio"    -> Merged([cert_check |-> s.secure],
           Present(s, {"endpoint", "access_key", "secret_key", "secure", "region"}))
    [] c = "milvus"   -> [uri |-> s.uri, token |-> Or(s.token, ""), db_name |-> s.db_name,
                          timeout |-> s.request_timeout_seconds]
    [] c = "ollama"   -> [host |-> s.host, timeout |-> s.request_timeout_seconds]
    [] c = "langfuse" -> IF s.enabled = "false" THEN Nothing
         ELSE Present(s, {"host", "public_key", "secret_key", "environment",
           "release", "request_timeout_seconds"})
    [] c = "nats"     -> Present(s, {"servers", "name", "connect_timeout_seconds",
           "max_reconnect_attempts", "user", "password", "token", "creds_file"})

StartupInit == Init /\ stage = "load" /\ clients = << >>

Load ==
  /\ stage = "load" /\ outcome = "none"
  /\ Next
  /\ UNCHANGED <<stage, clients>>

Loaded ==
  /\ stage = "load" /\ outcome # "none"
  /\ stage' = IF outcome = "returned" THEN "create" ELSE "failed"
  /\ UNCHANGED <<vars, clients>>

Uncreated == (DOMAIN loaded \cap Services) \ DOMAIN clients

(* A constructor that raises ends the start.                               *)
Create ==
  /\ stage = "create"
  /\ \E c \in Uncreated :
       /\ Earliest(c, Uncreated)
       /\ LET arguments == Arguments(c, loaded[c])
          IN  \/ clients' = Including(clients, c, arguments) /\ UNCHANGED stage
              \/ arguments # Nothing /\ stage' = "failed" /\ UNCHANGED clients
  /\ UNCHANGED vars

Run ==
  /\ stage = "create" /\ Uncreated = {}
  /\ stage' = "running"
  /\ UNCHANGED <<vars, clients>>

(* Others change the environment after the call, too.                      *)
LateChange == stage # "load" /\ Change /\ UNCHANGED <<stage, clients>>

StartupNext == Load \/ Loaded \/ Create \/ Run \/ LateChange

StartupSpec == StartupInit /\ [][StartupNext]_startupVars

(***************************************************************************)
(* Properties.                                                             *)
(***************************************************************************)

(* Some environment there has been gave the variable this value.           *)
Chosen(c, f, value) == \E i \in DOMAIN moments : Given(moments[i], c, f) /\ Raw(moments[i], c, f) = value

(* The clients an application starts with are whole: PostgreSQL's is given *)
(* a DSN or four values somebody chose, never a fallback of the factory;   *)
(* NATS's at most one way to authenticate, with both halves of it;         *)
(* Langfuse's its host and both keys.  In production none of them is told  *)
(* not to verify, wherever in the call the environment changed.            *)
(* (config.py 159-325, 378-391; factories.py 88-105, 130-238)              *)
ClientsAreWhole ==
  /\ "postgres" \in DOMAIN clients /\ "dsn" \notin DOMAIN clients["postgres"] =>
       \A a \in {<<"username", "user">>, <<"password", "password">>, <<"host", "host">>,
                  <<"database", "db">>} :
         Chosen("postgres", a[2], clients["postgres"][a[1]])
  /\ "nats" \in DOMAIN clients =>
       DOMAIN clients["nats"] \cap {"user", "password", "token", "creds_file"}
         \in {{}, {"user", "password"}, {"token"}, {"creds_file"}}
  /\ "langfuse" \in DOMAIN clients /\ clients["langfuse"] # Nothing =>
       {"host", "public_key", "secret_key"} \subseteq DOMAIN clients["langfuse"]
  /\ stage = "running" /\ Lower(loaded["common"].env) \in {"production", "prod"} =>
       /\ "keycloak" \in DOMAIN clients => clients["keycloak"].verify_ssl = "true"
       /\ "minio" \in DOMAIN clients =>
            clients["minio"].secure = "true" /\ clients["minio"].cert_check = "true"

(***************************************************************************)
(* The inductive invariant behind it, next to ConfigLoad's.                *)
(***************************************************************************)

(* Clients are made of the settings a call returned, and an application    *)
(* runs when it has all of them.                                           *)
StartupInv ==
  /\ stage \in {"load", "create", "running", "failed"}
  /\ stage = "load" => DOMAIN clients = {}
  /\ stage \in {"create", "running"} \/ DOMAIN clients # {} => outcome = "returned"
  /\ DOMAIN clients \subseteq DOMAIN loaded \cap Services
  /\ \A c \in DOMAIN clients : clients[c] = Arguments(c, loaded[c])
  /\ stage = "running" => Uncreated = {}

=============================================================================
