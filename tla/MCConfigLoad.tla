---------------------------- MODULE MCConfigLoad ----------------------------
(***************************************************************************)
(* Startup for TLC: environments that differ from a good one in one or two *)
(* variables, every combination of the variables each class's rules        *)
(* compare, and environments that change during the call.                  *)
(***************************************************************************)
EXTENDS Startup, TLC

(* Nothing is set but what must be.                                        *)
Must ==
  {v \in Variables : Fields[v[1]][v[2]] = "required"}
  \cup {<<"keycloak", "client_secret">>, <<"postgres", "dsn">>, <<"langfuse", "host">>,
        <<"langfuse", "public_key">>, <<"langfuse", "secret_key">>, <<"nats", "servers">>}

Least == [v \in Must |-> "x"]

All      == [given |-> FALSE, names |-> {}]
Only(ns) == [given |-> TRUE, names |-> ns]

Scenario(e, r, n) == [env |-> e, request |-> r, budget |-> n]

(* Least with some fields of class c changed, or left out.                 *)
With(c, over) ==
  LET kept == {v \in Must : v[1] # c \/ v[2] \notin DOMAIN over}
      put  == {<<c, f>> : f \in {g \in DOMAIN over : over[g] # Unset}}
  IN  [v \in kept \cup put |-> IF v \in kept THEN "x" ELSE over[v[2]]]

(* One variable at a time takes every raw value.                           *)
OneOff ==
  {Scenario(With(v[1], v[2] :> raw), r, 0) :
     v \in Variables, raw \in Raws \cup {Unset},
     r \in {All, Only({"Keycloak", "nats"})}}

(* Two variables of one class, each wrong in its own way.                  *)
TwoOff ==
  UNION {{Scenario(With(c, f :> " " @@ g :> b), Only({c}), 0) :
            f \in DOMAIN Fields[c], g \in DOMAIN Fields[c], b \in {"-1", Unset}} :
         c \in {"postgres", "minio", "nats"}}

(* The variables the rules of a class compare, in every combination.       *)
Combined(c, fields, raws) ==
  {Scenario(With(c, over), Only({c}), 0) : over \in [fields -> raws]}

Rulings ==
  Combined("keycloak", {"client_public", "provisioning_enabled", "client_secret",
             "admin_client_secret", "admin_username", "admin_password"}, {Unset, "TRUE"})
  \cup Combined("postgres", {"dsn", "host", "db", "user", "password"}, {Unset, "x"})
  \cup Combined("sqlite", {"path", "readonly"}, {":memory:", "true", Unset})
  \cup Combined("langfuse", {"enabled", "host", "public_key", "secret_key"}, {Unset, " ", "false"})
  \cup Combined("nats", {"servers", "user", "password", "token", "creds_file"}, {Unset, ",", "x"})

(* Production, with the flags of its three sections.                       *)
Flags(e, k, m, v) ==
  Least @@ <<"common", "env">> :> e @@ <<"keycloak", "verify_ssl">> :> k
        @@ <<"minio", "secure">> :> m @@ <<"milvus", "secure">> :> v

InProduction ==
  {Scenario(Flags(e, k, m, v), r, 0) :
     e \in {"x", "prod", "Production"}, k \in {"true", "false"}, m \in {"true", "false"},
     v \in {"true", "false"},
     r \in {All, Only({"milvus", "ollama"}), Only({"minio", "keycloak"}), Only({"sqlite"})}}

(* Environments that others change while they are read.                    *)
Moving ==
  {Scenario(With("langfuse", "enabled" :> l), r, 2) :
     l \in {Unset, "false"},
     r \in {Only({"keycloak", "langfuse"}), Only({"minio", "ollama", "langfuse"})}}

MCScenarios ==
  OneOff \cup TwoOff \cup Rulings \cup InProduction \cup Moving
  \cup {Scenario(Least, Only({"redis", "nats"}), 0),
        Scenario(With("common", "env" :> " "), Only({"redis"}), 0)}

Set(c, f, raw) == [variable |-> <<c, f>>, raw |-> raw]

MCVolatile ==
  {Set("common", "env", "Production"), Set("common", "env", "x"), Set("common", "env", " "),
   Set("keycloak", "verify_ssl", "false"), Set("minio", "secure", "false"),
   Set("langfuse", "environment", "x"), Set("sqlite", "readonly", "true")}

=============================================================================
