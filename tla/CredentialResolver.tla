------------------------- MODULE CredentialResolver -------------------------
(***************************************************************************)
(* loadAuthConfig (internal/controller/helpers.go) and the Secret watch of  *)
(* the SchemaRegistry controller (schemaRegistryReferencesSecret), as pure  *)
(* operators checked over every auth configuration and Secret store built  *)
(* from two Secret names.                                                  *)
(*                                                                         *)
(* A Secret is absent or the set of data keys it holds; key values are     *)
(* abstracted to their presence.  "tls" stands for the pair tls.crt and    *)
(* tls.key, which tls.X509KeyPair parses together.                         *)
(***************************************************************************)
CONSTANTS
    SecretNames,  \* Secrets of the SchemaRegistry's namespace
    NoRef,        \* an unset pointer or an empty secret reference
    Absent        \* a Secret that does not exist

VARIABLES auth, store

AuthTypes == {"NONE", "BASIC", "BEARER", "MTLS"}

Keys == {"username", "password", "token", "tls", "ca.crt"}

Ref == SecretNames \cup {NoRef}

\* spec.auth: nil, or a type with the optional per-type configurations
AuthSpecs ==
    {NoRef} \cup
    [type: AuthTypes, basic: Ref, bearer: Ref,
     mtls: {NoRef} \cup [cert: SecretNames, ca: Ref]]

SecretContents == {Absent} \cup SUBSET Keys

Stores == [SecretNames -> SecretContents]

\* the AuthConfig handed to NewClient, or a configuration error
Failed == [err |-> TRUE, type |-> NoRef, user |-> FALSE, pass |-> FALSE,
           token |-> FALSE, cert |-> FALSE, ca |-> "nil"]

Credentials(type) == [Failed EXCEPT !.err = FALSE, !.type = type]

\* a Get of a referenced Secret that fails
Missing(st, ref) == ref = NoRef \/ st[ref] = Absent

----------------------------------------------------------------------------

\* loadAuthConfig: NONE when spec.auth is nil; per type, a nil
\* configuration or a missing Secret is an error; BASIC and BEARER copy the
\* keys they find; MTLS parses the key pair and builds a CA pool from the
\* optional CA Secret whatever it holds.
LoadAuthConfig(a, st) ==
    IF a = NoRef THEN Credentials("NONE")
    ELSE CASE a.type = "BASIC" ->
                IF Missing(st, a.basic) THEN Failed
                ELSE [Credentials("BASIC") EXCEPT
                        !.user = "username" \in st[a.basic],
                        !.pass = "password" \in st[a.basic]]
           [] a.type = "BEARER" ->
                IF Missing(st, a.bearer) THEN Failed
                ELSE [Credentials("BEARER") EXCEPT
                        !.token = "token" \in st[a.bearer]]
           [] a.type = "MTLS" ->
                IF a.mtls = NoRef \/ Missing(st, a.mtls.cert)
                   \/ "tls" \notin st[a.mtls.cert] THEN Failed
                ELSE IF a.mtls.ca = NoRef
                     THEN [Credentials("MTLS") EXCEPT !.cert = TRUE]
                ELSE IF st[a.mtls.ca] = Absent THEN Failed
                ELSE [Credentials("MTLS") EXCEPT
                        !.cert = TRUE,
                        !.ca = IF "ca.crt" \in st[a.mtls.ca] THEN "certs"
                                                             ELSE "empty"]
           [] OTHER -> Credentials(a.type)

\* variant: the CA Secret is forgotten by the watch
ReferencesCertOnly(a, n) ==
    /\ a # NoRef
    /\ \/ a.type = "BASIC" /\ a.basic = n
       \/ a.type = "BEARER" /\ a.bearer = n
       \/ a.type = "MTLS" /\ a.mtls # NoRef /\ a.mtls.cert = n

\* schemaRegistryReferencesSecret: the Secrets whose change enqueues the
\* SchemaRegistry (findSchemaRegistriesForSecret)
SchemaRegistryReferencesSecret(a, n) ==
    /\ a # NoRef
    /\ \/ a.type = "BASIC" /\ a.basic = n
       \/ a.type = "BEARER" /\ a.bearer = n
       \/ a.type = "MTLS" /\ a.mtls # NoRef /\ n \in {a.mtls.cert, a.mtls.ca}

----------------------------------------------------------------------------
(* The client side of the credentials: NewClient puts a client certificate *)
(* and CA pool into the transport, addAuth adds a header to every request. *)
(* Header values are abstracted to which Secret keys fed them; the base64  *)
(* encoding of SetBasicAuth is a bijection the property does not observe.  *)

NoHeader == [scheme |-> "none", user |-> FALSE, pass |-> FALSE, token |-> FALSE]

\* variant: the header is chosen by which fields are set, not by Type
AddAuthByFields(cfg) ==
    IF cfg.user \/ cfg.pass
    THEN [NoHeader EXCEPT !.scheme = "Basic", !.user = cfg.user,
                          !.pass = cfg.pass]
    ELSE IF cfg.token THEN [NoHeader EXCEPT !.scheme = "Bearer", !.token = TRUE]
    ELSE NoHeader

\* addAuth: BASIC sets Basic user:pass, BEARER a Bearer token, others nothing
AddAuth(cfg) ==
    CASE cfg.type = "BASIC" ->
            [NoHeader EXCEPT !.scheme = "Basic", !.user = cfg.user,
                             !.pass = cfg.pass]
      [] cfg.type = "BEARER" ->
            [NoHeader EXCEPT !.scheme = "Bearer", !.token = cfg.token]
      [] OTHER -> NoHeader

\* NewClient: the tls.Config of the transport; a nil CACert keeps the
\* system roots
NewClientTLS(cfg) ==
    [certs |-> cfg.type = "MTLS" /\ cfg.cert,
     roots |-> IF cfg.type = "MTLS" /\ cfg.ca # "nil" THEN cfg.ca ELSE "system"]

\* what every request of a client built from spec.auth and the store carries
Presented(a, st) ==
    LET cfg == LoadAuthConfig(a, st)
    IN  [header |-> AddAuth(cfg), tls |-> NewClientTLS(cfg)]

----------------------------------------------------------------------------

Init == auth \in AuthSpecs /\ store \in Stores

Next == UNCHANGED <<auth, store>>

Spec == Init /\ [][Next]_<<auth, store>>

\* Credential rotation is observed: whenever rewriting, creating or deleting
\* one Secret would change what loadAuthConfig returns for a SchemaRegistry,
\* the Secret watch enqueues that SchemaRegistry.
WatchCoversDependencies ==
    \A n \in SecretNames, c \in SecretContents :
        LoadAuthConfig(auth, store) # LoadAuthConfig(auth, [store EXCEPT ![n] = c])
            => SchemaRegistryReferencesSecret(auth, n)

\* The credential bundle has exactly the fields its strategy implies (spec
\* 6 and 8), end to end through loadAuthConfig, NewClient and addAuth: when
\* the credentials resolve, a request carries the Basic header built from
\* the basicAuth Secret, the Bearer header from the bearerAuth Secret, or,
\* for MTLS, no header but the client certificate and the roots of the CA
\* Secret if one is named; nothing from another strategy's configuration.
StrategyDeterminesCredentials ==
    LoadAuthConfig(auth, store) # Failed =>
      LET type == IF auth = NoRef THEN "NONE" ELSE auth.type
          req  == Presented(auth, store)
      IN  /\ req.header.scheme = CASE type = "BASIC"  -> "Basic"
                                   [] type = "BEARER" -> "Bearer"
                                   [] OTHER           -> "none"
          /\ type = "BASIC" =>
               /\ req.header.user = ("username" \in store[auth.basic])
               /\ req.header.pass = ("password" \in store[auth.basic])
          /\ type = "BEARER" => req.header.token = ("token" \in store[auth.bearer])
          /\ req.tls.certs = (type = "MTLS")
          /\ (req.tls.roots = "system") <=> (type # "MTLS" \/ auth.mtls.ca = NoRef)

=============================================================================
