------------------------------ MODULE MCAccess ------------------------------
(***************************************************************************)
(* Access for TLC: every provider, with the environment of a working       *)
(* server in which any two variables have any other value.                 *)
(***************************************************************************)
EXTENDS Access, TLC

Padded(n) == [n EXCEPT !.padded = TRUE]
Upper(n) == [n EXCEPT !.upper = TRUE]

MCSplit == "" :> <<Blank>>
        @@ " , " :> <<Padded(Blank), Padded(Blank)>>
        @@ "acme" :> <<Name("acme")>>
        @@ "beta, ACME" :> <<Name("beta"), Padded(Upper(Name("acme")))>>
MCParseDuration == "0s" :> 0 @@ "-1s" :> -1 @@ "2s" :> 2
MCParseBool == "true" :> TRUE @@ "false" :> FALSE
MCReadFile == "blank.txt" :> "" @@ "key.txt" :> "key"

Working ==
  [AUTH_PROVIDER |-> "", OIDC_ISSUER |-> "set", OIDC_CLIENT_ID |-> "set",
   GOAUTHN_GATEWAY_CLIENT_ID |-> "set",
   GOAUTHN_GATEWAY_SECRET_FILE |-> "key.txt",
   GOAUTHN_PEER_LIST_INTERVAL |-> "", GOAUTHN_SSF |-> "",
   GOAUTHN_SSF_INTERVAL |-> "", OIDC_ALLOWED_DOMAINS |-> "",
   GITHUB_ALLOWED_ORGS |-> "", WG_ENDPOINT |-> "set",
   WG_PRIVATE_KEY |-> "key", WG_PRIVATE_KEY_FILE |-> "", WG_DRYRUN |-> "",
   VPN_CIDR |-> "", PUSH_ROUTES |-> "", TLS_CERT |-> "", TLS_KEY |-> "",
   ADMIN_TOKEN |-> ""]

Durations == {"soon", "0s", "-1s", "2s"}
Files == {"missing.txt", "blank.txt", "key.txt"}
Lists == {" , ", "acme", "beta, ACME"}

Other ==
  [OIDC_ISSUER |-> {""}, OIDC_CLIENT_ID |-> {""},
   GOAUTHN_GATEWAY_CLIENT_ID |-> {""},
   GOAUTHN_GATEWAY_SECRET_FILE |-> Files \cup {""},
   GOAUTHN_PEER_LIST_INTERVAL |-> Durations, GOAUTHN_SSF |-> {"yes", "true"},
   GOAUTHN_SSF_INTERVAL |-> Durations, OIDC_ALLOWED_DOMAINS |-> Lists,
   GITHUB_ALLOWED_ORGS |-> Lists, WG_ENDPOINT |-> {""},
   WG_PRIVATE_KEY |-> {"", "typo"}, WG_PRIVATE_KEY_FILE |-> Files,
   WG_DRYRUN |-> {"true"}, VPN_CIDR |-> {"10.80.0.0/24", "fd00::/64"},
   PUSH_ROUTES |-> Lists, TLS_CERT |-> {"good", "bad"},
   TLS_KEY |-> {"good", "bad"}, ADMIN_TOKEN |-> {"secret"}]

With(f, v, g, w, p) ==
  [Working EXCEPT ![f] = v, ![g] = w, !.AUTH_PROVIDER = p]

MCEnvironments ==
  {With(x[1], x[2], y[1], y[2], p) :
     x, y \in UNION {{f} \X Other[f] : f \in DOMAIN Other},
     p \in {"", "github", "oidc", "go-authn", "ldap"}}

MCHeaders ==
  [scheme : {Upper(Name("bearer")), Name("basic")},
   rest : {Blank, Name("token"), Padded(Name("secret"))}]

MCOrgs == {Name("acme"), Name("beta")}
MCEmailDomains == {{}, {Name("acme")}}
MCGroupClaims ==
  {[kind |-> "string", items |-> <<Name("staff")>>],
   [kind |-> "string", items |-> <<Blank>>],
   [kind |-> "list", items |-> <<Blank, Name("staff")>>],
   [kind |-> "other", items |-> <<>>]}
MCGroups == {Blank, Name("staff")}
MCIdPs == {Blank, Name("uni")}

NoRule == [domains |-> {}, groups |-> {}, idps |-> {}]
MCRules ==
  {[NoRule EXCEPT !.domains = {Padded(Upper(Name("acme")))}],
   [NoRule EXCEPT !.groups = {Padded(Name("staff")), Name("acme")}],
   [NoRule EXCEPT !.idps = {Padded(Name("uni"))}],
   [domains |-> {Blank}, groups |-> {Padded(Blank)}, idps |-> {Blank}]}
=============================================================================
