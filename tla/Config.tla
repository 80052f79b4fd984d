------------------------------- MODULE Config -------------------------------
(***************************************************************************)
(* internal/config: what Load makes of the environment.  A variable's      *)
(* value is one of a few texts, and "" is a variable that is not set.      *)
(* What the code does with texts it takes apart (trimming, splitting,      *)
(* folding case, parsing) is kept; that they are made of characters is     *)
(* not: a name is a word, with or without spaces around it and capitals.   *)
(***************************************************************************)
EXTENDS Integers, Sequences

CONSTANTS
  Split,          \* strings.Split at the commas, of the lists there may be
  ParseDuration,  \* time.ParseDuration, in seconds, of the texts that parse
  ParseBool,      \* strconv.ParseBool, of the texts that parse
  ReadFile        \* os.ReadFile and TrimSpace, of the files one can read

-----------------------------------------------------------------------------
(* Names: organisations, domains, groups, institutions. *)

Names == {n \in [word : STRING, padded : BOOLEAN, upper : BOOLEAN] :
            n.word = "" => ~n.upper}

Name(word) == [word |-> word, padded |-> FALSE, upper |-> FALSE]
Blank == Name("")

TrimSpace(n) == [n EXCEPT !.padded = FALSE]
EqualFold(a, b) == [a EXCEPT !.upper = FALSE] = [b EXCEPT !.upper = FALSE]

ASSUME TextsAssumption ==
  /\ \A v \in DOMAIN Split : Split[v] \in Seq(Names)
  /\ \A v \in DOMAIN ParseDuration : ParseDuration[v] \in Int

(* The loop over the parts: out[i] is the list it made of the first i.     *)
splitCSV(s) ==
  LET out[i \in 0 .. Len(Split[s])] ==
        IF i = 0 THEN <<>>
        ELSE LET p == TrimSpace(Split[s][i])
             IN  IF p.word # "" THEN Append(out[i - 1], p) ELSE out[i - 1]
  IN  out[Len(Split[s])]

-----------------------------------------------------------------------------
(* Typed variables: one that is not set, or does not parse, has its        *)
(* default.                                                                *)

EnvOr(v, def) == IF v # "" THEN v ELSE def
durEnv(v, def) == IF v \in DOMAIN ParseDuration THEN ParseDuration[v] ELSE def
boolEnv(v, def) == IF v \in DOMAIN ParseBool THEN ParseBool[v] ELSE def

-----------------------------------------------------------------------------
(* Load *)

Provider(e) == EnvOr(e.AUTH_PROVIDER, "github")

FromKeyFile(e) == e.WG_PRIVATE_KEY_FILE # "" /\ e.WG_PRIVATE_KEY = ""

WGPrivateKey(e) ==
  IF FromKeyFile(e) THEN ReadFile[e.WG_PRIVATE_KEY_FILE] ELSE e.WG_PRIVATE_KEY

PeerListInterval(e) == durEnv(e.GOAUTHN_PEER_LIST_INTERVAL, 30)

PushRoutes(e) ==
  LET routes == splitCSV(e.PUSH_ROUTES)
  IN  IF routes = <<>> THEN <<Name(EnvOr(e.VPN_CIDR, "10.80.0.0/24"))>>
                       ELSE routes

(* What must not be empty, by provider. *)
Required(e) ==
  {e.WG_ENDPOINT, WGPrivateKey(e)}
    \cup (IF Provider(e) \in {"oidc", "go-authn"}
          THEN {e.OIDC_ISSUER, e.OIDC_CLIENT_ID} ELSE {})
    \cup (IF Provider(e) = "go-authn"
          THEN {e.GOAUTHN_GATEWAY_CLIENT_ID, e.GOAUTHN_GATEWAY_SECRET_FILE}
          ELSE {})

(* Whether Load returns a configuration rather than an error. *)
Loads(e) ==
  /\ FromKeyFile(e) => e.WG_PRIVATE_KEY_FILE \in DOMAIN ReadFile
  /\ Provider(e) \in {"github", "oidc", "go-authn"}
  /\ Provider(e) = "go-authn" =>
       /\ e.GOAUTHN_GATEWAY_SECRET_FILE # "" =>
            /\ e.GOAUTHN_GATEWAY_SECRET_FILE \in DOMAIN ReadFile
            /\ ReadFile[e.GOAUTHN_GATEWAY_SECRET_FILE] # ""
       /\ PeerListInterval(e) > 0
  /\ "" \notin Required(e)

Load(e) ==
  [AuthProvider     |-> Provider(e),
   AllowedDomains   |-> splitCSV(e.OIDC_ALLOWED_DOMAINS),
   AllowedOrgs      |-> splitCSV(e.GITHUB_ALLOWED_ORGS),
   WGPrivateKey     |-> WGPrivateKey(e),
   DryRun           |-> boolEnv(e.WG_DRYRUN, FALSE),
   VPNCIDR          |-> EnvOr(e.VPN_CIDR, "10.80.0.0/24"),
   PushRoutes       |-> PushRoutes(e),
   PeerListInterval |-> PeerListInterval(e),
   SSF              |-> boolEnv(e.GOAUTHN_SSF, FALSE),
   SSFInterval      |-> durEnv(e.GOAUTHN_SSF_INTERVAL, 5),
   AdminToken       |-> e.ADMIN_TOKEN,
   TLSCert          |-> e.TLS_CERT,
   TLSKey           |-> e.TLS_KEY]

=============================================================================
