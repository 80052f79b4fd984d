------------------------------- MODULE Access -------------------------------
(***************************************************************************)
(* From the environment to an identity: run of cmd/claimward-server up to  *)
(* serving, the bearer checks of the API, of the RouteService and of the   *)
(* admin API, the verifiers of internal/auth, and the tenants a verified   *)
(* person matches.                                                         *)
(*                                                                         *)
(* Requests share nothing here, so one is followed at a time.  What the    *)
(* identity provider says is the provider's choice; every call to it may   *)
(* fail.                                                                   *)
(***************************************************************************)
EXTENDS Config, FiniteSets

CONSTANTS
  Environments,   \* environments the process may be started in
  Headers,        \* Authorization headers: [scheme, rest]
  Orgs,           \* GitHub organisations, as their API names them
  EmailDomains,   \* sets of at most one domain: that of a person's email
  GroupClaims,    \* values of an ID token's groups claim: [kind, items]
  Groups, IdPs,   \* what a go-authn token may carry; Blank if nothing
  Rules           \* membership lists of a tenant: [domains, groups, idps]

ASSUME ProviderAssumption ==
  /\ \A e \in Environments :
       {e.OIDC_ALLOWED_DOMAINS, e.GITHUB_ALLOWED_ORGS} \subseteq DOMAIN Split
  /\ Headers \subseteq [scheme : Names, rest : Names]
  /\ Orgs \subseteq Names /\ Groups \subseteq Names /\ IdPs \subseteq Names
  /\ EmailDomains \subseteq SUBSET Names
  /\ GroupClaims \subseteq [kind : {"string", "list", "other"},
                          items : Seq(Names)]
  /\ \A v \in GroupClaims : v.kind = "other" => v.items = <<>>
  /\ Rules \subseteq [domains : SUBSET Names, groups : SUBSET Names,
                    idps : SUBSET Names]

VARIABLES
  env,            \* the environment of the process
  cfg,            \* the configuration Load made of it
  step,           \* where run is
  registry,       \* api.Server.peers: "nil", or "list" once one was read
  tickers,        \* intervals of the tickers of the goroutines started
  http, grpc,     \* the two listeners: "closed", "plain" or "tls"
  req             \* the request followed

vars == <<env, cfg, step, registry, tickers, http, grpc, req>>
surfaces == <<registry, tickers, http, grpc>>

NoConfig == [AuthProvider |-> "", AllowedOrgs |-> <<>>]
Nobody == [domain |-> {}, verified |-> FALSE, groups |-> {}, idp |-> Blank]

(* said and active are what the provider knows of the person, claims what  *)
(* the verifier makes of it.                                               *)
NoRequest == [at |-> "none", bearer |-> Blank, said |-> Nobody,
              active |-> {}, claims |-> Nobody, org |-> 1, failed |-> FALSE,
              rule |-> [domains |-> {}, groups |-> {}, idps |-> {}],
              member |-> FALSE]

-----------------------------------------------------------------------------
(* run *)

Goto(s) == step' = s

(* run returns an error: with the process go its goroutines and listeners. *)
Exit ==
  /\ Goto("exited")
  /\ registry' = "nil" /\ tickers' = {} /\ http' = "closed" /\ grpc' = "closed"

LoadConfig ==
  /\ step = "load"
  /\ IF Loads(env) THEN cfg' = Load(env) /\ Goto("key") /\ UNCHANGED surfaces
                   ELSE Exit /\ UNCHANGED cfg
  /\ UNCHANGED <<env, req>>

ParseKey ==
  /\ step = "key"
  /\ IF cfg.WGPrivateKey = "key" THEN Goto("verifier") /\ UNCHANGED surfaces
                                 ELSE Exit
  /\ UNCHANGED <<env, cfg, req>>

(* auth.New: two of the verifiers discover their issuer. *)
NewVerifier ==
  /\ step = "verifier"
  /\ \/ Goto("gateway") /\ UNCHANGED surfaces
     \/ cfg.AuthProvider \in {"oidc", "go-authn"} /\ Exit
  /\ UNCHANGED <<env, cfg, req>>

(* The pool, the gateway and the sweep: ControlPlane has their detail.  A  *)
(* dry run has no device that could be missing or refuse.                  *)
OpenGateway ==
  /\ step = "gateway"
  /\ \/ cfg.VPNCIDR = "10.80.0.0/24" /\ Goto("registry") /\ UNCHANGED surfaces
     \/ (cfg.VPNCIDR # "10.80.0.0/24" \/ ~cfg.DryRun) /\ Exit
  /\ UNCHANGED <<env, cfg, req>>

AsConfigured(interval) == interval                                 \* mutant
PollInterval(interval) == IF interval <= 0 THEN 5 ELSE interval

GoOnWithout == Goto("grpc") /\ UNCHANGED surfaces                  \* mutant
NoFirstList == Exit

(* With go-authn, the first list is read, and the goroutines that keep it  *)
(* up to date start.                                                       *)
UseRegistry ==
  /\ step = "registry"
  /\ \/ /\ cfg.AuthProvider # "go-authn"
        /\ Goto("grpc")
        /\ UNCHANGED surfaces
     \/ /\ cfg.AuthProvider = "go-authn"
        /\ Goto("grpc")
        /\ registry' = "list"
        /\ tickers' = {cfg.PeerListInterval}
             \cup (IF cfg.SSF THEN {PollInterval(cfg.SSFInterval)} ELSE {})
        /\ UNCHANGED <<http, grpc>>
     \/ cfg.AuthProvider = "go-authn" /\ NoFirstList
  /\ UNCHANGED <<env, cfg, req>>

NoCredentials == FALSE                                             \* mutant
BothGiven == cfg.TLSCert # "" /\ cfg.TLSKey # ""

(* The RouteService: listening, then its certificate, if it has one. *)
ServeRoutes ==
  /\ step = "grpc"
  /\ \/ /\ BothGiven => {cfg.TLSCert, cfg.TLSKey} = {"good"}
        /\ grpc' = IF BothGiven THEN "tls" ELSE "plain"
        /\ Goto("http")
        /\ UNCHANGED <<registry, tickers, http>>
     \/ Exit
  /\ UNCHANGED <<env, cfg, req>>

(* The reaper starts, and the API is served until the process ends. *)
ServeAPI ==
  /\ step = "http"
  /\ \/ /\ http' = IF cfg.TLSCert # "" /\ cfg.TLSKey # "" THEN "tls"
                                                          ELSE "plain"
        /\ tickers' = tickers \cup {60}
        /\ Goto("serving")
        /\ UNCHANGED <<registry, grpc>>
     \/ Exit
  /\ UNCHANGED <<env, cfg, req>>

Run == LoadConfig \/ ParseKey \/ NewVerifier \/ OpenGateway \/ UseRegistry
         \/ ServeRoutes \/ ServeAPI

-----------------------------------------------------------------------------
(* Bearer credentials, in the API, the RouteService and the admin API. *)

bearerToken(h) ==
  IF EqualFold(h.scheme, Name("bearer")) THEN TrimSpace(h.rest) ELSE Blank

server == <<env, cfg, step, surfaces>>

Arrives == step = "serving" /\ req.at = "none"
At(at) == req.at = at /\ UNCHANGED server
EndAt(at) == req' = [req EXCEPT !.at = at]

AlwaysEnabled == TRUE                                              \* mutant
Enabled == cfg.AdminToken # ""

(* Register mounts the admin API only if it has a token; guard compares. *)
Administer(h) ==
  /\ Arrives
  /\ req' = [req EXCEPT !.bearer = bearerToken(h),
                        !.at = IF /\ Enabled
                                  /\ bearerToken(h).word = cfg.AdminToken
                               THEN "administers" ELSE "refused"]
  /\ UNCHANGED server

(* The first call of each verifier. *)
FirstCall(provider) ==
  CASE provider = "github" -> "user"
    [] provider = "oidc" -> "idtoken"
    [] provider = "go-authn" -> "accesstoken"

Authenticate(h) ==
  /\ Arrives
  /\ req' = [req EXCEPT !.bearer = bearerToken(h),
                        !.at = IF bearerToken(h) = Blank THEN "refused"
                               ELSE FirstCall(cfg.AuthProvider)]
  /\ UNCHANGED server

-----------------------------------------------------------------------------
(* GitHubVerifier *)

(* A call fails, or the user it returns has no id or no login. *)
CallFails ==
  /\ At("user") \/ At("orgs")
  /\ EndAt("refused")

(* /user: an email is one GitHub verified.  What the organisations say is  *)
(* asked in the calls that follow.                                         *)
GetUser ==
  /\ At("user")
  /\ \E domain \in EmailDomains, active \in SUBSET Orgs :
       LET person == [Nobody EXCEPT !.domain = domain,
                                    !.verified = domain # {}]
       IN  req' = [req EXCEPT !.at = "orgs", !.active = active,
                              !.said = person, !.claims = person]

GetOrgs ==
  /\ At("orgs")
  /\ \E visible \in SUBSET Orgs :
       req' = [req EXCEPT !.said.groups = visible,
                          !.claims.groups = visible,
                          !.at = IF cfg.AllowedOrgs = <<>> THEN "admitted"
                                 ELSE "membership"]

AskFirstOnly(i) == "unlisted"                                      \* mutant
AskOneMore(i) ==                                                   \* mutant
  IF i <= Len(cfg.AllowedOrgs) THEN "membership" ELSE "unlisted"
AskNext(i) == IF i < Len(cfg.AllowedOrgs) THEN "membership" ELSE "unlisted"

(* One turn of inAllowedOrg: a call that fails is a no. *)
InAllowedOrg ==
  LET org == TrimSpace(cfg.AllowedOrgs[req.org])
  IN  /\ At("membership")
      /\ \/ /\ \E a \in req.active : EqualFold(a, org)
            /\ EndAt("admitted")
         \/ /\ org.word = "" \/ ~\E a \in req.active : EqualFold(a, org)
            /\ req' = [req EXCEPT !.at = AskNext(req.org), !.org = @ + 1]
         \/ /\ org.word # ""
            /\ req' = [req EXCEPT !.at = AskNext(req.org), !.org = @ + 1,
                                  !.failed = TRUE]

-----------------------------------------------------------------------------
(* OIDCVerifier *)

(* A claim that is a string or a list of strings; what is empty, or not a  *)
(* string, is Blank.                                                       *)
stringList(v) ==
  IF v.kind \in {"string", "list"}
  THEN {v.items[i] : i \in DOMAIN v.items} \ {Blank}
  ELSE {}

domainAllowed(domain, allowed) ==
  \E d \in domain, i \in DOMAIN allowed : EqualFold(TrimSpace(allowed[i]), d)

(* The token is refused, or its claims do not decode. *)
InvalidToken ==
  /\ At("idtoken") \/ At("accesstoken")
  /\ EndAt("refused")

VerifyIDToken ==
  /\ At("idtoken")
  /\ \E domain \in EmailDomains, verified \in BOOLEAN, v \in GroupClaims :
       LET person == [domain |-> domain, verified |-> verified,
                      groups |-> {v.items[i] : i \in DOMAIN v.items},
                      idp |-> Blank]
       IN  req' = [req EXCEPT !.said = person,
                              !.claims = [person EXCEPT
                                            !.groups = stringList(v)],
                              !.at = IF \/ cfg.AllowedDomains = <<>>
                                        \/ domainAllowed(domain,
                                                         cfg.AllowedDomains)
                                     THEN "admitted" ELSE "unlisted"]

-----------------------------------------------------------------------------
(* GoAuthnVerifier: an address that is not verified is dropped. *)

VerifyAccessToken ==
  /\ At("accesstoken")
  /\ \E domain \in EmailDomains, verified \in BOOLEAN,
        groups \in SUBSET Groups, idp \in IdPs :
       LET person == [domain |-> domain, verified |-> verified,
                      groups |-> groups, idp |-> idp]
       IN  req' = [req EXCEPT !.said = person,
                              !.claims = [person EXCEPT
                                 !.domain = IF verified THEN @ ELSE {}],
                              !.at = "admitted"]

-----------------------------------------------------------------------------
(* Tenant membership. *)

hasUnverified(t, m) ==                                             \* mutant
  \/ \E d \in t.domains, own \in m.domain : EqualFold(TrimSpace(d), own)
  \/ \E g \in t.groups : TrimSpace(g) \in m.groups
  \/ m.idp # Blank /\ \E i \in t.idps : TrimSpace(i) = m.idp
has(t, m) ==
  \/ /\ m.verified
     /\ \E d \in t.domains, own \in m.domain : EqualFold(TrimSpace(d), own)
  \/ \E g \in t.groups : TrimSpace(g).word # "" /\ TrimSpace(g) \in m.groups
  \/ m.idp # Blank /\ \E i \in t.idps : TrimSpace(i) = m.idp

MatchTenant ==
  /\ At("admitted")
  /\ \E rule \in Rules :
       req' = [req EXCEPT !.at = "matched", !.rule = rule,
                          !.member = has(rule, req.claims)]

-----------------------------------------------------------------------------

Init ==
  /\ env \in Environments
  /\ cfg = NoConfig
  /\ step = "load"
  /\ registry = "nil" /\ tickers = {} /\ http = "closed" /\ grpc = "closed"
  /\ req = NoRequest

Verify ==
  \/ CallFails \/ GetUser \/ GetOrgs \/ InAllowedOrg
  \/ InvalidToken \/ VerifyIDToken \/ VerifyAccessToken

Next ==
  \/ Run
  \/ \E h \in Headers : Administer(h) \/ Authenticate(h)
  \/ Verify
  \/ MatchTenant

Spec == Init /\ [][Next]_vars

-----------------------------------------------------------------------------
(* Properties. *)

Steps == {"load", "key", "verifier", "gateway", "registry", "grpc", "http",
          "serving", "exited"}
Ats == {"none", "user", "orgs", "membership", "idtoken", "accesstoken",
        "admitted", "matched", "refused", "unlisted", "administers"}

(* Types; inAllowedOrg asks about organisations of its list only.          *)
TypeOK ==
  /\ step \in Steps
  /\ registry \in {"nil", "list"}
  /\ {http, grpc} \subseteq {"closed", "plain", "tls"}
  /\ req.at \in Ats
  /\ req.at = "membership" => req.org \in DOMAIN cfg.AllowedOrgs

(* No environment makes a goroutine panic: time.NewTicker does for an      *)
(* interval that is not positive, and the two intervals an operator may    *)
(* set are checked in different places (config.go:124, ssfpoll.go:58).     *)
TickersPositive == \A interval \in tickers : interval > 0

(* "The first list is fetched before the server listens" (README.md:87):   *)
(* with go-authn neither listener is open without it, and without go-authn *)
(* no registry stands in the way of enrollments.                           *)
ReadsListFirst ==
  {http, grpc} # {"closed"} =>
    (registry = "list" <=> env.AUTH_PROVIDER = "go-authn")

(* TLS_CERT and TLS_KEY "enable HTTPS and TLS on the gRPC RouteService"    *)
(* (README.md:165): when the server serves, both listeners have it or      *)
(* neither has, whichever of the two variables are set.                    *)
ListenersAgree == step = "serving" => http = grpc

(* The admin API is "disabled unless ADMIN_TOKEN is set" (README.md:110):  *)
(* who gets past guard presented the token of the environment, and never   *)
(* the empty one that guard alone would take for a match.                  *)
AdminNeedsToken ==
  req.at = "administers" =>
    env.ADMIN_TOKEN # "" /\ req.bearer.word = env.ADMIN_TOKEN

(* The names an operator's allowlist holds, for the provider in use. *)
Named(v) == {TrimSpace(Split[v][i]) : i \in DOMAIN Split[v]} \ {Blank}

AllowList ==
  CASE cfg.AuthProvider = "github" -> Named(env.GITHUB_ALLOWED_ORGS)
    [] cfg.AuthProvider = "oidc" -> Named(env.OIDC_ALLOWED_DOMAINS)
    [] OTHER -> {}

OnList ==
  \E n \in AllowList :
    \E own \in (IF cfg.AuthProvider = "github" THEN req.active
                                             ELSE req.said.domain) :
      EqualFold(n, own)

(* The allowlist alone decides (README.md:141, :145): with names on it,    *)
(* nobody is admitted without one of them; and whoever has one, wherever   *)
(* on the list and however it is written, is refused for the list only if  *)
(* a call to GitHub failed.  A list of blanks is no list.                  *)
AllowlistDecides ==
  /\ req.at \in {"admitted", "matched"} => AllowList = {} \/ OnList
  /\ req.at = "unlisted" /\ ~req.failed => AllowList # {} /\ ~OnList

(* What the identity provider said proves membership of a tenant. *)
Proven ==
  \/ /\ req.said.verified
     /\ \E d \in req.rule.domains, own \in req.said.domain :
          EqualFold(TrimSpace(d), own)
  \/ \E g \in req.rule.groups : TrimSpace(g) \in req.said.groups \ {Blank}
  \/ \E i \in req.rule.idps : TrimSpace(i) \in {req.said.idp} \ {Blank}

(* Whichever verifier read the token, a person is a member exactly of the  *)
(* tenants that name the domain of an address the provider verified, a     *)
(* group or an institution it vouched for (README.md:119): nothing is lost *)
(* or gained between the token and the tenant's lists, blanks included.    *)
MembershipByProof == req.at = "matched" => (req.member <=> Proven)

=============================================================================
