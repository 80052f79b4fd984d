---------------------------- MODULE AccessProofs ----------------------------
(***************************************************************************)
(* Proofs about Access, for every environment, whatever the lists in it    *)
(* split into, and whatever the identity provider says.                    *)
(***************************************************************************)
EXTENDS Access, Induction

-----------------------------------------------------------------------------
(* Names and lists of names. *)

Spelled == [word : STRING, padded : BOOLEAN, upper : BOOLEAN]

(* A name is its word, its spaces and its capitals. *)
LEMMA SameName ==
  ASSUME NEW n \in Spelled, NEW m \in Spelled, n.word = m.word,
         n.padded = m.padded, n.upper = m.upper
  PROVE  n = m
BY DEF Spelled

(* Trimming a name once is enough, and leaves nothing but blanks blank.    *)
LEMMA Trimmed ==
  ASSUME NEW n \in Names
  PROVE  /\ TrimSpace(n) \in Names
         /\ TrimSpace(TrimSpace(n)) = TrimSpace(n)
         /\ TrimSpace(n).word = "" <=> TrimSpace(n) = Blank
<1>0. /\ \A m \in Names : m \in Spelled /\ (m.word = "" => ~m.upper)
      /\ \A m \in Spelled : (m.word = "" => ~m.upper) => m \in Names
  BY Zenon DEF Names, Spelled
<1>1. ASSUME NEW x \in Spelled
      PROVE  /\ TrimSpace(x) \in Spelled /\ TrimSpace(x).word = x.word
             /\ TrimSpace(x).padded = FALSE /\ TrimSpace(x).upper = x.upper
  BY Zenon DEF TrimSpace, Spelled
<1> DEFINE m == TrimSpace(n)
<1>2. m \in Spelled /\ TrimSpace(m) \in Spelled
  BY Zenon, <1>0, <1>1
<1>3. m \in Names
  BY Zenon, <1>0, <1>1
<1>4. TrimSpace(m) = m
  <2>1. /\ TrimSpace(m).word = m.word /\ TrimSpace(m).padded = m.padded
        /\ TrimSpace(m).upper = m.upper
    BY Zenon, <1>0, <1>1
  <2> QED BY Zenon, <1>2, <2>1, SameName
<1>5. ASSUME m.word = "" PROVE m = Blank
  <2>1. Blank \in Spelled
    <3>1. "" \in STRING
      BY Zenon, <1>2, <1>5 DEF Spelled
    <3>2. FALSE \in BOOLEAN
      OBVIOUS
    <3> QED BY Zenon, <3>1, <3>2 DEF Blank, Name, Spelled
  <2>2. Blank.word = "" /\ Blank.padded = FALSE /\ Blank.upper = FALSE
    BY DEF Blank, Name
  <2>3. m.padded = FALSE
    BY Zenon, <1>0, <1>1
  <2>4. m.upper = FALSE
    <3>1. ~m.upper
      BY Zenon, <1>0, <1>3, <1>5
    <3>2. m.upper \in BOOLEAN
      BY <1>2 DEF Spelled
    <3> QED BY Zenon, <3>1, <3>2
  <2> QED BY Zenon, <1>2, <1>5, <2>1, <2>2, <2>3, <2>4, SameName
<1>6. Blank.word = ""
  BY DEF Blank, Name
<1> QED BY Zenon, <1>3, <1>4, <1>5, <1>6

Elements(s) == {s[i] : i \in DOMAIN s}

(* Elements of a list, one longer. *)
LEMMA ElementsAppend ==
  ASSUME NEW S, NEW s \in Seq(S), NEW x \in S
  PROVE  /\ Append(s, x) \in Seq(S)
         /\ Elements(Append(s, x)) = Elements(s) \cup {x}
<1> DEFINE t == Append(s, x)
<1>1. /\ t \in Seq(S) /\ Len(t) = Len(s) + 1 /\ Len(s) \in Nat
      /\ t[Len(s) + 1] = x /\ \A i \in 1..Len(s) : t[i] = s[i]
      /\ DOMAIN s = 1..Len(s) /\ DOMAIN t = 1..Len(t)
  OBVIOUS
<1> HIDE DEF t
<1>2. ASSUME NEW y \in Elements(t) PROVE y \in Elements(s) \cup {x}
  BY <1>1 DEF Elements
<1>3. ASSUME NEW y \in Elements(s) PROVE y \in Elements(t)
  BY <1>1 DEF Elements
<1>4. x \in Elements(t)
  BY <1>1 DEF Elements
<1> QED BY <1>1, <1>2, <1>3, <1>4 DEF t

(* One turn of splitCSV's loop over the parts of v, from the list out.     *)
Turn(v, i, out) ==
  IF TrimSpace(Split[v][i]).word # "" THEN Append(out, TrimSpace(Split[v][i]))
                                      ELSE out

(* The loop has a result: the last of the lists it makes turn by turn.     *)
LEMMA LoopMakesList ==
  ASSUME NEW v \in DOMAIN Split
  PROVE  \E f \in [0..Len(Split[v]) -> Seq(Names)] :
           /\ f[0] = <<>>
           /\ \A i \in 1..Len(Split[v]) : f[i] = Turn(v, i, f[i - 1])
           /\ splitCSV(v) = f[Len(Split[v])]
<1> DEFINE N == Len(Split[v])
           V == Seq(Names)
           G == [i \in 1..N |-> [out \in V |-> Turn(v, i, out)]]
           F(f) == [i \in 0..N |->
                      IF i = 0 THEN <<>> ELSE Turn(v, i, f[i - 1])]
<1>0. N \in Nat /\ \A i \in 1..N : Split[v][i] \in Names
  BY TextsAssumption
<1>1. \A i \in 1..N, out \in V : Turn(v, i, out) \in V
  <2> SUFFICES ASSUME NEW i \in 1..N, NEW out \in V PROVE Turn(v, i, out) \in V
    OBVIOUS
  <2> DEFINE p == TrimSpace(Split[v][i])
  <2>1. p \in Names
    BY Zenon, <1>0, Trimmed
  <2> HIDE DEF p
  <2>2. Append(out, p) \in V
    BY <2>1
  <2> QED BY Zenon, <2>2 DEF Turn, p
<1>2. G \in [1..N -> [V -> V]] /\ <<>> \in V
  BY <1>1
<1>3. \A i \in 1..N, out \in V : G[i][out] = Turn(v, i, out)
  OBVIOUS
<1>4. PICK f : Stages(f, N, V, <<>>, G)
  <2> HIDE DEF G, N, V
  <2> QED BY Zenon, <1>0, <1>2, RecursionUpTo
<1>5. f \in [0..N -> V] /\ f[0] = <<>>
  BY Zenon, <1>4 DEF Stages
<1>6. \A i \in 1..N : f[i - 1] \in V /\ f[i] = Turn(v, i, f[i - 1])
  <2> HIDE DEF G, N, V
  <2> SUFFICES ASSUME NEW i \in 1..N
               PROVE  f[i - 1] \in V /\ f[i] = Turn(v, i, f[i - 1])
    OBVIOUS
  <2>1. i - 1 \in 0..N
    BY <1>0
  <2>2. f[i - 1] \in V
    BY <1>5, <2>1
  <2> QED BY Zenon, <1>3, <1>4, <2>2 DEF Stages
<1>7. f = F(f)
  BY <1>0, <1>5, <1>6
<1>8. ASSUME NEW g, g = F(g) PROVE g = f
  <2>0. DOMAIN g = 0..N /\ g = [i \in 0..N |-> g[i]]
    BY <1>8
  <2> DEFINE S == {i \in 0..N : g[i] = f[i]}
  <2>1. 0 \in S
    <3>1. 0 \in 0..N /\ g[0] = <<>>
      BY <1>0, <1>8
    <3> QED BY <1>5, <3>1
  <2>2. ASSUME NEW i \in 1..N, i - 1 \in S PROVE i \in S
    <3>1. i \in 0..N /\ i # 0 /\ g[i] = Turn(v, i, g[i - 1])
      BY <1>0, <1>8
    <3> QED BY <1>6, <2>2, <3>1
  <2> HIDE DEF S
  <2>3. 0..N \subseteq S
    BY Zenon, <1>0, <2>1, <2>2, InductionUpTo
  <2> QED BY <1>5, <2>0, <2>3 DEF S
<1> DEFINE h == CHOOSE g : g = F(g)
<1>9. h = F(h)
  <2> HIDE DEF F
  <2> QED BY Zenon, <1>7
<1>10. splitCSV(v) = h[N]
  BY Zenon DEF splitCSV, Turn
<1>11. h = f
  <2> HIDE DEF F, h
  <2> QED BY Zenon, <1>8, <1>9
<1> HIDE DEF h, F, G
<1> QED BY <1>5, <1>6, <1>10, <1>11

(* splitCSV loses no name of the list and adds none.                       *)
LEMMA ListOfNames ==
  ASSUME NEW v \in DOMAIN Split
  PROVE  /\ splitCSV(v) \in Seq(Names)
         /\ Elements(splitCSV(v)) = Named(v)
<1> DEFINE N == Len(Split[v])
           Part(i) == TrimSpace(Split[v][i])
           Upto(n) == {Part(i) : i \in 1..n} \ {Blank}
<1>0. /\ N \in Nat /\ DOMAIN Split[v] = 1..N
      /\ \A i \in 1..N : Split[v][i] \in Names
  BY TextsAssumption
<1>1. PICK f \in [0..N -> Seq(Names)] :
        /\ f[0] = <<>>
        /\ \A i \in 1..N : f[i] = Turn(v, i, f[i - 1])
        /\ splitCSV(v) = f[N]
  BY LoopMakesList
<1>2. \A i \in 1..N : /\ Part(i) \in Names
                      /\ Part(i).word = "" <=> Part(i) = Blank
  BY Zenon, <1>0, Trimmed
<1> DEFINE S == {n \in 0..N : Elements(f[n]) = Upto(n)}
<1>3. 0 \in S
  <2>1. Elements(<<>>) = {} /\ Upto(0) = {}
    BY DEF Elements
  <2> QED BY <1>0, <1>1, <2>1
<1>4. ASSUME NEW n \in 1..N, n - 1 \in S PROVE n \in S
  <2>1. n - 1 \in 0..N /\ f[n - 1] \in Seq(Names) /\ n \in 0..N
    BY <1>0
  <2>2. 1..n = 1..(n - 1) \cup {n}
    BY <1>0
  <2>3. Upto(n) = Upto(n - 1) \cup ({Part(n)} \ {Blank})
    <3> HIDE DEF Part
    <3> QED BY <2>2
  <2>4. Elements(f[n - 1]) = Upto(n - 1)
    BY <1>4
  <2> HIDE DEF Upto, N
  <2>5. CASE Part(n).word # ""
    <3>1. /\ f[n] = Append(f[n - 1], Part(n))
          /\ Part(n) # Blank /\ Part(n) \in Names
      BY Zenon, <1>1, <1>2, <2>5 DEF Turn
    <3>2. Elements(Append(f[n - 1], Part(n)))
            = Elements(f[n - 1]) \cup {Part(n)}
      <4> DEFINE s == f[n - 1]
                 x == Part(n)
      <4>1. s \in Seq(Names) /\ x \in Names
        BY <2>1, <3>1
      <4> HIDE DEF s, x
      <4>2. Elements(Append(s, x)) = Elements(s) \cup {x}
        BY <4>1, ElementsAppend
      <4> QED BY <4>2 DEF s, x
    <3> QED BY Zenon, <2>1, <2>3, <2>4, <3>1, <3>2
  <2>6. CASE Part(n).word = ""
    <3>1. f[n] = f[n - 1] /\ Part(n) = Blank
      BY Zenon, <1>1, <1>2, <2>6 DEF Turn
    <3>2. {Part(n)} \ {Blank} = {}
      BY <3>1
    <3> QED BY Zenon, <2>1, <2>3, <2>4, <3>1, <3>2
  <2> QED BY Zenon, <2>5, <2>6
<1> HIDE DEF S
<1>5. 0..N \subseteq S
  <2> HIDE DEF N
  <2> QED BY Zenon, <1>0, <1>3, <1>4, InductionUpTo
<1>6. Elements(f[N]) = Upto(N)
  BY <1>0, <1>5 DEF S
<1> QED BY <1>0, <1>1, <1>6 DEF Named

(* The allowlists of an environment, as Load leaves them: names only, in   *)
(* their trimmed form.                                                     *)
LEMMA AllowLists ==
  ASSUME NEW e \in Environments,
         NEW v \in {e.OIDC_ALLOWED_DOMAINS, e.GITHUB_ALLOWED_ORGS}
  PROVE  LET L == splitCSV(v)
         IN  /\ L \in Seq(Names) /\ Elements(L) = Named(v)
             /\ L = <<>> <=> Named(v) = {}
             /\ \A i \in DOMAIN L : TrimSpace(L[i]) = L[i] /\ L[i].word # ""
<1>0. v \in DOMAIN Split
  BY ProviderAssumption
<1> DEFINE L == splitCSV(v)
<1>1. L \in Seq(Names) /\ Elements(L) = Named(v)
  BY Zenon, <1>0, ListOfNames
<1> HIDE DEF L
<1>2. L = <<>> <=> Named(v) = {}
  BY <1>1 DEF Elements
<1>3. ASSUME NEW i \in DOMAIN L PROVE TrimSpace(L[i]) = L[i] /\ L[i].word # ""
  <2>1. L[i] \in Named(v)
    BY <1>1 DEF Elements
  <2>2. PICK j \in DOMAIN Split[v] : L[i] = TrimSpace(Split[v][j])
    BY Zenon, <2>1 DEF Named
  <2>3. Split[v][j] \in Names /\ L[i] # Blank
    BY <1>0, <2>1, TextsAssumption DEF Named
  <2> QED BY Zenon, <2>2, <2>3, Trimmed
<1> QED BY Zenon, <1>1, <1>2, <1>3 DEF L

-----------------------------------------------------------------------------
(* The inductive invariant. *)

(* What run has done when it is at step. *)
Configured ==
  /\ env \in Environments
  /\ step \notin {"load", "exited"} => Loads(env) /\ cfg = Load(env)

Listens(s) == s \in {"grpc", "http", "serving"}

SurfacesFit ==
  /\ step \in Steps /\ registry \in {"nil", "list"}
  /\ Listens(step) => (registry = "list" <=> cfg.AuthProvider = "go-authn")
  /\ ~Listens(step) => registry = "nil" /\ tickers = {}
  /\ step \in {"http", "serving"} =>
       grpc = IF BothGiven THEN "tls" ELSE "plain"
  /\ step \notin {"http", "serving"} => grpc = "closed"
  /\ http = IF step = "serving" THEN grpc ELSE "closed"
  /\ TickersPositive

(* A request is a record of these fields, whichever of them are set.       *)
Shaped(r) ==
  /\ DOMAIN r = {"at", "bearer", "said", "active", "claims", "org", "failed",
                 "rule", "member"}
  /\ DOMAIN r.said = {"domain", "verified", "groups", "idp"}
  /\ DOMAIN r.claims = {"domain", "verified", "groups", "idp"}

(* The organisations before the i-th are not the person's. *)
NotBefore(r, i) ==
  \A j \in 1..(i - 1) : \A a \in r.active : ~EqualFold(a, cfg.AllowedOrgs[j])

(* The claims c prove what the provider said, s, proves. *)
Vouches(c, s) ==
  /\ c.verified <=> s.verified
  /\ s.verified => c.domain = s.domain
  /\ c.groups \ {Blank} = s.groups \ {Blank}
  /\ c.idp = s.idp

RequestFits ==
  /\ Shaped(req) /\ req.at \in Ats
  /\ step # "serving" => req = NoRequest
  /\ req.at \in {"none", "user", "orgs"} => req.org = 1
  /\ req.at \in {"user", "orgs", "membership"} => cfg.AuthProvider = "github"
  /\ req.at = "idtoken" => cfg.AuthProvider = "oidc"
  /\ req.at = "accesstoken" => cfg.AuthProvider = "go-authn"
  /\ req.at = "membership" => /\ req.org \in DOMAIN cfg.AllowedOrgs
                              /\ ~req.failed => NotBefore(req, req.org)
  /\ req.at \in {"orgs", "membership", "admitted"} =>
       Vouches(req.claims, req.said)

AccessInv ==
  /\ Configured /\ SurfacesFit /\ RequestFits
  /\ AdminNeedsToken /\ AllowlistDecides /\ MembershipByProof

(* A process that starts. *)
LEMMA AccessStarts == ASSUME Init PROVE AccessInv
<1>1. Configured /\ SurfacesFit
  BY DEF Init, Configured, SurfacesFit, Listens, Steps, TickersPositive
<1>2. req = NoRequest /\ req.at = "none"
  BY DEF Init, NoRequest
<1>3. RequestFits
  BY <1>2 DEF RequestFits, Shaped, Ats, NoRequest, Nobody
<1>4. AdminNeedsToken /\ AllowlistDecides /\ MembershipByProof
  BY <1>2 DEF AdminNeedsToken, AllowlistDecides, MembershipByProof
<1> QED BY <1>1, <1>3, <1>4 DEF AccessInv

-----------------------------------------------------------------------------
(* run.  No request is followed before the server serves. *)

(* While run runs, only run's own state is in question. *)
LEMMA RunLeavesRequest ==
  ASSUME AccessInv, step # "serving", req' = req, env' = env,
         Configured', SurfacesFit'
  PROVE  AccessInv'
<1>1. req = NoRequest /\ req.at = "none" /\ req'.at = "none"
  BY DEF AccessInv, RequestFits, NoRequest
<1>2. RequestFits'
  BY <1>1 DEF RequestFits, Shaped, Ats, NoRequest, Nobody
<1>3. AdminNeedsToken' /\ AllowlistDecides' /\ MembershipByProof'
  BY <1>1 DEF AdminNeedsToken, AllowlistDecides, MembershipByProof
<1> QED BY <1>2, <1>3 DEF AccessInv

(* An error of run leaves nothing behind. *)
LEMMA ExitFits ==
  ASSUME Exit, env' = env, Configured PROVE Configured' /\ SurfacesFit'
BY DEF Exit, Goto, Configured, SurfacesFit, Listens, Steps, TickersPositive

(* The intervals of a configuration that loads. *)
LEMMA IntervalsPositive ==
  ASSUME Loads(env), cfg = Load(env)
  PROVE  /\ cfg.AuthProvider = "go-authn" => cfg.PeerListInterval > 0
         /\ PollInterval(cfg.SSFInterval) > 0
<1>1. /\ cfg.AuthProvider = Provider(env)
      /\ cfg.PeerListInterval = PeerListInterval(env)
      /\ cfg.SSFInterval = durEnv(env.GOAUTHN_SSF_INTERVAL, 5)
  BY DEF Load
<1>2. cfg.SSFInterval \in Int
  BY <1>1, TextsAssumption DEF durEnv
<1>3. PollInterval(cfg.SSFInterval) > 0
  BY <1>2 DEF PollInterval
<1>4. Provider(env) = "go-authn" => PeerListInterval(env) > 0
  BY Zenon DEF Loads
<1> QED BY <1>1, <1>3, <1>4

(* Every step of run. *)
LEMMA RunStep == ASSUME AccessInv, Run PROVE AccessInv'
<1>0. /\ step # "serving" /\ req' = req /\ env' = env
      /\ Configured /\ SurfacesFit
  BY Zenon DEF Run, LoadConfig, ParseKey, NewVerifier, OpenGateway,
               UseRegistry, ServeRoutes, ServeAPI, AccessInv
<1>1. CASE Exit
  BY <1>0, <1>1, ExitFits, RunLeavesRequest
<1>2. CASE LoadConfig /\ ~Exit
  <2>1. /\ Loads(env) /\ cfg' = Load(env) /\ step' = "key"
        /\ UNCHANGED surfaces /\ step = "load"
    BY <1>2 DEF LoadConfig, Goto
  <2>2. Configured'
    BY <1>0, <2>1 DEF Configured
  <2>3. SurfacesFit'
    BY <1>0, <2>1 DEF SurfacesFit, Listens, Steps, TickersPositive, surfaces
  <2> QED BY <1>0, <2>2, <2>3, RunLeavesRequest
<1>3. CASE (ParseKey \/ NewVerifier \/ OpenGateway) /\ ~Exit
  <2>1. /\ step \in {"key", "verifier", "gateway"} /\ UNCHANGED surfaces
        /\ step' \in {"verifier", "gateway", "registry"} /\ cfg' = cfg
    BY <1>3 DEF ParseKey, NewVerifier, OpenGateway, Goto
  <2>2. Configured'
    BY <1>0, <2>1 DEF Configured
  <2>3. SurfacesFit'
    BY <1>0, <2>1 DEF SurfacesFit, Listens, Steps, TickersPositive, surfaces
  <2> QED BY <1>0, <2>2, <2>3, RunLeavesRequest
<1>4. CASE UseRegistry /\ ~Exit
  <2>1. /\ step = "registry" /\ step' = "grpc"
        /\ cfg' = cfg /\ UNCHANGED <<http, grpc>>
    BY <1>4 DEF UseRegistry, NoFirstList, Goto, surfaces
  <2>2. Configured' /\ Loads(env) /\ cfg = Load(env)
    BY <1>0, <2>1 DEF Configured
  <2>3. registry' \in {"nil", "list"}
        /\ (registry' = "list" <=> cfg.AuthProvider = "go-authn")
    BY <1>0, <1>4, <2>1
       DEF UseRegistry, NoFirstList, SurfacesFit, surfaces, Listens
  <2>4. TickersPositive'
    <3>1. /\ cfg.AuthProvider = "go-authn" => cfg.PeerListInterval > 0
          /\ PollInterval(cfg.SSFInterval) > 0
      BY <2>2, IntervalsPositive
    <3>2. tickers = {}
      BY <1>0, <2>1 DEF SurfacesFit, Listens
    <3>3. CASE cfg.AuthProvider # "go-authn"
      BY <1>4, <3>2, <3>3 DEF UseRegistry, surfaces, TickersPositive
    <3>4. CASE cfg.AuthProvider = "go-authn"
      <4>1. tickers' = {cfg.PeerListInterval}
              \cup (IF cfg.SSF THEN {PollInterval(cfg.SSFInterval)} ELSE {})
        BY <1>4, <3>4 DEF UseRegistry, NoFirstList
      <4>2. \A t \in tickers' : \/ t = cfg.PeerListInterval
                                 \/ t = PollInterval(cfg.SSFInterval)
        BY Zenon, <4>1
      <4> QED BY <3>1, <3>4, <4>2 DEF TickersPositive
    <3> QED BY <3>3, <3>4
  <2>5. SurfacesFit'
    BY <1>0, <2>1, <2>3, <2>4 DEF SurfacesFit, Listens, Steps
  <2> QED BY <1>0, <2>2, <2>5, RunLeavesRequest
<1>5. CASE ServeRoutes /\ ~Exit
  <2>1. /\ step = "grpc" /\ step' = "http" /\ cfg' = cfg
        /\ UNCHANGED <<registry, tickers, http>>
        /\ grpc' = IF BothGiven THEN "tls" ELSE "plain"
    BY <1>5 DEF ServeRoutes, Goto
  <2>2. Configured'
    BY <1>0, <2>1 DEF Configured
  <2>3. SurfacesFit'
    BY Zenon, <1>0, <2>1
       DEF SurfacesFit, Listens, Steps, TickersPositive, BothGiven
  <2> QED BY <1>0, <2>2, <2>3, RunLeavesRequest
<1>6. CASE ServeAPI /\ ~Exit
  <2>1. /\ step = "http" /\ step' = "serving" /\ cfg' = cfg
        /\ UNCHANGED <<registry, grpc>> /\ tickers' = tickers \cup {60}
        /\ http' = IF BothGiven THEN "tls" ELSE "plain"
    BY Zenon, <1>6 DEF ServeAPI, Goto, BothGiven
  <2>2. Configured'
    BY <1>0, <2>1 DEF Configured
  <2>3. SurfacesFit'
    <3>1. TickersPositive'
      BY <1>0, <2>1 DEF SurfacesFit, TickersPositive
    <3> QED BY Zenon, <1>0, <2>1, <3>1
               DEF SurfacesFit, Listens, Steps, BothGiven
  <2> QED BY <1>0, <2>2, <2>3, RunLeavesRequest
<1> QED BY <1>1, <1>2, <1>3, <1>4, <1>5, <1>6 DEF Run

-----------------------------------------------------------------------------
(* Requests. *)

(* A request leaves the server as it was. *)
LEMMA ServerKept ==
  ASSUME Configured, SurfacesFit, UNCHANGED server
  PROVE  Configured' /\ SurfacesFit'
<1>1. UNCHANGED <<env, cfg, step, registry, tickers, http, grpc>>
  BY DEF server, surfaces
<1>2. Configured'
  BY <1>1 DEF Configured
<1>3. SurfacesFit'
  BY Zenon, <1>1 DEF SurfacesFit, Listens, TickersPositive, BothGiven
<1> QED BY <1>2, <1>3

(* The server a request meets has loaded its configuration.                *)
LEMMA Serving ==
  ASSUME AccessInv, step = "serving" \/ req.at # "none"
  PROVE  /\ step = "serving" /\ env \in Environments
         /\ Loads(env) /\ cfg = Load(env)
         /\ cfg.AuthProvider \in {"github", "oidc", "go-authn"}
         /\ cfg.AllowedOrgs = splitCSV(env.GITHUB_ALLOWED_ORGS)
         /\ cfg.AllowedDomains = splitCSV(env.OIDC_ALLOWED_DOMAINS)
         /\ cfg.AdminToken = env.ADMIN_TOKEN
<1>1. step = "serving"
  BY DEF AccessInv, RequestFits, NoRequest
<1>2. env \in Environments /\ Loads(env) /\ cfg = Load(env)
  BY <1>1 DEF AccessInv, Configured
<1>3. Provider(env) \in {"github", "oidc", "go-authn"}
  BY Zenon, <1>2 DEF Loads
<1> QED BY <1>1, <1>2, <1>3 DEF Load

(* What is said of a request, before a step of it. *)
LEMMA RequestAt ==
  ASSUME AccessInv, UNCHANGED server
  PROVE  RequestFits /\ step' = step /\ cfg' = cfg /\ env' = env
<1>1. RequestFits
  BY Zenon DEF AccessInv
<1>2. step' = step /\ cfg' = cfg /\ env' = env
  BY Zenon DEF server
<1> QED BY <1>1, <1>2

(* A step of a request need only keep what is said of requests.            *)
LEMMA RequestKeeps ==
  ASSUME AccessInv, UNCHANGED server, RequestFits', AdminNeedsToken',
         AllowlistDecides', MembershipByProof'
  PROVE  AccessInv'
BY ServerKept DEF AccessInv

(* A request that ends refused. *)
LEMMA RefusedStep ==
  ASSUME AccessInv, UNCHANGED server, step = "serving",
         req' = [req EXCEPT !.at = "refused"]
  PROVE  AccessInv'
<1>1. Shaped(req')
  BY DEF AccessInv, RequestFits, Shaped
<1>2. req'.at = "refused" /\ step' = "serving"
  BY DEF AccessInv, RequestFits, Shaped, server
<1>3. RequestFits'
  BY <1>1, <1>2 DEF RequestFits, Ats
<1>4. AdminNeedsToken' /\ AllowlistDecides' /\ MembershipByProof'
  BY <1>2 DEF AdminNeedsToken, AllowlistDecides, MembershipByProof
<1> QED BY <1>3, <1>4, RequestKeeps

(* A bearer for the admin API. *)
LEMMA AdministerStep ==
  ASSUME AccessInv, NEW h \in Headers, Administer(h) PROVE AccessInv'
<1>0. step = "serving" /\ UNCHANGED server /\ cfg.AdminToken = env.ADMIN_TOKEN
  BY Serving DEF Administer, Arrives
<1>1. Shaped(req) /\ step' = "serving" /\ env' = env
  BY <1>0, RequestAt DEF RequestFits
<1>2. /\ Shaped(req') /\ req'.bearer = bearerToken(h)
      /\ req'.at = IF Enabled /\ bearerToken(h).word = cfg.AdminToken
                   THEN "administers" ELSE "refused"
  BY <1>1 DEF Shaped, Administer
<1>3. RequestFits'
  BY <1>1, <1>2 DEF RequestFits, Ats
<1>4. AdminNeedsToken'
  BY Zenon, <1>0, <1>1, <1>2 DEF AdminNeedsToken, Enabled
<1>5. AllowlistDecides' /\ MembershipByProof'
  BY <1>2 DEF AllowlistDecides, MembershipByProof
<1> QED BY <1>0, <1>3, <1>4, <1>5, RequestKeeps

(* A bearer for the API or the RouteService. *)
LEMMA AuthenticateStep ==
  ASSUME AccessInv, NEW h \in Headers, Authenticate(h) PROVE AccessInv'
<1>0. /\ step = "serving" /\ UNCHANGED server /\ req.at = "none"
      /\ cfg.AuthProvider \in {"github", "oidc", "go-authn"}
  BY Serving DEF Authenticate, Arrives
<1>1. /\ Shaped(req) /\ step' = "serving" /\ cfg' = cfg /\ req.org = 1
  BY <1>0, RequestAt DEF RequestFits
<1>2. /\ Shaped(req') /\ req'.org = 1
      /\ req'.at = IF bearerToken(h) = Blank THEN "refused"
                   ELSE FirstCall(cfg.AuthProvider)
  BY <1>1 DEF Shaped, Authenticate
<1>3. \/ req'.at = "refused"
      \/ req'.at = "user" /\ cfg.AuthProvider = "github"
      \/ req'.at = "idtoken" /\ cfg.AuthProvider = "oidc"
      \/ req'.at = "accesstoken" /\ cfg.AuthProvider = "go-authn"
  BY <1>0, <1>2 DEF FirstCall
<1>4. RequestFits'
  BY <1>1, <1>2, <1>3 DEF RequestFits, Ats
<1>5. AdminNeedsToken' /\ AllowlistDecides' /\ MembershipByProof'
  BY Zenon, <1>3 DEF AdminNeedsToken, AllowlistDecides, MembershipByProof
<1> QED BY <1>0, <1>4, <1>5, RequestKeeps

(* EqualFold has no sides. *)
LEMMA FoldSymmetric ==
  ASSUME NEW a, NEW b PROVE EqualFold(a, b) <=> EqualFold(b, a)
BY Zenon DEF EqualFold

(* The operator's list of organisations, with GitHub. *)
LEMMA GitHubList ==
  ASSUME AccessInv, step = "serving", cfg.AuthProvider = "github"
  PROVE  LET L == cfg.AllowedOrgs
         IN  /\ L \in Seq(Names) /\ AllowList = Elements(L)
             /\ L = <<>> <=> AllowList = {}
             /\ \A i \in DOMAIN L : TrimSpace(L[i]) = L[i] /\ L[i].word # ""
             /\ OnList <=> \E i \in DOMAIN L : \E a \in req.active :
                             EqualFold(a, L[i])
<1> DEFINE L == cfg.AllowedOrgs
           v == env.GITHUB_ALLOWED_ORGS
<1>0. env \in Environments /\ L = splitCSV(v)
  BY Zenon, Serving
<1>1. AllowList = Named(v)
  BY DEF AllowList
<1>2. /\ L \in Seq(Names) /\ Elements(L) = Named(v)
      /\ L = <<>> <=> Named(v) = {}
      /\ \A i \in DOMAIN L : TrimSpace(L[i]) = L[i] /\ L[i].word # ""
  BY Zenon, <1>0, AllowLists
<1>3. OnList <=> \E n \in AllowList : \E a \in req.active : EqualFold(n, a)
  BY DEF OnList
<1> HIDE DEF L
<1>4. OnList <=> \E i \in DOMAIN L : \E a \in req.active : EqualFold(a, L[i])
  <2>1. AllowList = {L[i] : i \in DOMAIN L}
    BY Zenon, <1>1, <1>2 DEF Elements
  <2> QED BY Zenon, <1>3, <2>1, FoldSymmetric
<1> QED BY Zenon, <1>1, <1>2, <1>4 DEF L

(* The operator's list of domains, with OpenID Connect. *)
LEMMA OIDCList ==
  ASSUME AccessInv, step = "serving", cfg.AuthProvider = "oidc"
  PROVE  LET L == cfg.AllowedDomains
         IN  /\ L = <<>> <=> AllowList = {}
             /\ \A domain : domainAllowed(domain, L) <=>
                  \E n \in AllowList : \E own \in domain : EqualFold(n, own)
<1> DEFINE L == cfg.AllowedDomains
           v == env.OIDC_ALLOWED_DOMAINS
<1>0. env \in Environments /\ L = splitCSV(v)
  BY Zenon, Serving
<1>1. AllowList = Named(v)
  BY DEF AllowList
<1>2. /\ Elements(L) = Named(v) /\ (L = <<>> <=> Named(v) = {})
      /\ \A i \in DOMAIN L : TrimSpace(L[i]) = L[i]
  BY Zenon, <1>0, AllowLists
<1> HIDE DEF L
<1>3. AllowList = {L[i] : i \in DOMAIN L}
  BY Zenon, <1>1, <1>2 DEF Elements
<1>4. ASSUME NEW domain
      PROVE  domainAllowed(domain, L) <=>
               \E n \in AllowList : \E own \in domain : EqualFold(n, own)
  <2>1. domainAllowed(domain, L) <=>
          \E d \in domain, i \in DOMAIN L : EqualFold(L[i], d)
    BY Zenon, <1>2 DEF domainAllowed
  <2> QED BY Zenon, <1>3, <2>1
<1> QED BY Zenon, <1>1, <1>2, <1>4 DEF L

-----------------------------------------------------------------------------
(* The verifiers. *)

(* /user answers. *)
LEMMA GetUserStep == ASSUME AccessInv, GetUser PROVE AccessInv'
<1>0. req.at = "user" /\ UNCHANGED server /\ step = "serving"
  BY Serving DEF GetUser, At
<1>1. /\ Shaped(req) /\ step' = "serving" /\ cfg' = cfg /\ req.org = 1
      /\ cfg.AuthProvider = "github"
  BY <1>0, RequestAt DEF RequestFits
<1>2. PICK domain \in EmailDomains, active \in SUBSET Orgs :
        LET person == [Nobody EXCEPT !.domain = domain,
                                     !.verified = domain # {}]
        IN  req' = [req EXCEPT !.at = "orgs", !.active = active,
                               !.said = person, !.claims = person]
  BY Zenon DEF GetUser
<1> DEFINE person == [Nobody EXCEPT !.domain = domain,
                                    !.verified = domain # {}]
<1>3. DOMAIN person = {"domain", "verified", "groups", "idp"}
  BY DEF Nobody
<1> HIDE DEF person
<1>4. req' = [req EXCEPT !.at = "orgs", !.active = active,
                         !.said = person, !.claims = person]
  BY <1>2 DEF person
<1>5. /\ Shaped(req') /\ req'.at = "orgs" /\ req'.org = 1
      /\ req'.claims = person /\ req'.said = person
  BY <1>1, <1>3, <1>4 DEF Shaped
<1>6. Vouches(person, person)
  BY Zenon DEF Vouches
<1>7. RequestFits'
  BY <1>1, <1>5, <1>6 DEF RequestFits, Ats
<1>8. AdminNeedsToken' /\ AllowlistDecides' /\ MembershipByProof'
  BY <1>5 DEF AdminNeedsToken, AllowlistDecides, MembershipByProof
<1> QED BY <1>0, <1>7, <1>8, RequestKeeps

(* /user/orgs answers. *)
LEMMA GetOrgsStep == ASSUME AccessInv, GetOrgs PROVE AccessInv'
<1>0. req.at = "orgs" /\ UNCHANGED server /\ step = "serving"
  BY Serving DEF GetOrgs, At
<1>1. /\ Shaped(req) /\ step' = "serving" /\ cfg' = cfg /\ env' = env
      /\ req.org = 1 /\ cfg.AuthProvider = "github"
      /\ Vouches(req.claims, req.said)
  BY <1>0, RequestAt DEF RequestFits
<1>2. PICK visible \in SUBSET Orgs :
        req' = [req EXCEPT !.said.groups = visible,
                           !.claims.groups = visible,
                           !.at = IF cfg.AllowedOrgs = <<>> THEN "admitted"
                                  ELSE "membership"]
  BY Zenon DEF GetOrgs
<1>3. /\ Shaped(req') /\ req'.org = 1
      /\ req'.at = IF cfg.AllowedOrgs = <<>> THEN "admitted" ELSE "membership"
      /\ req'.claims = [req.claims EXCEPT !.groups = visible]
      /\ req'.said = [req.said EXCEPT !.groups = visible]
  BY <1>1, <1>2 DEF Shaped
<1>4. Vouches(req'.claims, req'.said)
  BY <1>1, <1>3 DEF Vouches, Shaped
<1>5. /\ cfg.AllowedOrgs \in Seq(Names)
      /\ cfg.AllowedOrgs = <<>> <=> AllowList = {}
  BY Zenon, <1>0, <1>1, GitHubList
<1>6. cfg.AllowedOrgs # <<>> => 1 \in DOMAIN cfg.AllowedOrgs
  BY <1>5
<1>7. NotBefore(req, req.org)'
  BY <1>3 DEF NotBefore
<1>8. RequestFits'
  BY <1>1, <1>3, <1>4, <1>6, <1>7 DEF RequestFits, Ats
<1>9. AdminNeedsToken' /\ MembershipByProof'
  BY <1>3 DEF AdminNeedsToken, MembershipByProof
<1>10. AllowlistDecides'
  <2>1. AllowList' = AllowList
    BY <1>1 DEF AllowList
  <2> QED BY <1>3, <1>5, <2>1 DEF AllowlistDecides
<1> QED BY <1>0, <1>8, <1>9, <1>10, RequestKeeps

(* One organisation of the list is asked about. *)
LEMMA InAllowedOrgStep == ASSUME AccessInv, InAllowedOrg PROVE AccessInv'
<1> DEFINE L == cfg.AllowedOrgs
           i == req.org
<1>0. req.at = "membership" /\ UNCHANGED server /\ step = "serving"
  BY Zenon, Serving DEF InAllowedOrg, At
<1>1. /\ Shaped(req) /\ step' = "serving" /\ cfg' = cfg /\ env' = env
      /\ cfg.AuthProvider = "github" /\ i \in DOMAIN L
      /\ Vouches(req.claims, req.said)
      /\ ~req.failed => NotBefore(req, i)
  BY <1>0, RequestAt DEF RequestFits
<1>2. /\ L \in Seq(Names) /\ (L = <<>> <=> AllowList = {})
      /\ TrimSpace(L[i]) = L[i] /\ L[i].word # ""
  BY Zenon, <1>0, <1>1, GitHubList
<1>3. OnList <=> \E j \in DOMAIN L : \E a \in req.active : EqualFold(a, L[j])
  BY Zenon, <1>0, <1>1, GitHubList
<1>4. AllowList' = AllowList
  BY <1>1 DEF AllowList
<1>5. ASSUME req'.active = req.active PROVE OnList' <=> OnList
  BY <1>1, <1>4, <1>5 DEF OnList
<1>6. CASE /\ \E a \in req.active : EqualFold(a, L[i])
           /\ req' = [req EXCEPT !.at = "admitted"]
  <2>1. /\ Shaped(req') /\ req'.at = "admitted" /\ req'.active = req.active
        /\ req'.claims = req.claims /\ req'.said = req.said
    BY <1>1, <1>6 DEF Shaped
  <2>2. RequestFits'
    BY <1>1, <2>1 DEF RequestFits, Ats
  <2>3. OnList'
    BY <1>1, <1>3, <1>5, <1>6, <2>1
  <2>4. AdminNeedsToken' /\ AllowlistDecides' /\ MembershipByProof'
    BY <2>1, <2>3 DEF AdminNeedsToken, AllowlistDecides, MembershipByProof
  <2> QED BY <1>0, <2>2, <2>4, RequestKeeps
<1>7. CASE /\ Shaped(req') /\ req'.at = AskNext(i) /\ req'.org = i + 1
           /\ req'.active = req.active /\ req'.claims = req.claims
           /\ req'.said = req.said
           /\ ~req'.failed => /\ ~req.failed
                              /\ \A a \in req.active : ~EqualFold(a, L[i])
  <2>0. i \in 1..Len(L) /\ Len(L) \in Nat /\ DOMAIN L = 1..Len(L)
    <3> HIDE DEF L, i
    <3>1. L \in Seq(Names) /\ i \in DOMAIN L
      BY Zenon, <1>1, <1>2
    <3> QED BY <3>1
  <2>1. ~req'.failed =>
          \A j \in 1..i : \A a \in req.active : ~EqualFold(a, L[j])
    <3>1. \A j \in 1..i : j \in 1..(i - 1) \/ j = i
      BY <2>0
    <3> QED BY Zenon, <1>1, <1>7, <3>1 DEF NotBefore
  <2>2. \/ req'.at = "membership" /\ i + 1 \in DOMAIN L
        \/ req'.at = "unlisted" /\ i = Len(L)
    BY <1>7, <2>0 DEF AskNext
  <2>3. ~req'.failed => NotBefore(req, req.org)'
    <3>1. (i + 1) - 1 = i
      BY <2>0
    <3> QED BY <1>1, <1>7, <2>1, <3>1 DEF NotBefore
  <2>4. RequestFits'
    BY <1>1, <1>7, <2>2, <2>3 DEF RequestFits, Ats
  <2>5. req'.at = "unlisted" /\ ~req'.failed => AllowList # {} /\ ~OnList
    <3> SUFFICES ASSUME req'.at = "unlisted", ~req'.failed
                 PROVE  AllowList # {} /\ ~OnList
      OBVIOUS
    <3>1. i = Len(L)
      BY <2>2
    <3>2. \A j \in DOMAIN L : \A a \in req.active : ~EqualFold(a, L[j])
      BY Zenon, <2>0, <2>1, <3>1
    <3>3. L # <<>>
      BY <2>0, <3>1
    <3> QED BY Zenon, <1>2, <1>3, <3>2, <3>3
  <2>6. AdminNeedsToken' /\ MembershipByProof'
    BY Zenon, <2>2 DEF AdminNeedsToken, MembershipByProof
  <2>7. AllowlistDecides'
    BY <1>4, <1>5, <1>7, <2>2, <2>5 DEF AllowlistDecides
  <2> QED BY <1>0, <2>4, <2>6, <2>7, RequestKeeps
<1>8. CASE /\ L[i].word = "" \/ ~\E a \in req.active : EqualFold(a, L[i])
           /\ req' = [req EXCEPT !.at = AskNext(i), !.org = @ + 1]
  <2>1. \A a \in req.active : ~EqualFold(a, L[i])
    BY Zenon, <1>2, <1>8
  <2>2. /\ Shaped(req') /\ req'.at = AskNext(i) /\ req'.org = i + 1
        /\ req'.active = req.active /\ req'.claims = req.claims
        /\ req'.said = req.said /\ req'.failed = req.failed
    BY Zenon, <1>1, <1>8 DEF Shaped
  <2> QED BY Zenon, <1>7, <2>1, <2>2
<1>9. CASE req' = [req EXCEPT !.at = AskNext(i), !.org = @ + 1,
                              !.failed = TRUE]
  <2>1. /\ Shaped(req') /\ req'.at = AskNext(i) /\ req'.org = i + 1
        /\ req'.active = req.active /\ req'.claims = req.claims
        /\ req'.said = req.said /\ req'.failed = TRUE
    BY <1>1, <1>9 DEF Shaped
  <2> QED BY Zenon, <1>7, <2>1
<1> QED BY Zenon, <1>2, <1>6, <1>8, <1>9 DEF InAllowedOrg, EndAt

(* An ID token is read. *)
LEMMA VerifyIDTokenStep == ASSUME AccessInv, VerifyIDToken PROVE AccessInv'
<1>0. req.at = "idtoken" /\ UNCHANGED server /\ step = "serving"
  BY Serving DEF VerifyIDToken, At
<1>1. /\ Shaped(req) /\ step' = "serving" /\ cfg' = cfg /\ env' = env
      /\ cfg.AuthProvider = "oidc"
  BY <1>0, RequestAt DEF RequestFits
<1>2. PICK domain \in EmailDomains, verified \in BOOLEAN, v \in GroupClaims :
        LET person == [domain |-> domain, verified |-> verified,
                       groups |-> {v.items[i] : i \in DOMAIN v.items},
                       idp |-> Blank]
        IN  req' = [req EXCEPT !.said = person,
                      !.claims = [person EXCEPT !.groups = stringList(v)],
                      !.at = IF \/ cfg.AllowedDomains = <<>>
                                \/ domainAllowed(domain, cfg.AllowedDomains)
                             THEN "admitted" ELSE "unlisted"]
  BY Zenon DEF VerifyIDToken
<1> DEFINE items == {v.items[i] : i \in DOMAIN v.items}
           said == [domain |-> domain, verified |-> verified,
                    groups |-> items, idp |-> Blank]
           claims == [said EXCEPT !.groups = stringList(v)]
           at == IF \/ cfg.AllowedDomains = <<>>
                    \/ domainAllowed(domain, cfg.AllowedDomains)
                 THEN "admitted" ELSE "unlisted"
<1>3. stringList(v) \ {Blank} = items \ {Blank}
  <2>1. v.kind \in {"string", "list"} => stringList(v) = items \ {Blank}
    BY Zenon DEF stringList
  <2>2. v.kind \notin {"string", "list"} => stringList(v) = {}
    BY Zenon DEF stringList
  <2>3. v.kind \notin {"string", "list"} => items = {}
    BY ProviderAssumption
  <2> HIDE DEF items
  <2> QED BY <2>1, <2>2, <2>3
<1> HIDE DEF items
<1>4. /\ DOMAIN said = {"domain", "verified", "groups", "idp"}
      /\ DOMAIN claims = {"domain", "verified", "groups", "idp"}
      /\ said.domain = domain
  OBVIOUS
<1>5. Vouches(claims, said)
  BY <1>3 DEF Vouches
<1> HIDE DEF said, claims, at
<1>6. req' = [req EXCEPT !.said = said, !.claims = claims, !.at = at]
  BY Zenon, <1>2 DEF items, said, claims, at
<1>7. /\ Shaped(req') /\ req'.said = said /\ req'.claims = claims
      /\ req'.at = at
  BY <1>1, <1>4, <1>6 DEF Shaped
<1>8. at = "admitted" \/ at = "unlisted"
  BY DEF at
<1>9. RequestFits'
  BY <1>1, <1>5, <1>7, <1>8 DEF RequestFits, Ats
<1>10. AdminNeedsToken' /\ MembershipByProof'
  BY Zenon, <1>7, <1>8 DEF AdminNeedsToken, MembershipByProof
<1>11. AllowlistDecides'
  <2>1. /\ cfg.AllowedDomains = <<>> <=> AllowList = {}
        /\ domainAllowed(domain, cfg.AllowedDomains) <=>
             \E n \in AllowList : \E own \in domain : EqualFold(n, own)
    BY Zenon, <1>0, <1>1, OIDCList
  <2>2. AllowList' = AllowList
    BY <1>1 DEF AllowList
  <2>3. OnList' <=> \E n \in AllowList : \E own \in domain : EqualFold(n, own)
    BY <1>1, <1>4, <1>7, <2>2 DEF OnList
  <2>4. at = "admitted" <=> AllowList = {} \/ OnList'
    BY <2>1, <2>3 DEF at
  <2> QED BY <1>7, <1>8, <2>2, <2>4 DEF AllowlistDecides
<1> QED BY <1>0, <1>9, <1>10, <1>11, RequestKeeps

(* An access token of go-authn is read. *)
LEMMA VerifyAccessTokenStep ==
  ASSUME AccessInv, VerifyAccessToken PROVE AccessInv'
<1>0. req.at = "accesstoken" /\ UNCHANGED server /\ step = "serving"
  BY Serving DEF VerifyAccessToken, At
<1>1. /\ Shaped(req) /\ step' = "serving" /\ cfg' = cfg /\ env' = env
      /\ cfg.AuthProvider = "go-authn"
  BY <1>0, RequestAt DEF RequestFits
<1>2. PICK domain \in EmailDomains, verified \in BOOLEAN,
           groups \in SUBSET Groups, idp \in IdPs :
        LET person == [domain |-> domain, verified |-> verified,
                       groups |-> groups, idp |-> idp]
        IN  req' = [req EXCEPT !.said = person,
                      !.claims = [person EXCEPT
                                    !.domain = IF verified THEN @ ELSE {}],
                      !.at = "admitted"]
  BY Zenon DEF VerifyAccessToken
<1> DEFINE said == [domain |-> domain, verified |-> verified,
                    groups |-> groups, idp |-> idp]
           claims == [said EXCEPT !.domain = IF verified THEN @ ELSE {}]
<1>3. /\ DOMAIN said = {"domain", "verified", "groups", "idp"}
      /\ DOMAIN claims = {"domain", "verified", "groups", "idp"}
  OBVIOUS
<1>4. Vouches(claims, said)
  BY DEF Vouches
<1> HIDE DEF said, claims
<1>5. req' = [req EXCEPT !.said = said, !.claims = claims, !.at = "admitted"]
  BY Zenon, <1>2 DEF said, claims
<1>6. /\ Shaped(req') /\ req'.said = said /\ req'.claims = claims
      /\ req'.at = "admitted"
  BY <1>1, <1>3, <1>5 DEF Shaped
<1>7. RequestFits'
  BY <1>1, <1>4, <1>6 DEF RequestFits, Ats
<1>8. AllowList' = {}
  BY <1>1 DEF AllowList
<1>9. AdminNeedsToken' /\ MembershipByProof' /\ AllowlistDecides'
  BY <1>6, <1>8 DEF AdminNeedsToken, MembershipByProof, AllowlistDecides
<1> QED BY <1>0, <1>7, <1>9, RequestKeeps

(* A tenant's lists are compared with the claims. *)
LEMMA MatchTenantStep == ASSUME AccessInv, MatchTenant PROVE AccessInv'
<1>0. req.at = "admitted" /\ UNCHANGED server /\ step = "serving"
  BY Serving DEF MatchTenant, At
<1>1. /\ Shaped(req) /\ step' = "serving" /\ cfg' = cfg /\ env' = env
      /\ Vouches(req.claims, req.said)
  BY <1>0, RequestAt DEF RequestFits
<1>2. PICK rule \in Rules :
        req' = [req EXCEPT !.at = "matched", !.rule = rule,
                           !.member = has(rule, req.claims)]
  BY Zenon DEF MatchTenant
<1>3. /\ Shaped(req') /\ req'.at = "matched" /\ req'.rule = rule
      /\ req'.member = has(rule, req.claims)
      /\ req'.said = req.said /\ req'.active = req.active
  BY <1>1, <1>2 DEF Shaped
<1>4. RequestFits'
  BY <1>1, <1>3 DEF RequestFits, Ats
<1>5. AllowList' = AllowList /\ (OnList' <=> OnList)
  BY <1>1, <1>3 DEF AllowList, OnList
<1>6. AllowList = {} \/ OnList
  BY <1>0 DEF AccessInv, AllowlistDecides
<1>7. AllowlistDecides' /\ AdminNeedsToken'
  BY <1>3, <1>5, <1>6 DEF AllowlistDecides, AdminNeedsToken
<1>8. has(rule, req.claims) <=> Proven'
  <2> DEFINE c == req.claims
             s == req.said
  <2>1. \A g \in rule.groups : g \in Names
    BY ProviderAssumption
  <2>2. \A g \in rule.groups :
          TrimSpace(g).word # "" /\ TrimSpace(g) \in c.groups
            <=> TrimSpace(g) \in s.groups \ {Blank}
    <3>1. \A g \in rule.groups :
            TrimSpace(g).word = "" <=> TrimSpace(g) = Blank
      BY Zenon, <2>1, Trimmed
    <3>2. \A x : x \in c.groups /\ x # Blank <=> x \in s.groups \ {Blank}
      BY <1>1 DEF Vouches
    <3> QED BY Zenon, <3>1, <3>2
  <2>3. \A i : c.idp # Blank /\ i = c.idp <=> i \in {s.idp} \ {Blank}
    BY <1>1 DEF Vouches
  <2>4. /\ c.verified <=> s.verified
        /\ s.verified => c.domain = s.domain
    BY <1>1 DEF Vouches
  <2>5. Proven' <=>
          \/ /\ s.verified
             /\ \E d \in rule.domains, own \in s.domain :
                  EqualFold(TrimSpace(d), own)
          \/ \E g \in rule.groups : TrimSpace(g) \in s.groups \ {Blank}
          \/ \E i \in rule.idps : TrimSpace(i) \in {s.idp} \ {Blank}
    BY Zenon, <1>3 DEF Proven
  <2> HIDE DEF c, s
  <2>6. has(rule, c) <=>
          \/ /\ s.verified
             /\ \E d \in rule.domains, own \in s.domain :
                  EqualFold(TrimSpace(d), own)
          \/ \E g \in rule.groups : TrimSpace(g) \in s.groups \ {Blank}
          \/ \E i \in rule.idps : TrimSpace(i) \in {s.idp} \ {Blank}
    BY Zenon, <2>2, <2>3, <2>4 DEF has
  <2> QED BY Zenon, <2>5, <2>6 DEF c
<1>9. MembershipByProof'
  BY Zenon, <1>3, <1>8 DEF MembershipByProof
<1> QED BY <1>0, <1>4, <1>7, <1>9, RequestKeeps

-----------------------------------------------------------------------------
(* What Access promises. *)

(* Every step keeps the invariant. *)
LEMMA AccessStep == ASSUME AccessInv, [Next]_vars PROVE AccessInv'
<1>1. CASE Run
  BY <1>1, RunStep
<1>2. CASE CallFails \/ InvalidToken
  <2>1. /\ req.at \in {"user", "orgs", "idtoken", "accesstoken"}
        /\ UNCHANGED server /\ req' = [req EXCEPT !.at = "refused"]
    BY <1>2 DEF CallFails, InvalidToken, At, EndAt
  <2>2. step = "serving"
    BY <2>1, Serving
  <2> QED BY <2>1, <2>2, RefusedStep
<1>3. CASE GetUser \/ GetOrgs \/ InAllowedOrg
  BY <1>3, GetUserStep, GetOrgsStep, InAllowedOrgStep
<1>4. CASE VerifyIDToken \/ VerifyAccessToken \/ MatchTenant
  BY <1>4, VerifyIDTokenStep, VerifyAccessTokenStep, MatchTenantStep
<1>5. ASSUME NEW h \in Headers, Administer(h) \/ Authenticate(h)
      PROVE  AccessInv'
  BY <1>5, AdministerStep, AuthenticateStep
<1>6. CASE UNCHANGED vars
  <2>1. UNCHANGED server /\ req' = req /\ UNCHANGED <<env, cfg, step>>
    BY <1>6 DEF vars, server, surfaces
  <2>2. RequestFits'
    BY <2>1 DEF AccessInv, RequestFits, NotBefore
  <2>3. AdminNeedsToken' /\ AllowlistDecides' /\ MembershipByProof'
    BY Zenon, <2>1
       DEF AccessInv, AdminNeedsToken, AllowlistDecides, AllowList, OnList,
           MembershipByProof, Proven
  <2> QED BY <2>1, <2>2, <2>3, RequestKeeps
<1> QED BY <1>1, <1>2, <1>3, <1>4, <1>5, <1>6 DEF Next, Verify

(* The invariant holds, in every environment. *)
LEMMA AccessHolds == Spec => []AccessInv
BY AccessStarts, AccessStep, PTL DEF Spec

(* Types, in particular that inAllowedOrg's loop asks about organisations  *)
(* of the list and nothing past its end (TypeOK).                          *)
THEOREM AccessTypeCorrect == Spec => []TypeOK
<1>1. AccessInv => TypeOK
  BY DEF AccessInv, SurfacesFit, RequestFits, TypeOK
<1> QED BY <1>1, AccessHolds, PTL

(* Whatever durations an operator sets, and whether they parse or not, no  *)
(* goroutine of the server panics in time.NewTicker (TickersPositive).     *)
THEOREM NoTickerPanics == Spec => []TickersPositive
<1>1. AccessInv => TickersPositive
  BY DEF AccessInv, SurfacesFit
<1> QED BY <1>1, AccessHolds, PTL

(* With go-authn no listener opens before run has read the first key list, *)
(* and without it none waits for one (ReadsListFirst).                     *)
THEOREM FirstListBeforeListening == Spec => []ReadsListFirst
<1>1. ASSUME AccessInv PROVE ReadsListFirst
  <2> SUFFICES ASSUME {http, grpc} # {"closed"}
               PROVE  registry = "list" <=> env.AUTH_PROVIDER = "go-authn"
    BY DEF ReadsListFirst
  <2>1. step \in {"http", "serving"}
    <3>1. http # "closed" \/ grpc # "closed"
      OBVIOUS
    <3> QED BY Zenon, <1>1, <3>1 DEF AccessInv, SurfacesFit
  <2>2. cfg.AuthProvider = Provider(env)
    <3>1. cfg = Load(env)
      BY <1>1, <2>1 DEF AccessInv, Configured
    <3> QED BY Zenon, <3>1 DEF Load
  <2>3. Provider(env) = "go-authn" <=> env.AUTH_PROVIDER = "go-authn"
    BY Zenon DEF Provider, EnvOr
  <2> QED BY <1>1, <2>1, <2>2, <2>3 DEF AccessInv, SurfacesFit, Listens
<1> QED BY <1>1, AccessHolds, PTL

(* However TLS_CERT and TLS_KEY are set, a serving process has TLS on both *)
(* of its listeners or on neither (ListenersAgree).                        *)
THEOREM ListenersAlwaysAgree == Spec => []ListenersAgree
<1>1. AccessInv => ListenersAgree
  BY DEF AccessInv, SurfacesFit, ListenersAgree
<1> QED BY <1>1, AccessHolds, PTL

(* Nobody gets past the admin API's guard without the token the operator   *)
(* set, and nobody at all if none is set (AdminNeedsToken).                *)
THEOREM AdminAlwaysNeedsToken == Spec => []AdminNeedsToken
<1>1. AccessInv => AdminNeedsToken
  BY DEF AccessInv
<1> QED BY <1>1, AccessHolds, PTL

(* For allowlists of any length, with blanks, spaces and capitals anywhere *)
(* in them, the verifiers admit and turn away exactly as the list says,    *)
(* calls to GitHub that fail apart (AllowlistDecides).                     *)
THEOREM AllowlistAloneDecides == Spec => []AllowlistDecides
<1>1. AccessInv => AllowlistDecides
  BY DEF AccessInv
<1> QED BY <1>1, AccessHolds, PTL

(* With each of the verifiers, has finds a person in a tenant exactly if   *)
(* what the identity provider said proves it (MembershipByProof).          *)
THEOREM MembershipIsProof == Spec => []MembershipByProof
<1>1. AccessInv => MembershipByProof
  BY DEF AccessInv
<1> QED BY <1>1, AccessHolds, PTL
=============================================================================
