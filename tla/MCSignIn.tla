------------------------------ MODULE MCSignIn ------------------------------
(* Keycloak and LDAP ids that agree and that do not, a namesake in another *)
(* namespace with an id twice, a proxy, providers that are disabled, not   *)
(* configured or not known; groups in cycles and with two parents, and a    *)
(* catalog that has lost one.                                              *)
EXTENDS SignIn, TLC

MCRefs == {"dev", "ops", "org", "api"}

MCRelations == {{}, {"dev"}, {"dev", "ops", "api"}}

MCCatalogs == {
  ("dev" :> {"ops"}) @@ ("ops" :> {"org"}) @@ ("org" :> {"dev"}),
  ("dev" :> {"ops", "org"}) @@ ("ops" :> {"org"}) @@ ("org" :> {"org"}),
  ("dev" :> {"org", "api"}) @@ ("org" :> {"ops"}) }

Ann == [namespace |-> "default", name |-> "Ann", keycloak |-> "k1", ldap |-> "l1"]
Bob == [namespace |-> "default", name |-> "bob", keycloak |-> "k2", ldap |-> "l2"]
TeamAnn == [namespace |-> "team", name |-> "ann", keycloak |-> "k1"]

MCPeople == {Ann, Bob, TeamAnn}

MCCrowds == {{Ann, Bob}, MCPeople}

MCLowerCase == ("Ann" :> "ann") @@ ("ann" :> "ann") @@ ("bob" :> "bob") @@ ("carol" :> "carol")

Claims(sub, uuid) == ("sub" :> sub) @@ ("ldap_uuid" :> uuid)

Oidc(said, token) == [userInfo |-> said, idToken |-> token, headers |-> <<>>]

MCProfiles == [id \in PopupPages \cup ProxiedPages |->
  CASE id = "oidc" ->
         {Oidc(Claims("k1", "l1"), Claims("k1", "l1")),
          Oidc(Claims("k1", "l2"), Claims("k1", "l2")),
          Oidc(Claims("k1", "l2"), Claims("k2", "l2")),
          Oidc(("preferred_username" :> "carol") @@ ("sub" :> "k1"), <<>>),
          Oidc(("preferred_username" :> "carol") @@ ("sub" :> "k3"), "sub" :> "k3")}
    [] id = "oauth2Proxy" -> {[Oidc(<<>>, <<>>) EXCEPT !.headers = "x-forwarded-user" :> "Ann"]}
    [] OTHER -> {Oidc("username" :> "bob", <<>>)}]

NoDeclared == [id \in {} |-> {}]

Config(environment, page, providers, disabled, declared) ==
  [environment |-> environment, signInPage |-> page, providers |-> providers,
   disabled |-> disabled, declared |-> declared,
   transitive |-> FALSE, expiry |-> 10, inMemory |-> FALSE]

Declared(resolver, allowed) == [resolver |-> resolver, allowed |-> allowed]

DefaultChain == Config("production", "oidc", {"oidc"}, {}, NoDeclared)

MCAuthConfigs == {
  DefaultChain,
  [DefaultChain EXCEPT !.transitive = TRUE, !.inMemory = TRUE],
  Config("production", "oidc", {"oidc", "guest"}, {},
         "oidc" :> <<Declared(OidcSubClaimMatchingKeycloakUserId, FALSE),
                     Declared(PreferredUsernameMatchingUserEntityName, TRUE)>>),
  Config("development", "none", {"github"}, {}, NoDeclared),
  Config("development", "guest", {"guest"}, {}, NoDeclared),
  Config("development", "github", {"github"}, {<<"github", "development">>}, NoDeclared),
  Config("production", "oauth2Proxy", {"oauth2Proxy", "github"}, {}, NoDeclared),
  Config("none", "github", {"github"}, {}, NoDeclared),
  Config("production", "saml", {"saml", "github"}, {}, NoDeclared),
  Config("production", "oauth2Proxy", {"oauth2Proxy"}, {},
         "oauth2Proxy" :> <<Declared(OAuth2ProxyUserHeaderMatchingUserEntityName, FALSE)>>) }
=============================================================================
