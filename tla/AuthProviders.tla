---------------------------- MODULE AuthProviders ----------------------------
(***************************************************************************)
(* Which ways to sign in there are: the sign-in page of packages/app picks *)
(* one provider, the auth module of packages/backend registers the         *)
(* configured ones with their sign-in resolvers. Both read one             *)
(* configuration, each with tables and defaults of its own.                *)
(***************************************************************************)
EXTENDS Naturals, Sequences, FiniteSets, SequencesExt

CONSTANTS
  AuthConfigs,   \* the configurations, see below
  Unset          \* a key the configuration does not have

(* providers: the keys of auth.providers; disabled: the <<provider,        *)
(* environment>> pairs with disableIdentityResolution; declared: a         *)
(* provider's signIn.resolvers, each a resolver and whether it may sign in *)
(* without a user in the catalog. An empty list counts as none.            *)
ASSUME AuthConfigsAssumption ==
  \A c \in AuthConfigs :
    /\ DOMAIN c = {"environment", "signInPage", "providers", "disabled", "declared",
                   "transitive", "expiry", "inMemory"}
    /\ DOMAIN c.declared \subseteq c.providers
    /\ \A id \in DOMAIN c.declared :
         /\ c.declared[id] \in Seq(ToSet(c.declared[id])) \ {<<>>}
         /\ \A d \in ToSet(c.declared[id]) : {"resolver", "allowed"} \subseteq DOMAIN d

VARIABLES
  config,     \* the configuration in force
  backend,    \* "starting", "registered", "up", "failed"
  factories,  \* what registerProvider was given: provider -> factory
  ownership   \* whether the transitive resolver answers for the ownership

authVars == <<config, backend, factories, ownership>>

OAuthProviders == {"atlassian", "auth0", "bitbucket", "bitbucketServer", "github", "gitlab",
                   "google", "oidc", "okta", "onelogin", "microsoft"}

ProxyProviders == {"azure-easyauth", "cfaccess", "gcp-iap", "oauth2Proxy"}

-----------------------------------------------------------------------------
(* Sign-in resolvers: the claim of the profile they take, whether the ID   *)
(* token has to carry the same, and the field of the user entity that has  *)
(* to have this value.                                                     *)
Resolver(claim, checked, by) == [claim |-> claim, checked |-> checked, by |-> by]

UsernameMatchingUserEntityName == Resolver("username", FALSE, "name")
EmailMatchingUserEntityProfileEmail == Resolver("email", FALSE, "email")
EmailLocalPartMatchingUserEntityName == Resolver("localPart", FALSE, "name")
IdMatchingUserEntityAnnotation == Resolver("id", FALSE, "annotation")
ForwardedUserMatchingUserEntityName == Resolver("forwardedUser", FALSE, "name")

PreferredUsernameMatchingUserEntityName == Resolver("preferred_username", FALSE, "name")
OAuth2ProxyUserHeaderMatchingUserEntityName == Resolver("header", FALSE, "name")

CreateOidcSubClaimResolver(key) == Resolver("sub", TRUE, key)
OidcSubClaimMatchingKeycloakUserId == CreateOidcSubClaimResolver("keycloak")
OidcSubClaimMatchingPingIdentityUserId == CreateOidcSubClaimResolver("ping")
OidcLdapUuidMatchingAnnotation == Resolver("ldap_uuid", TRUE, "ldap")

CommonSignInResolvers ==
  {EmailMatchingUserEntityProfileEmail, EmailLocalPartMatchingUserEntityName}

(* The signInResolver of each factory.                                     *)
DefaultResolvers(id) ==
  CASE id = "oidc" -> <<OidcSubClaimMatchingKeycloakUserId, OidcLdapUuidMatchingAnnotation>>
    [] id = "oauth2Proxy" -> <<OAuth2ProxyUserHeaderMatchingUserEntityName>>
    [] id \in {"atlassian", "github", "gitlab", "onelogin"} -> <<UsernameMatchingUserEntityName>>
    [] id \in {"auth0", "bitbucketServer", "cfaccess"} -> <<EmailMatchingUserEntityProfileEmail>>
    [] id = "google" -> <<EmailLocalPartMatchingUserEntityName>>
    [] OTHER -> <<IdMatchingUserEntityAnnotation>>

(* Its signInResolverFactories: what a configuration may name. Those of    *)
(* oauth2Proxy do not have its own default.                                *)
ResolverFactories(id) ==
  CommonSignInResolvers \cup
    CASE id = "oidc" -> {PreferredUsernameMatchingUserEntityName,
                         OidcSubClaimMatchingKeycloakUserId,
                         OidcSubClaimMatchingPingIdentityUserId,
                         OidcLdapUuidMatchingAnnotation}
      [] id = "oauth2Proxy" -> {ForwardedUserMatchingUserEntityName}
      [] id \in {"auth0", "google"} -> {}
      [] OTHER -> {DefaultResolvers(id)[1]}

\* Mutant: disableIdentityResolution leaves the default resolver.
GetAuthProviderFactoryDefault(id, disableIdentityResolution) ==
  [signInResolver |-> DefaultResolvers(id),
   signInResolverFactories |-> IF disableIdentityResolution THEN {} ELSE ResolverFactories(id)]

GetAuthProviderFactory(id, disableIdentityResolution) ==
  [signInResolver |-> IF disableIdentityResolution THEN <<>> ELSE DefaultResolvers(id),
   signInResolverFactories |-> IF disableIdentityResolution THEN {} ELSE ResolverFactories(id)]

-----------------------------------------------------------------------------
AuthInit ==
  /\ config \in AuthConfigs
  /\ backend = "starting"
  /\ factories = [id \in {} |-> {}]
  /\ ownership = FALSE

Environment == IF config.environment = Unset THEN "development" ELSE config.environment

(* init of the auth module: a provider it does not know throws before the  *)
(* ownership resolver or any provider is registered.                       *)
RegisterProviders ==
  LET wanted == config.providers \ {"guest"}
  IN /\ backend = "starting"
     /\ IF wanted \subseteq OAuthProviders \cup ProxyProviders
        THEN /\ factories' = [id \in wanted |->
                   GetAuthProviderFactory(id, <<id, Environment>> \in config.disabled)]
             /\ ownership' = TRUE
             /\ backend' = "registered"
        ELSE /\ backend' = "failed"
             /\ UNCHANGED <<factories, ownership>>
     /\ UNCHANGED config

(* The auth plugin makes the providers' routers: a resolver that is        *)
(* declared and not among the factories ends the backend.                  *)
CreateProviderRouters ==
  /\ backend = "registered"
  /\ backend' = IF \A id \in DOMAIN factories \cap DOMAIN config.declared :
                     \A i \in 1 .. Len(config.declared[id]) :
                       config.declared[id][i].resolver \in factories[id].signInResolverFactories
                THEN "up" ELSE "failed"
  /\ UNCHANGED <<config, factories, ownership>>

(* The resolvers of a sign-in with this provider: the declared ones, or    *)
(* the default, which allows no one who is not in the catalog.             *)
Chain(id) ==
  IF id \in DOMAIN config.declared THEN config.declared[id]
  ELSE [i \in 1 .. Len(factories[id].signInResolver) |->
          [resolver |-> factories[id].signInResolver[i], allowed |-> FALSE]]

-----------------------------------------------------------------------------
(* The sign-in page.                                                       *)

PopupPages == {"auth0", "atlassian", "microsoft", "bitbucket", "bitbucketServer", "github",
               "gitlab", "google", "oidc", "okta", "onelogin", "saml"}

ProxiedPages == {"azure-easyauth", "cfaccess", "gcp-iap", "oauth2Proxy"}

ASSUME UnsetAssumption == Unset \notin PopupPages \cup ProxiedPages

DefaultProvider == "github"

(* The page's provider: one it does not know is taken for the default.     *)
PageProvider ==
  IF config.signInPage \in PopupPages \cup ProxiedPages THEN config.signInPage
  ELSE DefaultProvider

OffersGuest == PageProvider \in PopupPages /\ config.environment = "development"
=============================================================================
