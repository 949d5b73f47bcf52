------------------------------- MODULE SignIn -------------------------------
(***************************************************************************)
(* Signing in: from the page through the provider's resolvers, the catalog *)
(* and the ownership of groups to the token, and to the list of licensed   *)
(* users that the token's record feeds. Every request to the catalog is an *)
(* await, during which users come and go and groups change.                *)
(***************************************************************************)
EXTENDS AuthProviders, GroupOwnership, LicensedUsers

CONSTANTS
  Profiles,     \* what each provider says of the users it has authenticated
  None          \* a claim or a field that is not there

(* A profile has the claims of the user info, those of the ID token (none  *)
(* of them when there is no token) and the headers of a proxy.             *)
ASSUME ProfilesAssumption ==
  \A id \in DOMAIN Profiles : \A p \in Profiles[id] : DOMAIN p = {"userInfo", "idToken", "headers"}

VARIABLES
  phase,      \* "off", "page", "resolving", "looking", "owning", then how it ended:
              \* "signedIn", "guest", "refused", "noPage"
  chain,      \* the resolvers of this sign-in
  tried,      \* how many of them were
  profile,    \* what the identity provider said
  found,      \* the user the lookup returned, as a set: empty without an entity
  signedAs,   \* the ref in the token
  fault,      \* history: a request of this sign-in failed
  stopped,    \* history: a declared chain was left at an error
  ever0, always0  \* history: the users in the catalog during this sign-in

sessionVars == <<phase, chain, tried, profile, found, signedAs, fault, stopped, ever0, always0>>
groupVars == <<transitive, memberOf, catalog, pc, stack, processedGroups, current, answer,
               always, ever>>
allVars == <<authVars, groupVars, licensedVars, sessionVars>>

Resolving == {"resolving", "looking", "owning"}

NoProfile == [userInfo |-> <<>>, idToken |-> <<>>, headers |-> <<>>]

(* No one reads the groups between two resolutions; each starts from any.  *)
Unread == CHOOSE c \in Catalogs : TRUE

SignInInit ==
  /\ AuthInit /\ Init /\ LicensedInit
  /\ transitive = config.transitive /\ memberOf = {} /\ catalog = Unread
  /\ expiry = config.expiry /\ inMemory = config.inMemory
  /\ phase = "off" /\ chain = <<>> /\ tried = 0 /\ profile = NoProfile
  /\ found = {} /\ signedAs = None
  /\ fault = FALSE /\ stopped = FALSE
  /\ ever0 = people /\ always0 = people

-----------------------------------------------------------------------------
(* The page.                                                               *)

(* The page reads the environment without a default: it throws when there  *)
(* is none, where the backend takes development.                           *)
OpenPage ==
  /\ phase \notin Resolving \cup {"page"} /\ TimePasses
  /\ phase' = IF config.environment = Unset THEN "noPage" ELSE "page"
  /\ chain' = <<>> /\ tried' = 0 /\ profile' = NoProfile
  /\ found' = {} /\ signedAs' = None
  /\ fault' = FALSE /\ stopped' = FALSE
  /\ ever0' = people /\ always0' = people
  /\ UNCHANGED <<authVars, groupVars>>

EnterAsGuest ==
  /\ phase = "page" /\ OffersGuest
  /\ phase' = "guest"
  /\ UNCHANGED <<authVars, groupVars, licensedVars, chain, tried, profile, found,
                 signedAs, fault, stopped, ever0, always0>>

(* The user authenticates with the page's provider; without the provider,  *)
(* or a resolver for it, the backend signs no one in.                      *)
Authenticate ==
  /\ phase = "page"
  /\ profile' \in Profiles[PageProvider]
  /\ chain' = IF backend = "up" /\ PageProvider \in DOMAIN factories
              THEN Chain(PageProvider) ELSE <<>>
  /\ phase' = IF chain' = <<>> THEN "refused" ELSE "resolving"
  /\ fault' = (backend # "up")
  /\ UNCHANGED <<authVars, groupVars, licensedVars, tried, found, signedAs, stopped,
                 ever0, always0>>

-----------------------------------------------------------------------------
(* One resolver.                                                           *)

Attempt == chain[tried + 1]

ClaimOf(claims, claim) == IF claim \in DOMAIN claims THEN claims[claim] ELSE None

(* The header of the proxy's user: the one OAUTH_USER_HEADER names, or     *)
(* else the preferred username and then the user.                          *)
HeaderName(headers) ==
  IF ClaimOf(headers, "OAUTH_USER_HEADER") # None THEN ClaimOf(headers, "custom")
  ELSE IF ClaimOf(headers, "x-forwarded-preferred-username") # None
       THEN headers["x-forwarded-preferred-username"]
       ELSE ClaimOf(headers, "x-forwarded-user")

ValueFor(r, p) ==
  IF r.claim = "header" THEN HeaderName(p.headers) ELSE ClaimOf(p.userInfo, r.claim)

\* Mutant: the claim need not be the token's.
VerifiedUnchecked(r, p) == ValueFor(r, p) # None

(* The checks at the head of a resolver: there is a value, and the token   *)
(* has the same where the resolver looks at it.                            *)
Verified(r, p) ==
  /\ ValueFor(r, p) # None
  /\ r.checked => ClaimOf(p.idToken, r.claim) = ValueFor(r, p)

(* What a lookup finds: by name in the default namespace, or by the value  *)
(* of an annotation or an email.                                           *)
Matching(r, p, users) ==
  LET v == ValueFor(r, p)
  IN {u \in users :
        IF r.by = "name" THEN UserRef(u) = <<"default", LowerCase[v]>>
        ELSE ClaimOf(u, r.by) = v}

Idle ==
  /\ pc' = "start" /\ stack' = <<>> /\ processedGroups' = {} /\ answer' = {}
  /\ current' = User /\ memberOf' = {}
  /\ catalog' = Unread /\ always' = Edges(Unread) /\ ever' = Edges(Unread)
  /\ UNCHANGED transitive

\* Mutant: the first error is the last.
ThrowsStops(notFound, failed) ==
  /\ phase' = "refused" /\ UNCHANGED tried
  /\ stopped' = stopped
  /\ found' = {}
  /\ fault' = (fault \/ failed)
  /\ UNCHANGED <<chain, profile, signedAs, ever0, always0>>

(* A resolver throws. trySignInResolvers goes on with the next whatever    *)
(* the error; a chain that was declared goes on when the user was not      *)
(* found, and ends the sign-in otherwise.                                  *)
Throws(notFound, failed) ==
  LET declared == PageProvider \in DOMAIN config.declared
      more == tried + 1 < Len(chain) /\ (declared => notFound)
  IN /\ phase' = IF more THEN "resolving" ELSE "refused"
     /\ tried' = IF more THEN tried + 1 ELSE tried
     /\ stopped' = (stopped \/ (declared /\ ~notFound))
     /\ found' = {}
     /\ fault' = (fault \/ failed)
     /\ UNCHANGED <<chain, profile, signedAs, ever0, always0>>

RejectClaim ==
  /\ phase = "resolving" /\ ~Verified(Attempt.resolver, profile)
  /\ Throws(FALSE, FALSE)
  /\ UNCHANGED <<authVars, groupVars, licensedVars>>

RequestUser ==
  /\ phase = "resolving" /\ Verified(Attempt.resolver, profile)
  /\ phase' = "looking"
  /\ UNCHANGED <<authVars, groupVars, licensedVars, chain, tried, profile, found,
                 signedAs, fault, stopped, ever0, always0>>

(* signInWithCatalogUser: the one user, whose groups are asked for; none,  *)
(* and no leave to sign in without; or several, a conflict.                *)
UserFound ==
  /\ phase = "looking"
  /\ \E u \in Matching(Attempt.resolver, profile, people) :
       /\ Matching(Attempt.resolver, profile, people) = {u}
       /\ found' = {u}
       /\ memberOf' \in Relations
  /\ phase' = "owning"
  /\ catalog' \in (IF transitive THEN Catalogs ELSE {Unread})
  /\ always' = Edges(catalog') /\ ever' = Edges(catalog')
  /\ UNCHANGED <<authVars, licensedVars, transitive, pc, stack, processedGroups, current,
                 answer, chain, tried, profile, signedAs, fault, stopped, ever0, always0>>

UserNotFound ==
  /\ phase = "looking" /\ Matching(Attempt.resolver, profile, people) = {}
  /\ ~Attempt.allowed
  /\ Throws(TRUE, FALSE)
  /\ UNCHANGED <<authVars, groupVars, licensedVars>>

UserAmbiguous ==
  /\ phase = "looking" /\ Cardinality(Matching(Attempt.resolver, profile, people)) > 1
  /\ Throws(FALSE, FALSE)
  /\ UNCHANGED <<authVars, groupVars, licensedVars>>

RequestFails ==
  /\ phase = "looking"
  /\ Throws(FALSE, TRUE)
  /\ UNCHANGED <<authVars, groupVars, licensedVars>>

(* The token is issued and the user recorded.                              *)
Issue(ref) ==
  /\ phase' = "signedIn"
  /\ signedAs' = ref
  /\ Recorded(ref)
  /\ UNCHANGED <<people, now, refreshes, expiry, inMemory, tokenExpiration, request, rows, peopleEver,
                 peopleAlways, chain, tried, profile, found, fault, stopped, ever0, always0>>

(* dangerouslyAllowSignInWithoutUserInCatalog *)
SignInWithoutUser ==
  /\ phase = "looking" /\ Matching(Attempt.resolver, profile, people) = {} /\ Attempt.allowed
  /\ Issue(<<"default", LowerCase[ValueFor(Attempt.resolver, profile)]>>)
  /\ UNCHANGED <<authVars, groupVars>>

ResolveOwnership ==
  /\ phase = "owning" /\ Resolve
  /\ UNCHANGED <<authVars, licensedVars, sessionVars>>

ChangeGroups ==
  /\ phase = "owning" /\ transitive /\ ChangeCatalog
  /\ UNCHANGED <<authVars, licensedVars, sessionVars>>

OwnershipRejected ==
  /\ phase = "owning" /\ pc = "rejected"
  /\ Throws(FALSE, TRUE) /\ Idle
  /\ UNCHANGED <<authVars, licensedVars>>

IssueToken ==
  /\ phase = "owning" /\ pc = "answered"
  /\ \E u \in found : Issue(UserRef(u))
  /\ Idle
  /\ UNCHANGED <<authVars>>

-----------------------------------------------------------------------------
(* Everything else. None of it reads or writes what the resolution of      *)
(* groups works on, so it is taken before that or after it, not amid it:   *)
(* the order of two steps that commute makes no difference.                *)
Apart == pc = "start"

(* The user provider refreshes the catalog.                                *)
RefreshUsers ==
  /\ Apart
  /\ phase \in Resolving \/ request = "joining"  \* at other times no one looks
  /\ ChangePeople
  /\ ever0' = ever0 \cup people' /\ always0' = always0 \cap people'
  /\ UNCHANGED <<authVars, groupVars, phase, chain, tried, profile, found, signedAs,
                 fault, stopped>>

StartBackend ==
  /\ RegisterProviders \/ CreateProviderRouters
  /\ UNCHANGED <<groupVars, licensedVars, sessionVars>>

(* The backend goes down, with what the sign-in has reached, and comes up  *)
(* again; the expiry of tokens may be another then.                        *)
Restart ==
  /\ Apart /\ backend = "up"
  /\ backend' = "starting" /\ factories' = [id \in {} |-> {}] /\ ownership' = FALSE
  /\ config' = config
  /\ RestartRouter
  /\ IF phase \in Resolving
     THEN phase' = "refused" /\ fault' = TRUE /\ found' = {}
          /\ UNCHANGED <<chain, tried, profile, signedAs, stopped, ever0, always0>>
     ELSE UNCHANGED sessionVars
  /\ IF phase = "owning" THEN Idle ELSE UNCHANGED groupVars

Licensed ==
  /\ Apart /\ backend = "up" /\ LicensedNext
  /\ UNCHANGED <<authVars, groupVars, sessionVars>>

(* What the event loop, the catalog and the identity provider get done.    *)
SignInStep ==
  \/ RejectClaim \/ RequestUser
  \/ UserFound \/ UserNotFound \/ UserAmbiguous \/ RequestFails \/ SignInWithoutUser
  \/ ResolveOwnership \/ OwnershipRejected \/ IssueToken

SignInNext ==
  \/ OpenPage \/ EnterAsGuest \/ Authenticate
  \/ SignInStep \/ ChangeGroups
  \/ RefreshUsers \/ StartBackend \/ Restart \/ Licensed

SignInSpec == SignInInit /\ [][SignInNext]_allVars /\ WF_allVars(SignInStep)

-----------------------------------------------------------------------------
\* The resolvers a provider has, by default or to be declared.
ResolversOf(id) == ResolverFactories(id) \cup ToSet(DefaultResolvers(id))

(* The sign-in page and the auth module agree on who decides: whenever a   *)
(* sign-in is under way, or through, every configured provider was known,  *)
(* the page's is among them with its identity resolution not disabled, and *)
(* the chain has resolvers of this provider only; it goes on only in a     *)
(* backend that is up, has the resolver of the ownership and would choose  *)
(* the same chain.                                                         *)
SessionOK ==
  /\ TypeOK /\ LicensedTypeOK
  /\ phase \in Resolving \cup {"off", "page", "signedIn", "guest", "refused", "noPage"}
  /\ phase # "owning" => pc = "start"
  /\ phase = "owning" <=> found # {} /\ phase # "signedIn"
  /\ always0 \subseteq people /\ people \subseteq ever0
  /\ phase \in Resolving \cup {"signedIn"} =>
       /\ config.providers \ {"guest"} \subseteq OAuthProviders \cup ProxyProviders
       /\ PageProvider \in config.providers
       /\ <<PageProvider, Environment>> \notin config.disabled
       /\ tried < Len(chain)
       /\ \A i \in 1 .. Len(chain) : chain[i].resolver \in ResolversOf(PageProvider)
  /\ phase \in Resolving => backend = "up" /\ ownership /\ chain = Chain(PageProvider)

(* A resolver that would sign a user in: its claim is in order, and the    *)
(* catalog had the same one user for it all the time.                      *)
Works(i) ==
  LET matches == Matching(chain[i].resolver, profile, ever0)
  IN /\ Verified(chain[i].resolver, profile)
     /\ matches \subseteq always0 /\ Cardinality(matches) = 1

(* Whoever is signed in is who the identity provider says: through a       *)
(* resolver of the chain, as a user the catalog had for its claim, with    *)
(* Keycloak's and LDAP's claims the same in profile and ID token. And it   *)
(* is the first resolver that works which decides: falling through to a    *)
(* later one, every error being 'try the next', takes a failed request.    *)
RightUser ==
  phase = "signedIn" =>
    LET by == chain[tried + 1].resolver
        users == {UserRef(u) : u \in Matching(by, profile, ever0)}
    IN /\ signedAs \in users \/ chain[tried + 1].allowed
       /\ by.claim \in {"sub", "ldap_uuid"} =>
            ClaimOf(profile.idToken, by.claim) = ClaimOf(profile.userInfo, by.claim)
       /\ fault \/ \A i \in 1 .. tried : ~Works(i)

(* A user is refused for a reason: a request that failed, a configuration  *)
(* that leaves the page's provider without a resolver, a declared chain    *)
(* left at an error, or no resolver that works. Guests have no page.       *)
RefusedWithReason ==
  LET named == IF config.signInPage \in {Unset, "guest"} THEN "github" ELSE config.signInPage
  IN phase = "refused" =>
    \/ fault \/ stopped
    \/ chain = <<>> /\ \/ named \notin config.providers
                       \/ <<named, Environment>> \in config.disabled
    \/ chain # <<>> /\ \A i \in 1 .. Len(chain) : ~Works(i)

(* Every sign-in that was started ends, while users and groups change.     *)
SessionEnds == phase \in Resolving ~> phase \notin Resolving
=============================================================================
