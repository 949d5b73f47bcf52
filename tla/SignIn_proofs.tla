---------------------------- MODULE SignIn_proofs ----------------------------
(***************************************************************************)
(* Who is signed in, who is refused and who is listed, for every           *)
(* configuration, chain of resolvers, profile and catalog, whatever        *)
(* happens between two awaits.                                             *)
(***************************************************************************)
EXTENDS SignIn, GroupOwnership_proofs

-----------------------------------------------------------------------------
(* The configuration and what the backend has made of it.                  *)

\* A resolver for the ids of Keycloak or LDAP compares them with the token's.
Sound(r) == r.claim \in {"sub", "ldap_uuid"} => r.checked

KnownProviders == OAuthProviders \cup ProxyProviders

BackendOK ==
  /\ config \in AuthConfigs /\ config.transitive \in BOOLEAN
  /\ backend \in {"starting", "registered", "up", "failed"}
  /\ backend \in {"registered", "up"} =>
       /\ ownership
       /\ config.providers \ {"guest"} \subseteq KnownProviders
       /\ factories = [id \in config.providers \ {"guest"} |->
                         GetAuthProviderFactory(id, <<id, Environment>> \in config.disabled)]
  /\ backend = "up" =>
       \A id \in DOMAIN factories \cap DOMAIN config.declared :
         \A i \in 1 .. Len(config.declared[id]) :
           config.declared[id][i].resolver \in factories[id].signInResolverFactories

LEMMA SoundResolvers ==
  ASSUME NEW id, NEW r, r \in ResolverFactories(id) \/ \E i \in DOMAIN DefaultResolvers(id) : r = DefaultResolvers(id)[i]
  PROVE  Sound(r)
BY DEF ResolverFactories, DefaultResolvers, CommonSignInResolvers, Sound, Resolver,
   UsernameMatchingUserEntityName, EmailMatchingUserEntityProfileEmail,
   EmailLocalPartMatchingUserEntityName, IdMatchingUserEntityAnnotation,
   ForwardedUserMatchingUserEntityName, PreferredUsernameMatchingUserEntityName,
   OAuth2ProxyUserHeaderMatchingUserEntityName, CreateOidcSubClaimResolver,
   OidcSubClaimMatchingKeycloakUserId, OidcSubClaimMatchingPingIdentityUserId,
   OidcLdapUuidMatchingAnnotation


-----------------------------------------------------------------------------
(* The licensed users: how long a token lives.                             *)

LEMMA RoundedNat ==
  ASSUME NEW ms \in Nat
  PROVE  Rounded(ms) \in Nat
BY ExpiryAssumption DEF Rounded

LEMMA TokenLives ==
  ASSUME NEW e \in Expiries \cup {NotConfigured}
  PROVE  /\ ReadBackstageTokenExpiration(e) = TokenLife(e)
         /\ TokenLife(e) \in Nat
<1>1. e # NotConfigured => Rounded(e) \in Nat
  BY RoundedNat, ExpiryAssumption
<1> QED
  BY <1>1, ExpiryAssumption DEF ReadBackstageTokenExpiration, TokenLife

(* A row holds a token's expiry and, for a response, the time it yields.   *)
RowOK(row) == row.issued \in Nat /\ row.life \in Nat /\ row.exp = row.issued + row.life

ListedOK(ref) ==
  /\ DOMAIN rows[ref] = {"lastAuthTime", "profile", "row"}
  /\ RowOK(rows[ref].row)
  /\ rows[ref].lastAuthTime = rows[ref].row.exp - tokenExpiration
  /\ \A u \in rows[ref].profile : u \in peopleEver /\ EntityRef(u) = ref

Named(ref, users) == \E u \in users : UserRef(u) = ref

(* Who was in the catalog all the time has a profile in the answer.        *)
ProfileThere(ref) ==
  request = "answered" /\ ref[1] = "default" /\ Named(ref, peopleAlways)
    => rows[ref].profile # {}

LicensedInv ==
  /\ LicensedTypeOK
  /\ tokenExpiration = ReadBackstageTokenExpiration(expiry)
  /\ peopleEver \subseteq People
  /\ \A ref \in DOMAIN userInfo : RowOK(userInfo[ref])
  /\ \A ref \in DOMAIN rows : ListedOK(ref) /\ ProfileThere(ref)

LEMMA LicensedInitInv == LicensedInit => LicensedInv
<1> SUFFICES ASSUME LicensedInit
             PROVE  LicensedInv
  OBVIOUS
<1>1. DOMAIN NoRows = {}
  BY DEF NoRows
<1>2. tokenExpiration \in Nat
  BY TokenLives DEF LicensedInit
<1> QED
  BY <1>1, <1>2, PeopleAssumption, ExpiryAssumption DEF LicensedInit, LicensedInv, LicensedTypeOK

LEMMA LicensedRight == LicensedInv => ListedRight
<1> SUFFICES ASSUME LicensedInv, request = "answered", NEW ref \in DOMAIN rows
             PROVE  LET listed == rows[ref]
                        own == {u \in People : UserRef(u) = ref}
                        namesakes == {u \in peopleEver : LowerCase[u.name] = ref[2]} \ own
                    IN /\ listed.row.life = TokenLife(expiry) => listed.lastAuthTime = listed.row.issued
                       /\ listed.profile \subseteq peopleEver
                       /\ namesakes = {} => listed.profile \subseteq own
                       /\ ref[1] = "default" /\ own \cap peopleAlways # {} => listed.profile # {}
  BY DEF ListedRight
<1>1. ListedOK(ref) /\ ProfileThere(ref) /\ peopleEver \subseteq People
  BY DEF LicensedInv
<1>2. rows[ref].row.life = TokenLife(expiry) => rows[ref].lastAuthTime = rows[ref].row.issued
  <2>1. tokenExpiration = TokenLife(expiry) /\ tokenExpiration \in Nat
    BY TokenLives DEF LicensedInv, LicensedTypeOK
  <2> QED
    BY <1>1, <2>1 DEF ListedOK, RowOK
<1>3. \A u \in rows[ref].profile : u \in peopleEver /\ u \in People /\ LowerCase[u.name] = ref[2]
  BY <1>1 DEF ListedOK, EntityRef
<1> QED
  BY <1>1, <1>2, <1>3 DEF ProfileThere, Named


LEMMA LicensedSame == ASSUME LicensedInv, UNCHANGED licensedVars PROVE LicensedInv'
BY DEF licensedVars, LicensedInv, LicensedTypeOK, ListedOK, ProfileThere

LEMMA TimeStep == ASSUME LicensedInv, TimePasses PROVE LicensedInv'
<1>1. now' \in 0 .. MaxTime
  BY ExpiryAssumption DEF TimePasses, LicensedInv, LicensedTypeOK
<1> QED
  BY <1>1 DEF TimePasses, LicensedInv, LicensedTypeOK, ListedOK, ProfileThere

LEMMA ChangeStepPeople == ASSUME LicensedInv, ChangePeople PROVE LicensedInv'
<1> USE DEF ChangePeople
<1>1. people' \subseteq People /\ refreshes' \in 0 .. MaxRefreshes
  BY ExpiryAssumption DEF LicensedInv, LicensedTypeOK
<1>2. /\ peopleAlways' \subseteq people' /\ people' \subseteq peopleEver'
      /\ peopleAlways' \subseteq peopleAlways /\ peopleEver \subseteq peopleEver'
      /\ peopleEver' \subseteq People
  BY <1>1 DEF LicensedInv, LicensedTypeOK
<1>3. LicensedTypeOK'
  BY <1>1, <1>2 DEF LicensedInv, LicensedTypeOK
<1>4. \A ref \in DOMAIN rows : ListedOK(ref)' /\ ProfileThere(ref)'
  BY <1>2 DEF LicensedInv, ListedOK, ProfileThere, Named
<1> QED
  BY <1>2, <1>3, <1>4 DEF LicensedInv

LEMMA RestartRouterStep == ASSUME LicensedInv, RestartRouter PROVE LicensedInv'
<1> USE DEF RestartRouter, CreateRouter
<1>1. DOMAIN NoRows = {}
  BY DEF NoRows
<1>2. tokenExpiration' \in Nat
  BY TokenLives
<1>3. now' \in 0 .. MaxTime
  BY ExpiryAssumption DEF LicensedInv, LicensedTypeOK
<1> QED
  BY <1>1, <1>2, <1>3 DEF LicensedInv, LicensedTypeOK

LEMMA RecordedStep ==
  ASSUME LicensedInv, NEW ref, Recorded(ref),
         UNCHANGED <<people, now, refreshes, expiry, inMemory, tokenExpiration, request, rows,
                     peopleEver, peopleAlways>>
  PROVE  LicensedInv'
<1>1. now \in Nat /\ TokenLife(expiry) \in Nat
  BY TokenLives DEF LicensedInv, LicensedTypeOK
<1>2. /\ DOMAIN userInfo' = DOMAIN userInfo \cup {ref}
      /\ \A r \in DOMAIN userInfo' : RowOK(userInfo[r])' 
  BY <1>1 DEF Recorded, LicensedInv, RowOK
<1>3. LicensedTypeOK'
  BY <1>2 DEF LicensedInv, LicensedTypeOK
<1> QED
  BY <1>2, <1>3 DEF LicensedInv, ListedOK, ProfileThere

LEMMA GetListUsersStep == ASSUME LicensedInv, GetListUsers PROVE LicensedInv'
<1> USE DEF GetListUsers
<1>1. DOMAIN rows' = DOMAIN userInfo
  OBVIOUS
<1>2. ASSUME NEW ref \in DOMAIN rows'
      PROVE  ListedOK(ref)' /\ ProfileThere(ref)'
  <2>1. rows'[ref] = RowToResponse(userInfo[ref])
    BY <1>1
  <2>2. /\ rows'[ref].row = userInfo[ref] /\ rows'[ref].profile = {}
        /\ rows'[ref].lastAuthTime = userInfo[ref].exp - tokenExpiration
        /\ DOMAIN rows'[ref] = {"lastAuthTime", "profile", "row"}
    BY <2>1 DEF RowToResponse
  <2> QED
    BY <1>1, <2>2 DEF LicensedInv, ListedOK, ProfileThere, RowOK
<1>3. LicensedTypeOK'
  BY <1>1 DEF LicensedInv, LicensedTypeOK
<1> QED
  BY <1>2, <1>3 DEF LicensedInv, LicensedTypeOK

LEMMA JoinProfilesStep == ASSUME LicensedInv, JoinProfiles PROVE LicensedInv'
<1> USE DEF JoinProfiles
<1>1. PICK entityMap \in [{EntityRef(u) : u \in people} -> people] :
        /\ \A ref \in DOMAIN entityMap : EntityRef(entityMap[ref]) = ref
        /\ rows' = [ref \in DOMAIN rows |->
                      IF ref \in DOMAIN entityMap
                      THEN [rows[ref] EXCEPT !.profile = {entityMap[ref]}]
                      ELSE rows[ref]]
  OBVIOUS
<1>2. DOMAIN rows' = DOMAIN rows
  BY <1>1
<1>3. ASSUME NEW ref \in DOMAIN rows
      PROVE  ListedOK(ref)' /\ ProfileThere(ref)'
  <2>0. ListedOK(ref) /\ people \subseteq peopleEver /\ peopleAlways \subseteq people
    BY <1>3 DEF LicensedInv, LicensedTypeOK
  <2>1. CASE ref \in DOMAIN entityMap
    <3>1. rows'[ref] = [rows[ref] EXCEPT !.profile = {entityMap[ref]}]
      BY <1>1, <1>3, <2>1
    <3> QED
      BY <1>1, <2>0, <2>1, <3>1 DEF ListedOK, ProfileThere, RowOK
  <2>2. CASE ref \notin DOMAIN entityMap
    <3>1. rows'[ref] = rows[ref]
      BY <1>1, <1>3, <2>2
    <3>2. ~(ref[1] = "default" /\ Named(ref, peopleAlways))
      BY <1>1, <2>0, <2>2 DEF Named, UserRef, EntityRef
    <3> QED
      BY <2>0, <3>1, <3>2 DEF ListedOK, ProfileThere, RowOK
  <2> QED
    BY <2>1, <2>2
<1>4. LicensedTypeOK'
  BY <1>2 DEF LicensedInv, LicensedTypeOK
<1> QED
  BY <1>2, <1>3, <1>4 DEF LicensedInv

LEMMA LicensedStep == ASSUME LicensedInv, LicensedNext PROVE LicensedInv'
<1>1. ASSUME NEW d, GetUsers(d) PROVE LicensedInv'
  BY <1>1 DEF GetUsers, LicensedInv, LicensedTypeOK, ListedOK, ProfileThere
<1> QED
  BY <1>1, GetListUsersStep, JoinProfilesStep DEF LicensedNext


-----------------------------------------------------------------------------
(* The backend and the resolvers of a sign-in.                             *)

ChainOK ==
  /\ Len(chain) \in Nat
  /\ chain # <<>> => Len(chain) > 0
  /\ \A i \in 1 .. Len(chain) : Sound(chain[i].resolver)

LEMMA AuthInitInv == SignInInit => BackendOK
BY DEF SignInInit, AuthInit, Init, BackendOK

LEMMA AuthSame == ASSUME BackendOK, UNCHANGED authVars PROVE BackendOK'
BY DEF BackendOK, authVars, Environment

LEMMA StartStep == ASSUME BackendOK, RegisterProviders \/ CreateProviderRouters PROVE BackendOK'
<1>1. CASE RegisterProviders
  BY <1>1 DEF RegisterProviders, BackendOK, KnownProviders, Environment
<1>2. CASE CreateProviderRouters
  BY <1>2 DEF CreateProviderRouters, BackendOK, Environment
<1> QED
  BY <1>1, <1>2

LEMMA DefaultLength ==
  ASSUME NEW id
  PROVE  Len(DefaultResolvers(id)) \in {1, 2}
         /\ DOMAIN DefaultResolvers(id) = 1 .. Len(DefaultResolvers(id))
<1>1. \A a : Len(<<a>>) = 1 /\ DOMAIN <<a>> = 1 .. 1
  OBVIOUS
<1>2. \A a, b : Len(<<a, b>>) = 2 /\ DOMAIN <<a, b>> = 1 .. 2
  OBVIOUS
<1>3. \/ \E a : DefaultResolvers(id) = <<a>>
      \/ \E a, b : DefaultResolvers(id) = <<a, b>>
  BY DEF DefaultResolvers
<1> QED
  BY <1>1, <1>2, <1>3

LEMMA ChainFacts ==
  ASSUME BackendOK, backend = "up", NEW id \in DOMAIN factories
  PROVE  /\ id \in config.providers \ {"guest"}
         /\ Len(Chain(id)) \in Nat
         /\ Chain(id) # <<>> => Len(Chain(id)) > 0
         /\ Chain(id) = <<>> => <<id, Environment>> \in config.disabled
         /\ Chain(id) # <<>> => <<id, Environment>> \notin config.disabled
         /\ \A i \in 1 .. Len(Chain(id)) :
              Sound(Chain(id)[i].resolver) /\ Chain(id)[i].resolver \in ResolversOf(id)
<1>1. /\ id \in config.providers \ {"guest"}
      /\ factories[id] = GetAuthProviderFactory(id, <<id, Environment>> \in config.disabled)
  BY DEF BackendOK
<1>2. CASE id \in DOMAIN config.declared
  <2>1. /\ Chain(id) = config.declared[id] /\ Chain(id) # <<>>
        /\ Chain(id) \in Seq(ToSet(Chain(id)))
    BY <1>2, AuthConfigsAssumption DEF BackendOK, Chain
  <2>2. Len(Chain(id)) \in Nat /\ Len(Chain(id)) > 0
    BY <2>1
  <2>3. /\ \A i \in 1 .. Len(Chain(id)) : Chain(id)[i].resolver \in ResolverFactories(id)
        /\ <<id, Environment>> \notin config.disabled
    <3>1. \A i \in 1 .. Len(Chain(id)) :
            /\ Chain(id)[i].resolver \in factories[id].signInResolverFactories
            /\ factories[id].signInResolverFactories =
                 IF <<id, Environment>> \in config.disabled THEN {} ELSE ResolverFactories(id)
      BY <1>1, <1>2, <2>1 DEF BackendOK, GetAuthProviderFactory
    <3>2. 1 \in 1 .. Len(Chain(id))
      BY <2>2
    <3> QED
      BY <3>1, <3>2
  <2> QED
    BY <1>1, <2>1, <2>2, <2>3, SoundResolvers DEF ResolversOf
<1>3. CASE id \notin DOMAIN config.declared
  <2> DEFINE r == factories[id].signInResolver
  <2>1. Chain(id) = [i \in 1 .. Len(r) |-> [resolver |-> r[i], allowed |-> FALSE]]
    BY <1>3 DEF Chain
  <2>2. CASE <<id, Environment>> \in config.disabled
    <3>1. r = <<>>
      BY <1>1, <2>2 DEF GetAuthProviderFactory
    <3>2. Chain(id) = <<>> /\ Len(Chain(id)) = 0
      BY <2>1, <3>1
    <3> QED
      BY <1>1, <2>2, <3>2
  <2>3. CASE <<id, Environment>> \notin config.disabled
    <3>1. r = DefaultResolvers(id)
      BY <1>1, <2>3 DEF GetAuthProviderFactory
    <3>2. Len(r) \in {1, 2} /\ DOMAIN r = 1 .. Len(r)
      BY <3>1, DefaultLength
    <3>3. \A i \in 1 .. Len(r) : Sound(r[i]) /\ r[i] \in ResolversOf(id)
      BY <3>1, <3>2, SoundResolvers DEF ResolversOf, ToSet
    <3> HIDE DEF r
    <3>4. Len(Chain(id)) = Len(r)
      BY <2>1, <3>2
    <3>5. \A i \in 1 .. Len(r) : Chain(id)[i].resolver = r[i]
      BY <2>1
    <3>6. Chain(id) # <<>>
      BY <3>2, <3>4
    <3> QED
      BY <1>1, <2>3, <3>2, <3>3, <3>4, <3>5, <3>6
  <2> QED
    BY <2>2, <2>3
<1> QED
  BY <1>2, <1>3


-----------------------------------------------------------------------------
(* A sign-in.                                                              *)

PhaseOK ==
  /\ phase \in Resolving \cup {"off", "page", "signedIn", "guest", "refused", "noPage"}
  /\ phase # "owning" => pc = "start"
  /\ phase \in Resolving => tried < Len(chain) /\ backend = "up"
  /\ phase = "page" => tried = 0
  /\ phase = "owning" <=> found # {} /\ phase # "signedIn"
  /\ tried \in Nat /\ fault \in BOOLEAN /\ stopped \in BOOLEAN

(* The history brackets the users in the catalog.                          *)
UsersOK == ever0 \subseteq People /\ always0 \subseteq people /\ people \subseteq ever0

(* What the resolver at hand has been found to be, and the ones before it. *)
AttemptOK ==
  /\ phase \in {"looking", "owning", "signedIn"} =>
       tried < Len(chain) /\ Verified(Attempt.resolver, profile)
  /\ phase = "owning" => found \subseteq Matching(Attempt.resolver, profile, ever0)
  /\ phase = "signedIn" =>
       \/ signedAs \in {UserRef(u) : u \in Matching(Attempt.resolver, profile, ever0)}
       \/ Attempt.allowed
  /\ phase \in Resolving \cup {"signedIn"} => fault \/ \A i \in 1 .. tried : ~Works(i)

SessionInv == PhaseOK /\ ChainOK /\ UsersOK /\ AttemptOK /\ RefusedWithReason

LEMMA MatchingUsers ==
  ASSUME NEW r, NEW p, NEW S, NEW T, S \subseteq T
  PROVE  /\ Matching(r, p, S) \subseteq S
         /\ Matching(r, p, S) \subseteq Matching(r, p, T)
         /\ Matching(r, p, T) \cap S \subseteq Matching(r, p, S)
BY DEF Matching

LEMMA WorksOne ==
  ASSUME UsersOK, NEW i, Works(i)
  PROVE  \E u \in always0 : Matching(chain[i].resolver, profile, ever0) = {u}
<1> DEFINE S == Matching(chain[i].resolver, profile, ever0)
<1>1. S \subseteq ever0 /\ S \subseteq always0 /\ Cardinality(S) = 1
  BY MatchingUsers DEF Works
<1>2. IsFiniteSet(S)
  BY <1>1, PeopleAssumption, FS_Subset DEF UsersOK
<1> HIDE DEF S
<1>3. \E u : S = {u}
  BY <1>1, <1>2, FS_Singleton
<1> QED
  BY <1>1, <1>3 DEF S

(* Users who come and go leave no resolver working that did not before.    *)
LEMMA WorksShrinks ==
  ASSUME UsersOK, UsersOK', ever0 \subseteq ever0', always0' \subseteq always0,
         UNCHANGED <<chain, profile>>, NEW i, Works(i)'
  PROVE  Works(i)
<1> DEFINE r == chain[i].resolver
<1>1. PICK u \in always0' : Matching(r, profile, ever0') = {u}
  <2>1. \E u \in always0' : Matching(chain'[i].resolver, profile', ever0') = {u}
    <3>1. Matching(chain'[i].resolver, profile', ever0') \subseteq always0'
          /\ Cardinality(Matching(chain'[i].resolver, profile', ever0')) = 1
      BY DEF Works, Matching, ValueFor, HeaderName, ClaimOf, UserRef
    <3>2. Matching(chain'[i].resolver, profile', ever0') \subseteq ever0'
      BY MatchingUsers
    <3>3. IsFiniteSet(Matching(chain'[i].resolver, profile', ever0'))
      BY <3>2, PeopleAssumption, FS_Subset DEF UsersOK
    <3> QED
      BY <3>1, <3>3, FS_Singleton
  <2> QED
    BY <2>1
<1>2. u \in always0 /\ u \in ever0
  BY <1>1 DEF UsersOK
<1>3. Matching(r, profile, ever0) = {u}
  BY <1>1, <1>2, MatchingUsers
<1>4. Cardinality({u}) = 1
  BY FS_Singleton
<1>5. Verified(r, profile)
  BY DEF Works, Verified, ValueFor, HeaderName, ClaimOf
<1> QED
  BY <1>2, <1>3, <1>4, <1>5 DEF Works


-----------------------------------------------------------------------------
(* The steps of a sign-in.                                                 *)

LEMMA WorksSame ==
  ASSUME UNCHANGED <<chain, profile, ever0, always0>>, NEW i
  PROVE  Works(i)' <=> Works(i)
BY DEF Works, Verified, ValueFor, HeaderName, ClaimOf, Matching, UserRef

LEMMA FailedKept ==
  ASSUME fault \/ \A i \in 1 .. tried : ~Works(i), fault' <=> fault, tried' = tried,
         \A i : Works(i)' => Works(i)
  PROVE  fault' \/ \A i \in 1 .. tried' : ~Works(i)'
<1>1. CASE fault
  BY <1>1
<1>2. CASE \A i \in 1 .. tried : ~Works(i)
  BY <1>2
<1> QED
  BY <1>1, <1>2

LEMMA SessionSame ==
  ASSUME SessionInv, UNCHANGED sessionVars, config' = config, people' = people,
         phase # "owning" => pc' = "start", phase \in Resolving => backend' = backend
  PROVE  SessionInv'
<1> USE DEF sessionVars
<1>1. PhaseOK'
  BY DEF SessionInv, PhaseOK
<1>2. ChainOK' /\ UsersOK'
  BY DEF SessionInv, ChainOK, UsersOK
<1>3. \A i : Works(i)' <=> Works(i)
  BY WorksSame
<1>4. AttemptOK'
  BY <1>3 DEF SessionInv, AttemptOK, Attempt, Verified, ValueFor, HeaderName, ClaimOf, Matching, UserRef
<1>5. RefusedWithReason'
  BY <1>3 DEF SessionInv, RefusedWithReason, Environment
<1> QED
  BY <1>1, <1>2, <1>4, <1>5 DEF SessionInv

(* A resolver throws, for a request that failed or because it does not     *)
(* work: the next is tried, or the sign-in is refused for a reason.        *)
LEMMA ThrowsStep ==
  ASSUME SessionInv, phase \in Resolving,
         NEW notFound \in BOOLEAN, NEW failed \in BOOLEAN, Throws(notFound, failed),
         failed \/ ~Works(tried + 1),
         UNCHANGED authVars, people' = people, pc' = "start"
  PROVE  SessionInv'
<1>0. UNCHANGED <<chain, profile, signedAs, ever0, always0, config, backend>>
  BY DEF Throws, authVars
<1>1. tried \in Nat /\ tried < Len(chain) /\ Len(chain) \in Nat
  BY DEF SessionInv, PhaseOK, ChainOK
<1>2. found' = {} /\ (fault' <=> (fault \/ failed)) /\ fault' \in BOOLEAN /\ stopped' \in BOOLEAN
  BY DEF Throws, SessionInv, PhaseOK
<1>3. \A i : Works(i)' <=> Works(i)
  BY <1>0, WorksSame
<1>4. \/ phase' = "resolving" /\ tried' = tried + 1 /\ tried + 1 < Len(chain)
      \/ phase' = "refused" /\ tried' = tried /\ (stopped' \/ tried + 1 >= Len(chain))
  <2> DEFINE declared == PageProvider \in DOMAIN config.declared
             more == tried + 1 < Len(chain) /\ (declared => notFound)
  <2>1. /\ more => phase' = "resolving" /\ tried' = tried + 1
        /\ ~more => phase' = "refused" /\ tried' = tried
        /\ declared /\ ~notFound => stopped'
    BY Zenon DEF Throws
  <2> HIDE DEF declared
  <2>2. CASE more
    BY <2>1, <2>2
  <2>3. CASE declared /\ ~notFound
    BY <2>1, <2>3
  <2>4. CASE ~(tried + 1 < Len(chain))
    BY <1>1, <2>1, <2>4
  <2> QED
    BY <2>2, <2>3, <2>4
<1>5. fault' \/ \A i \in 1 .. tried + 1 : ~Works(i)
  BY <1>1, <1>2 DEF SessionInv, AttemptOK
<1>6. PhaseOK'
  BY <1>0, <1>1, <1>2, <1>4 DEF SessionInv, PhaseOK, Resolving
<1>7. ChainOK' /\ UsersOK'
  BY <1>0 DEF SessionInv, ChainOK, UsersOK
<1>8. AttemptOK'
  <2>1. phase' = "resolving" => fault' \/ \A i \in 1 .. tried' : ~Works(i)'
    BY <1>3, <1>4, <1>5, Zenon
  <2> QED
    BY <1>4, <2>1 DEF AttemptOK, Resolving
<1>9. RefusedWithReason'
  <2> SUFFICES ASSUME phase' = "refused", ~fault', ~stopped'
               PROVE  chain' # <<>> /\ \A i \in 1 .. Len(chain') : ~Works(i)'
    BY DEF RefusedWithReason
  <2>1. tried + 1 = Len(chain)
    BY <1>1, <1>4
  <2>2. Len(<<>>) = 0
    OBVIOUS
  <2> QED
    BY <1>0, <1>1, <1>3, <1>5, <2>1, <2>2
<1> QED
  BY <1>6, <1>7, <1>8, <1>9 DEF SessionInv

LEMMA RejectClaimStep == ASSUME SessionInv, RejectClaim PROVE SessionInv'
<1>1. ~Works(tried + 1)
  BY DEF RejectClaim, Works, Attempt
<1> QED
  BY <1>1, ThrowsStep DEF RejectClaim, Resolving, licensedVars, groupVars, SessionInv, PhaseOK

LEMMA UserNotFoundStep == ASSUME SessionInv, UserNotFound PROVE SessionInv'
<1>1. ~Works(tried + 1)
  <2> SUFFICES ASSUME Works(tried + 1)
               PROVE  FALSE
    OBVIOUS
  <2>1. PICK u \in always0 : Matching(Attempt.resolver, profile, ever0) = {u}
    BY WorksOne DEF SessionInv, Attempt
  <2>2. u \in people /\ people \subseteq ever0
    BY DEF SessionInv, UsersOK
  <2> QED
    BY <2>1, <2>2, MatchingUsers DEF UserNotFound
<1> QED
  BY <1>1, ThrowsStep DEF UserNotFound, Resolving, licensedVars, groupVars, SessionInv, PhaseOK

LEMMA UserAmbiguousStep == ASSUME SessionInv, UserAmbiguous PROVE SessionInv'
<1>1. ~Works(tried + 1)
  <2> SUFFICES ASSUME Works(tried + 1)
               PROVE  FALSE
    OBVIOUS
  <2>1. PICK u \in always0 : Matching(Attempt.resolver, profile, ever0) = {u}
    BY WorksOne DEF SessionInv, Attempt
  <2>2. Matching(Attempt.resolver, profile, people) = {u}
    BY <2>1, MatchingUsers DEF SessionInv, UsersOK
  <2>3. Cardinality({u}) = 1 /\ Cardinality(Matching(Attempt.resolver, profile, people)) > 1
    BY FS_Singleton DEF UserAmbiguous
  <2> QED
    BY <2>2, <2>3
<1> QED
  BY <1>1, ThrowsStep DEF UserAmbiguous, Resolving, licensedVars, groupVars, SessionInv, PhaseOK

LEMMA RequestFailsStep == ASSUME SessionInv, RequestFails PROVE SessionInv'
BY ThrowsStep DEF RequestFails, Resolving, licensedVars, groupVars, SessionInv, PhaseOK

LEMMA OwnershipRejectedStep == ASSUME SessionInv, OwnershipRejected PROVE SessionInv'
BY ThrowsStep DEF OwnershipRejected, Idle, Resolving, licensedVars, SessionInv, PhaseOK


LEMMA OpenPageStep == ASSUME SessionInv, LicensedInv, OpenPage PROVE SessionInv'
<1> USE DEF OpenPage, TimePasses, groupVars, authVars
<1>1. Len(<<>>) = 0
  OBVIOUS
<1>2. phase' \in {"page", "noPage"} /\ phase # "owning"
  BY DEF Resolving
<1>3. PhaseOK' /\ ChainOK'
  <2>1. pc' = "start"
    BY <1>2 DEF SessionInv, PhaseOK
  <2>2. ChainOK'
    BY <1>1 DEF ChainOK
  <2>3. fault' \in BOOLEAN /\ stopped' \in BOOLEAN /\ found' = {} /\ tried' = 0
    OBVIOUS
  <2> QED
    BY <1>2, <2>1, <2>2, <2>3 DEF PhaseOK, Resolving
<1>4. UsersOK'
  BY DEF LicensedInv, LicensedTypeOK, UsersOK
<1> QED
  BY <1>2, <1>3, <1>4 DEF SessionInv, AttemptOK, RefusedWithReason, Resolving

LEMMA EnterAsGuestStep == ASSUME SessionInv, EnterAsGuest PROVE SessionInv'
<1> USE DEF EnterAsGuest, groupVars, authVars, licensedVars
<1>1. PhaseOK' /\ ChainOK' /\ UsersOK'
  BY DEF SessionInv, PhaseOK, ChainOK, UsersOK, Resolving
<1> QED
  BY <1>1 DEF SessionInv, AttemptOK, RefusedWithReason, Resolving

LEMMA PageKnown == OAuthProviders \cup ProxyProviders \subseteq PopupPages \cup ProxiedPages
BY DEF OAuthProviders, ProxyProviders, PopupPages, ProxiedPages

LEMMA AuthenticateStep == ASSUME SessionInv, BackendOK, Authenticate PROVE SessionInv'
<1> USE DEF Authenticate, groupVars, authVars, licensedVars
<1> DEFINE there == backend = "up" /\ PageProvider \in DOMAIN factories
<1>1. Len(<<>>) = 0 /\ tried' = 0 /\ found' = {}
  BY DEF SessionInv, PhaseOK, Resolving
<1>2. chain' = IF there THEN Chain(PageProvider) ELSE <<>>
  OBVIOUS
<1>3. /\ Len(chain') \in Nat
      /\ chain' # <<>> => Len(chain') > 0
      /\ \A i \in 1 .. Len(chain') : Sound(chain'[i].resolver)
  <2>1. CASE there
    BY <1>2, <2>1, ChainFacts
  <2>2. CASE ~there
    BY <1>1, <1>2, <2>2
  <2> QED
    BY <2>1, <2>2
<1>4. phase' = IF chain' = <<>> THEN "refused" ELSE "resolving"
  OBVIOUS
<1>5. PhaseOK'
  <2>1. chain' # <<>> => backend = "up"
    BY <1>2
  <2>2. fault' \in BOOLEAN /\ stopped' \in BOOLEAN
    BY DEF SessionInv, PhaseOK
  <2>3. pc' = "start"
    BY DEF SessionInv, PhaseOK
  <2> QED
    BY <1>1, <1>3, <1>4, <2>1, <2>2, <2>3 DEF PhaseOK, Resolving
<1>6. ChainOK' /\ UsersOK'
  BY <1>3 DEF SessionInv, ChainOK, UsersOK
<1>7. AttemptOK'
  <2>1. \A i \in 1 .. 0 : FALSE
    OBVIOUS
  <2> QED
    BY <1>1, <1>4, <2>1 DEF AttemptOK, Resolving
<1>8. RefusedWithReason'
  <2> DEFINE named == IF config.signInPage \in {Unset, "guest"} THEN "github" ELSE config.signInPage
  <2> SUFFICES ASSUME chain' = <<>>, backend = "up"
               PROVE  named \notin config.providers \/ <<named, Environment>> \in config.disabled
    BY <1>1, <1>4 DEF RefusedWithReason, Environment
  <2>1. CASE named \in PopupPages \cup ProxiedPages
    <3>1. named = PageProvider /\ named # "guest"
      BY <2>1, UnsetAssumption DEF PageProvider, DefaultProvider, PopupPages, ProxiedPages
    <3>2. CASE PageProvider \in DOMAIN factories
      BY <1>2, <3>1, <3>2, ChainFacts
    <3>3. CASE PageProvider \notin DOMAIN factories
      BY <3>1, <3>3 DEF BackendOK
    <3> QED
      BY <3>2, <3>3
  <2>2. CASE named \notin PopupPages \cup ProxiedPages
    <3>1. named # "github" /\ named # "guest"
      BY <2>2 DEF PopupPages
    <3> QED
      BY <2>2, <3>1, PageKnown DEF BackendOK, KnownProviders
  <2> QED
    BY <2>1, <2>2
<1> QED
  BY <1>5, <1>6, <1>7, <1>8 DEF SessionInv

LEMMA RequestUserStep == ASSUME SessionInv, RequestUser PROVE SessionInv'
<1> USE DEF RequestUser, groupVars, authVars, licensedVars
<1>1. PhaseOK' /\ ChainOK' /\ UsersOK'
  BY DEF SessionInv, PhaseOK, ChainOK, UsersOK, Resolving
<1>2. \A i : Works(i)' <=> Works(i)
  BY WorksSame
<1>3. Verified(Attempt.resolver, profile)' 
  BY DEF Attempt, Verified, ValueFor, HeaderName, ClaimOf
<1> QED
  BY <1>1, <1>2, <1>3 DEF SessionInv, PhaseOK, AttemptOK, RefusedWithReason, Resolving


LEMMA UserFoundStep == ASSUME SessionInv, UserFound PROVE SessionInv'
<1> USE DEF UserFound, authVars, licensedVars
<1>1. PICK u : /\ Matching(Attempt.resolver, profile, people) = {u}
               /\ found' = {u}
  OBVIOUS
<1>2. PhaseOK'
  BY <1>1 DEF SessionInv, PhaseOK, Resolving
<1>3. ChainOK' /\ UsersOK'
  BY DEF SessionInv, ChainOK, UsersOK
<1>4. \A i : Works(i)' <=> Works(i)
  BY WorksSame
<1>5. Verified(Attempt.resolver, profile)' /\ tried' < Len(chain')
  BY DEF SessionInv, PhaseOK, AttemptOK, Attempt, Verified, ValueFor, HeaderName, ClaimOf, Resolving
<1>6. found' \subseteq Matching(Attempt.resolver, profile, ever0)'
  <2>1. found' \subseteq Matching(Attempt.resolver, profile, ever0)
    BY <1>1, MatchingUsers DEF SessionInv, UsersOK
  <2>2. Matching(Attempt.resolver, profile, ever0)' = Matching(Attempt.resolver, profile, ever0)
    BY DEF Attempt, Matching, ValueFor, HeaderName, ClaimOf, UserRef
  <2> QED
    BY <2>1, <2>2
<1>7. fault' \/ \A i \in 1 .. tried' : ~Works(i)'
  <2>1. fault \/ \A i \in 1 .. tried : ~Works(i)
    BY DEF SessionInv, AttemptOK, Resolving
  <2>2. (fault' <=> fault) /\ tried' = tried
    OBVIOUS
  <2> QED
    BY <1>4, <2>1, <2>2, FailedKept
<1>8. phase' = "owning"
  OBVIOUS
<1> QED
  BY <1>2, <1>3, <1>5, <1>6, <1>7, <1>8 DEF SessionInv, AttemptOK, RefusedWithReason

(* The token names a user that was found, or one who need not be.          *)
LEMMA IssueStep ==
  ASSUME SessionInv, NEW ref, Issue(ref), phase \in {"looking", "owning"},
         \/ ref \in {UserRef(u) : u \in Matching(Attempt.resolver, profile, ever0)}
         \/ Attempt.allowed,
         UNCHANGED authVars, pc' = "start"
  PROVE  SessionInv'
<1> USE DEF Issue, authVars
<1>1. PhaseOK'
  BY DEF SessionInv, PhaseOK, Resolving
<1>2. ChainOK' /\ UsersOK'
  BY DEF SessionInv, ChainOK, UsersOK
<1>3. \A i : Works(i)' <=> Works(i)
  BY WorksSame
<1>4. Verified(Attempt.resolver, profile)' /\ tried' < Len(chain')
  BY DEF SessionInv, PhaseOK, AttemptOK, Attempt, Verified, ValueFor, HeaderName, ClaimOf, Resolving
<1>5. /\ {UserRef(u) : u \in Matching(Attempt.resolver, profile, ever0)}'
           = {UserRef(u) : u \in Matching(Attempt.resolver, profile, ever0)}
      /\ Attempt' = Attempt
  BY DEF Attempt, Matching, ValueFor, HeaderName, ClaimOf, UserRef
<1>6. fault' \/ \A i \in 1 .. tried' : ~Works(i)'
  <2>1. fault \/ \A i \in 1 .. tried : ~Works(i)
    BY DEF SessionInv, AttemptOK, Resolving
  <2>2. (fault' <=> fault) /\ tried' = tried
    OBVIOUS
  <2> QED
    BY <1>3, <2>1, <2>2, FailedKept
<1>7. phase' = "signedIn" /\ signedAs' = ref
  OBVIOUS
<1>8. AttemptOK'
  BY <1>4, <1>5, <1>6, <1>7 DEF AttemptOK
<1> QED
  BY <1>1, <1>2, <1>7, <1>8 DEF SessionInv, RefusedWithReason

LEMMA SignInWithoutUserStep == ASSUME SessionInv, SignInWithoutUser PROVE SessionInv'
BY IssueStep DEF SignInWithoutUser, groupVars, SessionInv, PhaseOK

LEMMA IssueTokenStep == ASSUME SessionInv, IssueToken PROVE SessionInv'
<1>1. PICK u \in found : Issue(UserRef(u))
  BY DEF IssueToken
<1>2. u \in Matching(Attempt.resolver, profile, ever0)
  BY DEF IssueToken, SessionInv, AttemptOK
<1> QED
  BY <1>1, <1>2, IssueStep DEF IssueToken, Idle

LEMMA RefreshUsersStep ==
  ASSUME SessionInv, LicensedInv, LicensedInv', RefreshUsers
  PROVE  SessionInv'
<1> USE DEF RefreshUsers, authVars, groupVars
<1>1. PhaseOK' /\ ChainOK'
  BY DEF SessionInv, PhaseOK, ChainOK
<1>2. UsersOK' /\ ever0 \subseteq ever0' /\ always0' \subseteq always0
  BY DEF SessionInv, UsersOK, LicensedInv, LicensedTypeOK
<1>3. \A i : Works(i)' => Works(i)
  BY <1>2, WorksShrinks DEF SessionInv
<1>4. Attempt' = Attempt /\ (Verified(Attempt.resolver, profile)' <=> Verified(Attempt.resolver, profile))
  BY DEF Attempt, Verified, ValueFor, HeaderName, ClaimOf
<1>5. Matching(Attempt.resolver, profile, ever0) \subseteq Matching(Attempt.resolver, profile, ever0)'
  BY <1>2 DEF Attempt, Matching, ValueFor, HeaderName, ClaimOf, UserRef
<1>6. {UserRef(u) : u \in Matching(Attempt.resolver, profile, ever0)}
        \subseteq {UserRef(u) : u \in Matching(Attempt.resolver, profile, ever0)}'
  BY <1>5 DEF UserRef
<1>7. phase \in Resolving \cup {"signedIn"} => fault' \/ \A i \in 1 .. tried' : ~Works(i)'
  <2>1. phase \in Resolving \cup {"signedIn"} => fault \/ \A i \in 1 .. tried : ~Works(i)
    BY DEF SessionInv, AttemptOK
  <2>2. (fault' <=> fault) /\ tried' = tried
    OBVIOUS
  <2> QED
    BY <1>3, <2>1, <2>2, FailedKept
<1>8. AttemptOK'
  BY <1>4, <1>5, <1>6, <1>7 DEF SessionInv, AttemptOK
<1>9. RefusedWithReason'
  BY <1>3 DEF SessionInv, RefusedWithReason, Environment
<1> QED
  BY <1>1, <1>2, <1>8, <1>9 DEF SessionInv

LEMMA RestartStep == ASSUME SessionInv, Restart PROVE SessionInv'
<1> USE DEF Restart, RestartRouter
<1>1. CASE phase \in Resolving
  <2>1. PhaseOK'
    <3>1. pc' = "start"
      BY DEF Idle, Apart, groupVars
    <3>2. fault' \in BOOLEAN /\ stopped' \in BOOLEAN /\ tried' \in Nat
      BY <1>1 DEF SessionInv, PhaseOK
    <3> QED
      BY <1>1, <3>1, <3>2 DEF PhaseOK, Resolving
  <2>2. ChainOK' /\ UsersOK'
    BY <1>1 DEF SessionInv, ChainOK, UsersOK
  <2> QED
    BY <1>1, <2>1, <2>2 DEF SessionInv, AttemptOK, RefusedWithReason, Resolving
<1>2. CASE phase \notin Resolving
  <2>1. pc' = "start"
    BY DEF Idle, Apart, groupVars
  <2> QED
    BY <1>2, <2>1, SessionSame
<1> QED
  BY <1>1, <1>2


-----------------------------------------------------------------------------
(* The ownership of groups within a sign-in: between two resolutions it    *)
(* rests, and each starts from the user's relations and a catalog.         *)
RestOK == Unread \in Catalogs /\ {} \in Relations

LEMMA GroupsSame == ASSUME IInv, UNCHANGED groupVars PROVE IInv'
BY NextStep DEF groupVars, vars

LEMMA RestStep == ASSUME IInv, RestOK, Idle PROVE IInv'
<1> USE DEF Idle
<1>1. TypeOK'
  <2>1. Edges(Unread) \subseteq Refs \X Refs
    BY DEF Edges
  <2>2. <<>> \in Seq([groupRefs : SUBSET Refs, found : SUBSET Refs])
    OBVIOUS
  <2> QED
    BY <2>1, <2>2 DEF IInv, TypeOK, RestOK, Running
<1> QED
  BY <1>1 DEF IInv, HistoryOK, FoundOK, NothingLost, NothingInvented, DepthOK, Complete,
              Justified, Running

LEMMA AskedStep ==
  ASSUME IInv, RestOK, pc = "start", memberOf' \in Relations,
         catalog' \in (IF transitive THEN Catalogs ELSE {Unread}),
         always' = Edges(catalog'), ever' = Edges(catalog'),
         UNCHANGED <<transitive, pc, stack, processedGroups, current, answer>>
  PROVE  IInv'
<1>1. TypeOK'
  <2>1. Edges(catalog') \subseteq Refs \X Refs
    BY DEF Edges
  <2> QED
    BY <2>1 DEF IInv, TypeOK, RestOK, Running
<1>2. HistoryOK'
  BY DEF HistoryOK, Edges
<1> QED
  BY <1>1, <1>2 DEF IInv, FoundOK, NothingLost, NothingInvented, DepthOK, Complete,
              Justified, Running

(* Who decides: the page's provider, with its own resolvers.               *)
ProviderOK ==
  /\ phase \in Resolving \cup {"signedIn"} =>
       /\ config.providers \ {"guest"} \subseteq KnownProviders
       /\ PageProvider \in config.providers
       /\ <<PageProvider, Environment>> \notin config.disabled
       /\ \A i \in 1 .. Len(chain) : chain[i].resolver \in ResolversOf(PageProvider)
  /\ phase \in Resolving => chain = Chain(PageProvider)

SignInInv == BackendOK /\ LicensedInv /\ SessionInv /\ ProviderOK /\ RestOK /\ IInv

LEMMA SignInInitInv == SignInInit => SignInInv
<1> SUFFICES ASSUME SignInInit
             PROVE  SignInInv
  OBVIOUS
<1>1. BackendOK /\ LicensedInv /\ IInv
  BY AuthInitInv, LicensedInitInv, InitIInv DEF SignInInit
<1>2. RestOK
  BY DEF SignInInit, Init, RestOK
<1>3. PhaseOK /\ ChainOK
  <2>1. Len(<<>>) = 0
    OBVIOUS
  <2>2. /\ phase = "off" /\ pc = "start" /\ chain = <<>> /\ tried = 0 /\ found = {}
        /\ fault \in BOOLEAN /\ stopped \in BOOLEAN
    BY DEF SignInInit, Init
  <2>3. ChainOK
    BY <2>1, <2>2 DEF ChainOK
  <2> QED
    BY <2>2, <2>3 DEF PhaseOK, Resolving
<1>4. UsersOK
  BY PeopleAssumption DEF SignInInit, LicensedInit, UsersOK
<1>5. AttemptOK /\ RefusedWithReason
  BY DEF SignInInit, AttemptOK, RefusedWithReason, Resolving
<1>6. ProviderOK
  BY DEF SignInInit, ProviderOK, Resolving
<1> QED
  BY <1>1, <1>2, <1>3, <1>4, <1>5, <1>6 DEF SignInInv, SessionInv

LEMMA BackendStep == ASSUME SignInInv, SignInNext PROVE BackendOK'
<1>1. CASE StartBackend
  BY <1>1, StartStep DEF StartBackend, SignInInv
<1>2. CASE Restart
  BY <1>2 DEF Restart, SignInInv, BackendOK, Environment
<1>3. CASE OpenPage \/ EnterAsGuest \/ Authenticate \/ ChangeGroups \/ RefreshUsers \/ Licensed
  BY <1>3, AuthSame
     DEF SignInInv, OpenPage, EnterAsGuest, Authenticate, ChangeGroups, RefreshUsers, Licensed
<1>4. CASE SignInStep
  BY <1>4, AuthSame
     DEF SignInInv, SignInStep, RejectClaim, RequestUser, UserFound, UserNotFound, UserAmbiguous,
         RequestFails, SignInWithoutUser, ResolveOwnership, OwnershipRejected, IssueToken
<1> QED
  BY <1>1, <1>2, <1>3, <1>4 DEF SignInNext

LEMMA LicensedUsersStep == ASSUME SignInInv, SignInNext PROVE LicensedInv'
<1>1. CASE OpenPage \/ RefreshUsers \/ Licensed
  BY <1>1, TimeStep, ChangeStepPeople, LicensedStep DEF SignInInv, OpenPage, RefreshUsers, Licensed
<1>2. CASE Restart
  BY <1>2, RestartRouterStep DEF SignInInv, Restart
<1>3. CASE SignInWithoutUser \/ IssueToken
  BY <1>3, RecordedStep DEF SignInInv, SignInWithoutUser, IssueToken, Issue
<1>4. CASE EnterAsGuest \/ Authenticate \/ ChangeGroups \/ StartBackend
  BY <1>4, LicensedSame DEF SignInInv, EnterAsGuest, Authenticate, ChangeGroups, StartBackend
<1>5. CASE SignInStep /\ ~(SignInWithoutUser \/ IssueToken)
  BY <1>5, LicensedSame
     DEF SignInInv, SignInStep, RejectClaim, RequestUser, UserFound, UserNotFound, UserAmbiguous,
         RequestFails, ResolveOwnership, OwnershipRejected
<1> QED
  BY <1>1, <1>2, <1>3, <1>4, <1>5 DEF SignInNext

LEMMA GroupsStep == ASSUME SignInInv, SignInNext PROVE IInv'
<1>1. CASE OpenPage \/ EnterAsGuest \/ Authenticate \/ RefreshUsers \/ Licensed \/ StartBackend
  BY <1>1, GroupsSame
     DEF SignInInv, OpenPage, EnterAsGuest, Authenticate, RefreshUsers, Licensed, StartBackend
<1>2. CASE RejectClaim \/ RequestUser \/ UserNotFound \/ UserAmbiguous \/ RequestFails
           \/ SignInWithoutUser
  BY <1>2, GroupsSame
     DEF SignInInv, RejectClaim, RequestUser, UserNotFound, UserAmbiguous, RequestFails,
         SignInWithoutUser
<1>3. CASE UserFound
  <2>1. pc = "start"
    BY <1>3 DEF SignInInv, SessionInv, PhaseOK, UserFound
  <2> QED
    BY <1>3, <2>1, AskedStep DEF SignInInv, UserFound
<1>4. CASE ResolveOwnership \/ ChangeGroups
  BY <1>4, NextStep DEF SignInInv, ResolveOwnership, ChangeGroups, Next
<1>5. CASE OwnershipRejected \/ IssueToken \/ Restart
  BY <1>5, RestStep, GroupsSame DEF SignInInv, OwnershipRejected, IssueToken, Restart
<1> QED
  BY <1>1, <1>2, <1>3, <1>4, <1>5 DEF SignInNext, SignInStep

LEMMA SessionStep == ASSUME SignInInv, SignInNext PROVE SessionInv'
<1>1. CASE OpenPage \/ EnterAsGuest \/ Authenticate
  BY <1>1, OpenPageStep, EnterAsGuestStep, AuthenticateStep DEF SignInInv
<1>2. CASE RejectClaim \/ RequestUser \/ UserFound \/ UserNotFound \/ UserAmbiguous \/ RequestFails
  BY <1>2, RejectClaimStep, RequestUserStep, UserFoundStep, UserNotFoundStep, UserAmbiguousStep,
     RequestFailsStep DEF SignInInv
<1>3. CASE SignInWithoutUser \/ OwnershipRejected \/ IssueToken
  BY <1>3, SignInWithoutUserStep, OwnershipRejectedStep, IssueTokenStep DEF SignInInv
<1>4. CASE ResolveOwnership \/ ChangeGroups
  BY <1>4, SessionSame DEF SignInInv, ResolveOwnership, ChangeGroups, authVars, licensedVars
<1>5. CASE RefreshUsers
  BY <1>5, RefreshUsersStep, LicensedUsersStep DEF SignInInv
<1>6. CASE Restart
  BY <1>6, RestartStep DEF SignInInv
<1>7. CASE Licensed
  <2>1. people' = people
    BY <1>7 DEF Licensed, LicensedNext, GetUsers, GetListUsers, JoinProfiles
  <2> QED
    BY <1>7, <2>1, SessionSame DEF SignInInv, Licensed, authVars, groupVars, SessionInv, PhaseOK
<1>8. CASE StartBackend
  <2>1. backend # "up" /\ config' = config
    BY <1>8 DEF StartBackend, RegisterProviders, CreateProviderRouters
  <2>2. phase \notin Resolving
    BY <2>1 DEF SignInInv, SessionInv, PhaseOK
  <2> QED
    BY <1>8, <2>1, <2>2, SessionSame
       DEF SignInInv, StartBackend, groupVars, licensedVars, SessionInv, PhaseOK
<1> QED
  BY <1>1, <1>2, <1>3, <1>4, <1>5, <1>6, <1>7, <1>8 DEF SignInNext, SignInStep

\* The decision stays with the same resolvers once it has begun.
LEMMA ProviderSame ==
  ASSUME ProviderOK, config' = config, chain' = chain,
         phase' \in Resolving \cup {"signedIn"} => phase \in Resolving \cup {"signedIn"},
         phase' \in Resolving => phase \in Resolving /\ factories' = factories
  PROVE  ProviderOK'
<1>1. PageProvider' = PageProvider /\ Environment' = Environment
  BY DEF PageProvider, Environment
<1>2. phase' \in Resolving => chain' = Chain(PageProvider)'
  BY <1>1 DEF ProviderOK, Chain
<1>3. phase' \in Resolving \cup {"signedIn"} =>
        /\ config'.providers \ {"guest"} \subseteq KnownProviders
        /\ PageProvider' \in config'.providers
        /\ <<PageProvider', Environment'>> \notin config'.disabled
        /\ \A i \in 1 .. Len(chain') : chain'[i].resolver \in ResolversOf(PageProvider')
  BY <1>1 DEF ProviderOK
<1> QED
  BY <1>2, <1>3 DEF ProviderOK

LEMMA ProviderStep == ASSUME SignInInv, SignInNext PROVE ProviderOK'
<1> USE DEF Resolving
<1>1. CASE OpenPage
  BY <1>1 DEF OpenPage, ProviderOK
<1>2. CASE EnterAsGuest
  BY <1>2 DEF EnterAsGuest, ProviderOK
<1>3. CASE Authenticate
  <2> USE DEF Authenticate, authVars
  <2>1. CASE chain' = <<>>
    BY <1>3, <2>1 DEF ProviderOK
  <2>2. CASE chain' # <<>>
    <3>1. backend = "up" /\ PageProvider \in DOMAIN factories /\ chain' = Chain(PageProvider)
      BY <1>3, <2>2
    <3>2. /\ PageProvider \in config.providers
          /\ <<PageProvider, Environment>> \notin config.disabled
          /\ \A i \in 1 .. Len(chain') : chain'[i].resolver \in ResolversOf(PageProvider)
      BY <2>2, <3>1, ChainFacts DEF SignInInv
    <3>3. config.providers \ {"guest"} \subseteq KnownProviders
      BY <3>1 DEF SignInInv, BackendOK
    <3>4. /\ config' = config /\ PageProvider' = PageProvider /\ Environment' = Environment
          /\ Chain(PageProvider)' = Chain(PageProvider)
      BY <1>3 DEF PageProvider, Environment, Chain
    <3> QED
      BY <3>1, <3>2, <3>3, <3>4 DEF ProviderOK
  <2> QED
    BY <2>1, <2>2
<1>4. CASE SignInStep
  <2>1. UNCHANGED <<config, factories, chain>> /\ phase \in Resolving
    <3>1. CASE RejectClaim \/ RequestUser \/ UserFound \/ UserNotFound \/ UserAmbiguous \/ RequestFails
      BY <3>1 DEF RejectClaim, RequestUser, UserFound, UserNotFound, UserAmbiguous, RequestFails,
                  Throws, authVars
    <3>2. CASE SignInWithoutUser \/ OwnershipRejected \/ IssueToken
      BY <3>2 DEF SignInWithoutUser, OwnershipRejected, IssueToken, Issue, Throws, authVars
    <3>3. CASE ResolveOwnership
      BY <3>3 DEF ResolveOwnership, authVars, sessionVars
    <3> QED
      BY <1>4, <3>1, <3>2, <3>3 DEF SignInStep
  <2> QED
    BY <2>1, ProviderSame DEF SignInInv
<1>5. CASE ChangeGroups \/ RefreshUsers \/ Licensed
  <2>1. UNCHANGED <<config, factories, chain, phase>>
    BY <1>5 DEF ChangeGroups, RefreshUsers, Licensed, authVars, sessionVars
  <2> QED
    BY <2>1, ProviderSame DEF SignInInv
<1>6. CASE StartBackend
  <2>1. backend # "up" /\ UNCHANGED <<config, chain, phase>>
    BY <1>6 DEF StartBackend, RegisterProviders, CreateProviderRouters, sessionVars
  <2>2. phase \notin Resolving
    BY <2>1 DEF SignInInv, SessionInv, PhaseOK
  <2> QED
    BY <2>1, <2>2, ProviderSame DEF SignInInv
<1>7. CASE Restart
  <2>1. UNCHANGED <<config, chain>> /\ phase' = IF phase \in Resolving THEN "refused" ELSE phase
    BY <1>7 DEF Restart, sessionVars
  <2> QED
    BY <2>1, ProviderSame DEF SignInInv
<1> QED
  BY <1>1, <1>2, <1>3, <1>4, <1>5, <1>6, <1>7 DEF SignInNext

LEMMA SignInStepInv == SignInInv /\ [SignInNext]_allVars => SignInInv'
<1> SUFFICES ASSUME SignInInv, [SignInNext]_allVars
             PROVE  SignInInv'
  OBVIOUS
<1>1. RestOK'
  BY DEF SignInInv, RestOK, Unread
<1>2. CASE SignInNext
  BY <1>1, <1>2, BackendStep, LicensedUsersStep, GroupsStep, SessionStep, ProviderStep DEF SignInInv
<1>3. CASE UNCHANGED allVars
  <2>1. UNCHANGED <<authVars, groupVars, licensedVars, sessionVars>>
    BY <1>3 DEF allVars
  <2>2. SessionInv'
    BY <2>1, SessionSame DEF SignInInv, authVars, licensedVars, groupVars, SessionInv, PhaseOK
  <2>3. ProviderOK'
    BY <2>1, ProviderSame DEF SignInInv, authVars, sessionVars
  <2> QED
    BY <1>1, <2>1, <2>2, <2>3, AuthSame, LicensedSame, GroupsSame DEF SignInInv
<1> QED
  BY <1>2, <1>3

(* A sign-in at each of its awaits, with the resolution of groups, the     *)
(* backend and the licensed users around it.                               *)
THEOREM SignInAlways == SignInSpec => []SignInInv
BY SignInInitInv, SignInStepInv, PTL DEF SignInSpec

(* Page and auth module agree on who decides a sign-in: the page's own     *)
(* provider, configured and known with all the others and not disabled,    *)
(* by resolvers of its own, in a backend with the ownership's resolver.    *)
THEOREM SessionOKAlways == SignInSpec => []SessionOK
<1>1. ASSUME SignInInv
      PROVE  SessionOK
  <2>1. TypeOK /\ LicensedTypeOK
    BY <1>1 DEF SignInInv, IInv, LicensedInv
  <2>2. phase \in Resolving \cup {"signedIn"} => tried < Len(chain)
    BY <1>1 DEF SignInInv, SessionInv, PhaseOK, AttemptOK
  <2> QED
    BY <1>1, <2>1, <2>2
       DEF SignInInv, SessionInv, PhaseOK, UsersOK, BackendOK, ProviderOK, KnownProviders, SessionOK
<1> QED
  BY <1>1, SignInAlways, PTL

(* Whoever is signed in is who the identity provider says, through the     *)
(* first resolver of the chain that works unless a request has failed.     *)
THEOREM RightUserAlways == SignInSpec => []RightUser
<1>1. SignInInv => RightUser
  <2> SUFFICES ASSUME SignInInv, phase = "signedIn"
               PROVE  LET by == chain[tried + 1].resolver
                          users == {UserRef(u) : u \in Matching(by, profile, ever0)}
                      IN /\ signedAs \in users \/ chain[tried + 1].allowed
                         /\ by.claim \in {"sub", "ldap_uuid"} =>
                              ClaimOf(profile.idToken, by.claim) = ClaimOf(profile.userInfo, by.claim)
                         /\ fault \/ \A i \in 1 .. tried : ~Works(i)
    BY DEF RightUser
  <2>1. Verified(Attempt.resolver, profile) /\ Sound(Attempt.resolver)
    BY DEF SignInInv, SessionInv, AttemptOK, PhaseOK, ChainOK, Attempt
  <2>2. Attempt.resolver.claim \in {"sub", "ldap_uuid"} =>
          ClaimOf(profile.idToken, Attempt.resolver.claim)
            = ClaimOf(profile.userInfo, Attempt.resolver.claim)
    BY <2>1 DEF Verified, ValueFor, Sound
  <2>3. fault \/ \A i \in 1 .. tried : ~Works(i)
    BY DEF SignInInv, SessionInv, AttemptOK
  <2>4. \/ signedAs \in {UserRef(u) : u \in Matching(Attempt.resolver, profile, ever0)}
        \/ Attempt.allowed
    BY DEF SignInInv, SessionInv, AttemptOK
  <2> QED
    BY <2>2, <2>3, <2>4 DEF Attempt
<1> QED
  BY <1>1, SignInAlways, PTL

(* Whoever is refused is refused for a reason.                             *)
THEOREM RefusedWithReasonAlways == SignInSpec => []RefusedWithReason
BY SignInAlways, PTL DEF SignInInv, SessionInv

(* licensed-users-info-backend: time and profile are the user's own.       *)
THEOREM ListedRightAlways == SignInSpec => []ListedRight
<1>1. SignInInv => ListedRight
  BY LicensedRight DEF SignInInv
<1> QED
  BY <1>1, SignInAlways, PTL

(* The groups of every sign-in, however many there are, are complete and   *)
(* justified, and cycles of groups do not keep it from ending.             *)
THEOREM OwnershipAlways == SignInSpec => [](Complete /\ Justified /\ DepthBounded)
<1>1. SignInInv => Complete /\ Justified /\ DepthBounded
  BY DepthFromInv DEF SignInInv, IInv
<1> QED
  BY <1>1, SignInAlways, PTL
=============================================================================
