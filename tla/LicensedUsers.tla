---------------------------- MODULE LicensedUsers ----------------------------
(***************************************************************************)
(* licensed-users-info-backend: the list of the users who have signed in.  *)
(* It reads the table the auth backend writes on every sign-in, takes the  *)
(* time of a sign-in for the expiry of its token less the life of tokens   *)
(* as configured at present, and joins the profiles of the catalog, which  *)
(* is asked after the table was read.                                      *)
(***************************************************************************)
EXTENDS Naturals, FiniteSets

CONSTANTS
  People,        \* the user entities there may be, see below
  Crowds,        \* those the catalog has at first
  LowerCase,     \* names in lower case
  Expiries,      \* auth.backstageTokenExpiration, in milliseconds
  NotConfigured, \* or this, when the key is not there
  MsPerSecond, TokenExpMin, TokenExpMax, TokenExpDefault,
  MaxTime,       \* bound: sign-ins and restarts, each a second after the last
  MaxRefreshes   \* bound: changes of the users in the catalog

(* People are records: namespace and name, and the values the sign-in      *)
(* resolvers look them up by.                                              *)
ASSUME PeopleAssumption ==
  /\ IsFiniteSet(People) /\ Crowds \subseteq SUBSET People
  /\ \A u \in People : {"namespace", "name"} \subseteq DOMAIN u /\ u.name \in DOMAIN LowerCase
ASSUME ExpiryAssumption ==
  /\ Expiries \subseteq Nat /\ NotConfigured \notin Expiries
  /\ MsPerSecond \in Nat \ {0} /\ MaxTime \in Nat /\ MaxRefreshes \in Nat
  /\ {TokenExpMin, TokenExpMax} \subseteq Nat /\ TokenExpDefault \in TokenExpMin .. TokenExpMax

VARIABLES
  people,           \* the users in the catalog
  now,              \* seconds, one for each sign-in or restart
  refreshes,        \* changes of the users so far
  expiry,           \* auth.backstageTokenExpiration
  inMemory,         \* whether the database is SQLite in memory
  tokenExpiration,  \* what the router read when it was created
  userInfo,         \* the table user_info: ref -> expiry of the last token,
                    \* and for the properties when and for how long it was issued
  request,          \* "none", "permitted", "joining", "answered"
  rows,             \* userInfo as the request read it, with lastAuthTime
  peopleEver, peopleAlways  \* history: the users in the catalog since rows were read

licensedVars == <<people, now, refreshes, expiry, inMemory, tokenExpiration, userInfo, request,
                  rows, peopleEver, peopleAlways>>

NoRows == [ref \in {} |-> {}]

UserRef(u) == <<u.namespace, LowerCase[u.name]>>

\* Math.round
Rounded(ms) == (ms + MsPerSecond \div 2) \div MsPerSecond

\* Mutant: no expiry is too short.
ReadBackstageTokenExpirationUnclamped(configured) ==
  IF configured = NotConfigured THEN TokenExpDefault
  ELSE IF Rounded(configured) > TokenExpMax THEN TokenExpMax
  ELSE Rounded(configured)

(* readBackstageTokenExpiration                                            *)
ReadBackstageTokenExpiration(configured) ==
  IF configured = NotConfigured THEN TokenExpDefault
  ELSE IF Rounded(configured) < TokenExpMin THEN TokenExpMin
  ELSE IF Rounded(configured) > TokenExpMax THEN TokenExpMax
  ELSE Rounded(configured)

(* How long the auth backend lets a token live: the expiry in seconds,     *)
(* ten minutes at least and a day at most.                                 *)
TokenLife(configured) ==
  LET seconds == IF configured = NotConfigured THEN TokenExpDefault ELSE Rounded(configured)
      least == IF seconds < TokenExpMin THEN TokenExpMin ELSE seconds
  IN IF least > TokenExpMax THEN TokenExpMax ELSE least

Clients == {"pg", "better-sqlite3"}

(* SQLite without a directory for its files.                               *)
IsSqliteInMemory(client, directory) == client \in {"sqlite3", "better-sqlite3"} /\ ~directory

LicensedInit ==
  /\ people \in Crowds
  /\ now = 0 /\ refreshes = 0
  /\ expiry \in Expiries \cup {NotConfigured}
  /\ \E client \in Clients, directory \in BOOLEAN :
       inMemory = IsSqliteInMemory(client, directory)
  /\ tokenExpiration = ReadBackstageTokenExpiration(expiry)
  /\ userInfo = NoRows
  /\ request = "none" /\ rows = NoRows
  /\ peopleEver = people /\ peopleAlways = people

-----------------------------------------------------------------------------
(* The auth backend issues a token and records the user.                   *)
Recorded(ref) ==
  userInfo' = [r \in DOMAIN userInfo \cup {ref} |->
                 IF r = ref
                 THEN [exp |-> now + TokenLife(expiry), issued |-> now, life |-> TokenLife(expiry)]
                 ELSE userInfo[r]]

(* A provider of users refreshes the catalog.                              *)
ChangePeople ==
  /\ refreshes < MaxRefreshes /\ refreshes' = refreshes + 1
  /\ \E u \in People : people' = IF u \in people THEN people \ {u} ELSE people \cup {u}
  /\ peopleEver' = peopleEver \cup people'
  /\ peopleAlways' = peopleAlways \cap people'
  /\ UNCHANGED <<now, expiry, inMemory, tokenExpiration, userInfo, request, rows>>

TimePasses ==
  /\ now < MaxTime /\ now' = now + 1
  /\ UNCHANGED <<people, refreshes, expiry, inMemory, tokenExpiration, userInfo, request, rows,
                 peopleEver, peopleAlways>>

(* createRouter: the expiry is read once; with a database in memory the    *)
(* router has no routes.                                                   *)
CreateRouter ==
  /\ tokenExpiration' = ReadBackstageTokenExpiration(expiry')
  /\ request' = "none" /\ rows' = NoRows

(* The backend is restarted, with an expiry that may be another. What was  *)
(* in memory is gone.                                                      *)
RestartRouter ==
  /\ now < MaxTime /\ now' = now + 1
  /\ expiry' \in Expiries \cup {NotConfigured}
  /\ CreateRouter
  /\ userInfo' = IF inMemory THEN NoRows ELSE userInfo
  /\ UNCHANGED <<people, refreshes, inMemory, peopleEver, peopleAlways>>

(* GET /users. permissionCheck refuses only a decision to deny: one with   *)
(* conditions is as good as one to allow. A refusal, or the missing route  *)
(* of a database in memory, changes nothing. (Bound: one request for each  *)
(* start of the backend.)                                                  *)
GetUsers(decision) ==
  /\ request = "none" /\ ~inMemory
  /\ decision # "DENY"
  /\ request' = "permitted"
  /\ UNCHANGED <<people, now, refreshes, expiry, inMemory, tokenExpiration, userInfo, rows,
                 peopleEver, peopleAlways>>

(* rowToResponse *)
RowToResponse(row) ==
  [lastAuthTime |-> row.exp - tokenExpiration, profile |-> {}, row |-> row]

(* getListUsers, and the rows turned into the response.                    *)
GetListUsers ==
  /\ request = "permitted"
  /\ request' = "joining"
  /\ rows' = [ref \in DOMAIN userInfo |-> RowToResponse(userInfo[ref])]
  /\ peopleEver' = people /\ peopleAlways' = people
  /\ UNCHANGED <<people, now, refreshes, expiry, inMemory, tokenExpiration, userInfo>>

(* getUserEntities asks for no namespace: each entity is kept under the    *)
(* ref its name has in the default one, the last of a name alone.          *)
EntityRef(u) == <<"default", LowerCase[u.name]>>

(* The reply of the catalog is joined and the response sent.               *)
JoinProfiles ==
  /\ request = "joining"
  /\ \E entityMap \in [{EntityRef(u) : u \in people} -> people] :
       /\ \A ref \in DOMAIN entityMap : EntityRef(entityMap[ref]) = ref
       /\ rows' = [ref \in DOMAIN rows |->
                     IF ref \in DOMAIN entityMap
                     THEN [rows[ref] EXCEPT !.profile = {entityMap[ref]}]
                     ELSE rows[ref]]
  /\ request' = "answered"
  /\ UNCHANGED <<people, now, refreshes, expiry, inMemory, tokenExpiration, userInfo,
                 peopleEver, peopleAlways>>

LicensedNext ==
  \/ \E d \in {"ALLOW", "DENY", "CONDITIONAL"} : GetUsers(d)
  \/ GetListUsers \/ JoinProfiles

-----------------------------------------------------------------------------
LicensedTypeOK ==
  /\ people \subseteq People /\ now \in 0 .. MaxTime /\ refreshes \in 0 .. MaxRefreshes
  /\ expiry \in Expiries \cup {NotConfigured} /\ tokenExpiration \in Nat
  /\ request \in {"none", "permitted", "joining", "answered"}
  /\ DOMAIN rows \subseteq DOMAIN userInfo
  /\ peopleAlways \subseteq people /\ people \subseteq peopleEver

(* The list that is sent: everyone in it signed in at the time it names,   *)
(* unless the life of tokens was another then; the profile is that of a    *)
(* user of this name, of the user itself if no other namespace has a       *)
(* namesake, and is there when the user was in the catalog throughout.     *)
ListedRight ==
  request = "answered" =>
    \A ref \in DOMAIN rows :
      LET listed == rows[ref]
          own == {u \in People : UserRef(u) = ref}
          namesakes == {u \in peopleEver : LowerCase[u.name] = ref[2]} \ own
      IN /\ listed.row.life = TokenLife(expiry) => listed.lastAuthTime = listed.row.issued
         /\ listed.profile \subseteq peopleEver
         /\ namesakes = {} => listed.profile \subseteq own
         /\ ref[1] = "default" /\ own \cap peopleAlways # {} => listed.profile # {}
=============================================================================
