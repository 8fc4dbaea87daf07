---------------------------- MODULE OAuthTokens ----------------------------
(***************************************************************************)
(* The OAuth tokens of the server (internal/db/store.go, the handlers in    *)
(* internal/api/router.go): authorization codes, the exchange of a code for *)
(* a token pair, the refresh of a pair, implicit tokens, revocation, and    *)
(* the deletion of an application with all it has.                          *)
(*                                                                          *)
(* A handler reads a code or a token first and opens a transaction later.   *)
(* A transaction is two steps: its statements, which see what is committed, *)
(* and its commit.  Times are abstracted to whether a code or a token has   *)
(* expired, and secrets and hashes to the row they identify.  The limiter of *)
(* token requests writes its answer but does not end the handler, so it is  *)
(* no guard here.                                                           *)
(***************************************************************************)
EXTENDS Integers, FiniteSets

CONSTANTS
    Apps, Users,
    Scopes,     \* the scopes there are
    Covers,     \* Covers[s]: s and the scopes "s." prefixes
    Registered, \* Registered[a]: the scopes of application a
    Codes,      \* authorization codes that can be issued
    MaxTokens,  \* bound on the tokens inserted
    Keep,       \* tokens kept for each application and user: 8
    Handlers,   \* requests the server works on at a time
    None        \* no code, token, application or user

TokenIds == 1 .. MaxTokens

ASSUME TokensAssumption ==
    /\ Covers \in [Scopes -> SUBSET Scopes]
    /\ \A s \in Scopes :
        s \in Covers[s] /\ \A t \in Covers[s] : Covers[t] \subseteq Covers[s]
    /\ Registered \in [Apps -> SUBSET Scopes]
    /\ MaxTokens \in Nat /\ Keep \in Nat \ {0}
    /\ None \notin Apps \cup Users \cup Codes \cup TokenIds

VARIABLES
    apps,     \* the applications that exist
    codes,    \* the codes in the table, by code
    used,     \* codes with used_at
    tokens,   \* the tokens in the table, by id in the order of created_at
    revoked,  \* tokens with revoked_at
    lapsed,   \* <<"code", c>> and <<"token", t>> past their expires_at
    next,     \* the next token id
    handler,  \* what each handler is doing
    doubled,    \* history: tokens two refreshes had read at the same time
    crowded,  \* history: <<application, user>> whose last insertions overlapped
    quiet     \* history: tokens whose revocation was answered, no refresh under way

tokenVars == <<apps, codes, used, tokens, revoked, lapsed, next, handler, doubled,
               crowded, quiet>>

Grant == [app : Apps, user : Users, scopes : SUBSET Scopes]

Idle == [at |-> "idle", code |-> None, token |-> None, new |-> None,
         cut |-> {}, alone |-> FALSE]

\* What a token was made from, and for whom.
Token == [app : Apps, user : Users, scopes : SUBSET Scopes, code : Codes \cup {None},
          token : TokenIds \cup {None}, refresh : BOOLEAN, committed : BOOLEAN]

TokenStages == {"idle", "code", "exchanging", "refresh", "refreshing", "inserted", "untrimmed",
           "revoking"}

TokensTypeOK ==
    /\ apps \subseteq Apps
    /\ DOMAIN codes \subseteq Codes /\ \A c \in DOMAIN codes : codes[c] \in Grant
    /\ used \subseteq Codes
    /\ DOMAIN tokens \subseteq TokenIds
    /\ \A t \in DOMAIN tokens :
        tokens[t] \in Token /\ None \in {tokens[t].code, tokens[t].token}
    /\ revoked \subseteq TokenIds
    /\ lapsed \subseteq ({"code"} \X Codes) \cup ({"token"} \X TokenIds)
    /\ next \in 1 .. MaxTokens + 1
    /\ handler \in [Handlers -> [at : TokenStages, code : Codes \cup {None},
                                 token : TokenIds \cup {None}, new : TokenIds \cup {None},
                                 cut : SUBSET TokenIds, alone : BOOLEAN]]
    /\ doubled \subseteq TokenIds /\ quiet \subseteq TokenIds
    /\ crowded \subseteq Apps \X Users

TokensInit ==
    /\ apps = Apps
    /\ codes = [c \in {} |-> None] /\ used = {}
    /\ tokens = [t \in {} |-> None] /\ revoked = {}
    /\ lapsed = {} /\ next = 1
    /\ handler = [h \in Handlers |-> Idle]
    /\ doubled = {} /\ crowded = {} /\ quiet = {}

-----------------------------------------------------------------------------
(* What a token allows.                                                     *)

\* HasScope: the scope itself or a shorter one that it begins with.
Allowed(scopes) == UNION {Covers[s] : s \in scopes}

OAuthAppAllowsScope(registered, requested) ==
    \E s \in registered : s = requested \/ requested \in Covers[s]

-----------------------------------------------------------------------------
(* The user decides.                                                        *)

ValidRequest(a, scopes) ==
    a \in apps /\ \A s \in scopes : OAuthAppAllowsScope(Registered[a], s)

\* Without scopes the request is for the application's.
Requested(a, scopes) == IF scopes = {} THEN Registered[a] ELSE scopes

AuthorizeCode(a, u, scopes, c) ==
    /\ ValidRequest(a, scopes)
    /\ c \notin DOMAIN codes \cup used /\ <<"code", c>> \notin lapsed
    /\ codes' = [x \in DOMAIN codes \cup {c} |->
            IF x = c THEN [app |-> a, user |-> u, scopes |-> Requested(a, scopes)]
            ELSE codes[x]]
    /\ UNCHANGED <<apps, used, tokens, revoked, lapsed, next, handler, doubled, crowded, quiet>>

-----------------------------------------------------------------------------
(* Insertion of a token.                                                    *)

Visible == {t \in DOMAIN tokens : tokens[t].committed}
Live == Visible \ revoked
Of(set, a, u) == {t \in set : tokens[t].app = a /\ tokens[t].user = u}

\* Handlers with an insertion of the pair that is not finished.
Inserting(a, u) ==
    {h \in Handlers : /\ handler[h].at \in {"inserted", "untrimmed"}
                      /\ handler[h].new \in DOMAIN tokens
                      /\ tokens[handler[h].new].app = a /\ tokens[handler[h].new].user = u}

\* Mutant: the statement keeps one more.
BeyondPlusOne(set) == {t \in set : Cardinality({s \in set : s >= t}) > Keep + 1}

\* All but the newest.
Beyond(set) == {t \in set : Cardinality({s \in set : s >= t}) > Keep}

\* Handler h inserts the next token, which others see once it is committed,
\* and overlaps with the insertions that are not finished; cut is what its
\* transaction revokes.
InsertToken(h, token, stage, cut) ==
    /\ next <= MaxTokens
    /\ token.app \in apps
    /\ LET others == Inserting(token.app, token.user) \ {h} IN
       /\ tokens' = [t \in DOMAIN tokens \cup {next} |-> IF t = next THEN token ELSE tokens[t]]
       /\ next' = next + 1
       /\ handler' = [x \in Handlers |->
            IF x = h THEN [handler[h] EXCEPT
                !.at = stage, !.new = next, !.cut = cut, !.alone = (others = {})]
            ELSE IF x \in others THEN [handler[x] EXCEPT !.alone = FALSE]
            ELSE handler[x]]

\* The insertion of handler h is finished.
Inserted(h, a, u) ==
    crowded' = IF handler[h].alone THEN crowded \ {<<a, u>>} ELSE crowded \cup {<<a, u>>}

\* An implicit token: two statements without a transaction.
ImplicitToken(h, a, u, scopes) ==
    /\ handler[h].at = "idle"
    /\ ValidRequest(a, scopes)
    /\ InsertToken(h, [app |-> a, user |-> u, scopes |-> Requested(a, scopes), code |-> None,
                  token |-> None, refresh |-> FALSE, committed |-> TRUE], "untrimmed", {})
    /\ UNCHANGED <<apps, codes, used, revoked, lapsed, doubled, crowded, quiet>>

TrimImplicit(h) ==
    LET new == handler[h].new IN
    /\ handler[h].at = "untrimmed"
    /\ handler' = [handler EXCEPT ![h] = Idle]
    /\ IF new \in DOMAIN tokens
       THEN /\ revoked' = revoked \cup Beyond(Of(Live, tokens[new].app, tokens[new].user))
            /\ Inserted(h, tokens[new].app, tokens[new].user)
       ELSE UNCHANGED <<revoked, crowded>>
    /\ UNCHANGED <<apps, codes, used, tokens, lapsed, next, doubled, quiet>>

-----------------------------------------------------------------------------
(* The token endpoint.                                                      *)

Open(c) == c \in DOMAIN codes /\ c \notin used /\ <<"code", c>> \notin lapsed

\* Mutant: a revoked token can still be refreshed.
RefreshableEvenRevoked(t) == t \in Visible /\ tokens[t].refresh /\ <<"token", t>> \notin lapsed

Refreshable(t) == t \in Live /\ tokens[t].refresh /\ <<"token", t>> \notin lapsed

\* OAuthAuthorizationCodeUserID and OAuthRefreshTokenUserID.
StartExchange(h, c) ==
    /\ handler[h].at = "idle" /\ Open(c)
    /\ handler' = [handler EXCEPT ![h] = [Idle EXCEPT !.at = "code", !.code = c]]
    /\ UNCHANGED <<apps, codes, used, tokens, revoked, lapsed, next, doubled, crowded, quiet>>

StartRefresh(h, t) ==
    /\ handler[h].at = "idle" /\ Refreshable(t)
    /\ handler' = [handler EXCEPT ![h] = [Idle EXCEPT !.at = "refresh", !.token = t]]
    /\ UNCHANGED <<apps, codes, used, tokens, revoked, lapsed, next, doubled, crowded, quiet>>

\* The code or token is read again; without it the answer is invalid_grant.
SelectCode(h) ==
    /\ handler[h].at = "code"
    /\ handler' = [handler EXCEPT ![h] =
            IF Open(handler[h].code) THEN [handler[h] EXCEPT !.at = "exchanging"] ELSE Idle]
    /\ UNCHANGED <<apps, codes, used, tokens, revoked, lapsed, next, doubled, crowded, quiet>>

\* The handlers that have read token t and not finished its refresh.
Refreshing(t) ==
    {h \in Handlers : handler[h].at \in {"refreshing", "inserted"} /\ handler[h].token = t}

SelectToken(h) ==
    LET t == handler[h].token IN
    /\ handler[h].at = "refresh"
    /\ IF Refreshable(t)
       THEN /\ handler' = [handler EXCEPT ![h].at = "refreshing"]
            /\ doubled' = IF Refreshing(t) = {} THEN doubled ELSE doubled \cup {t}
       ELSE handler' = [handler EXCEPT ![h] = Idle] /\ UNCHANGED doubled
    /\ UNCHANGED <<apps, codes, used, tokens, revoked, lapsed, next, crowded, quiet>>

\* The row of a code or a token is locked by the transaction that updates it.
Locked(row) ==
    \E h \in Handlers : handler[h].at = "inserted" /\ row \in {handler[h].code, handler[h].token}

\* Mutant: the update does not look at used_at again.
ClaimableEvenUsed(c) == c \in DOMAIN codes

Claimable(c) == c \in DOMAIN codes /\ c \notin used

\* Mutant: the old token of a refresh stays.
KeptOld(t) == {}

Old(t) == {t}

\* The transaction of an exchange: it waits for another's update of the code
\* and ends if the code has been used meanwhile.
ExchangeCode(h) ==
    LET c == handler[h].code IN
    /\ handler[h].at = "exchanging" /\ ~Locked(c)
    /\ IF Claimable(c)
       THEN InsertToken(h, [app |-> codes[c].app, user |-> codes[c].user,
                       scopes |-> codes[c].scopes, code |-> c, token |-> None,
                       refresh |-> TRUE, committed |-> FALSE], "inserted",
                   Beyond({next} \cup Of(Live, codes[c].app, codes[c].user)))
       ELSE handler' = [handler EXCEPT ![h] = Idle] /\ UNCHANGED <<tokens, next>>
    /\ UNCHANGED <<apps, codes, used, revoked, lapsed, doubled, crowded, quiet>>

Renewed(t) == [tokens[t] EXCEPT !.code = None, !.token = t, !.committed = FALSE]

\* The transaction of a refresh: the update of the old token looks at nothing
\* but its id; the insertion fails if the application is gone.
RefreshToken(h) ==
    LET t == handler[h].token IN
    /\ handler[h].at = "refreshing" /\ ~Locked(t)
    /\ IF t \in DOMAIN tokens
       THEN InsertToken(h, Renewed(t), "inserted",
                   Old(t) \cup Beyond({next} \cup
                       (Of(Live, tokens[t].app, tokens[t].user) \ Old(t))))
       ELSE handler' = [handler EXCEPT ![h] = Idle] /\ UNCHANGED <<tokens, next>>
    /\ UNCHANGED <<apps, codes, used, revoked, lapsed, doubled, crowded, quiet>>

\* Commit: others see the new token, the use of its code and what was cut.
CommitToken(h) ==
    LET new == handler[h].new IN
    /\ handler[h].at = "inserted"
    /\ tokens' = [tokens EXCEPT ![new].committed = TRUE]
    /\ used' = used \cup ({handler[h].code} \ {None})
    /\ revoked' = revoked \cup handler[h].cut
    /\ handler' = [handler EXCEPT ![h] = Idle]
    /\ Inserted(h, tokens[new].app, tokens[new].user)
    /\ UNCHANGED <<apps, codes, lapsed, next, doubled, quiet>>

\* The database fails, the client is gone or the server stops: a transaction
\* is rolled back; an implicit token is in the table already.
AbortToken(h) ==
    LET new == handler[h].new IN
    /\ handler[h].at # "idle"
    /\ handler' = [handler EXCEPT ![h] = Idle]
    /\ IF handler[h].at = "inserted"
       THEN /\ tokens' = [t \in DOMAIN tokens \ {new} |-> tokens[t]]
            /\ UNCHANGED crowded
       ELSE /\ UNCHANGED tokens
            /\ crowded' = IF handler[h].at = "untrimmed" /\ new \in DOMAIN tokens
                          THEN crowded \cup {<<tokens[new].app, tokens[new].user>>}
                          ELSE crowded
    /\ UNCHANGED <<apps, codes, used, revoked, lapsed, next, doubled, quiet>>

-----------------------------------------------------------------------------
(* Revocation, deletion and time.                                           *)

StartRevoke(h, t) ==
    /\ handler[h].at = "idle" /\ t \in Live
    /\ handler' = [handler EXCEPT ![h] = [Idle EXCEPT !.at = "revoking", !.token = t]]
    /\ UNCHANGED <<apps, codes, used, tokens, revoked, lapsed, next, doubled, crowded, quiet>>

RevokeToken(h) ==
    LET t == handler[h].token IN
    /\ handler[h].at = "revoking" /\ ~Locked(t)
    /\ revoked' = revoked \cup ({t} \cap DOMAIN tokens)
    /\ handler' = [handler EXCEPT ![h] = Idle]
    /\ quiet' = IF Refreshing(t) = {} THEN quiet \cup {t} ELSE quiet
    /\ UNCHANGED <<apps, codes, used, tokens, lapsed, next, doubled, crowded>>

\* A transaction that has inserted a token holds the row of its application.
Referred(a) == \E u \in Users : \E h \in Inserting(a, u) : handler[h].at = "inserted"

\* The deletion cascades to what is committed; it waits for the transactions
\* that hold the row.
DeleteApp(a) ==
    /\ a \in apps /\ ~Referred(a)
    /\ apps' = apps \ {a}
    /\ codes' = [c \in {c \in DOMAIN codes : codes[c].app # a} |-> codes[c]]
    /\ used' = used \cup {c \in DOMAIN codes : codes[c].app = a}
    /\ tokens' = [t \in {t \in DOMAIN tokens : t \notin Visible \/ tokens[t].app # a} |->
                    tokens[t]]
    /\ UNCHANGED <<revoked, lapsed, next, handler, doubled, crowded, quiet>>

\* Ten minutes for a code, the time to live for a token.
Lapse ==
    /\ \E x \in ({"code"} \X DOMAIN codes) \cup ({"token"} \X Visible) :
        x \notin lapsed /\ lapsed' = lapsed \cup {x}
    /\ UNCHANGED <<apps, codes, used, tokens, revoked, next, handler, doubled, crowded, quiet>>

HandlerStep(h) ==
    \/ SelectCode(h) \/ SelectToken(h) \/ ExchangeCode(h) \/ RefreshToken(h)
    \/ CommitToken(h) \/ TrimImplicit(h) \/ RevokeToken(h)

TokensNext ==
    \/ \E a \in Apps, u \in Users, scopes \in SUBSET Scopes :
        \/ \E c \in Codes : AuthorizeCode(a, u, scopes, c)
        \/ \E h \in Handlers : ImplicitToken(h, a, u, scopes)
    \/ \E h \in Handlers :
        \/ \E c \in Codes : StartExchange(h, c)
        \/ \E t \in TokenIds : StartRefresh(h, t) \/ StartRevoke(h, t)
        \/ HandlerStep(h) \/ AbortToken(h)
    \/ \E a \in Apps : DeleteApp(a)
    \/ Lapse

TokensSpec == TokensInit /\ [][TokensNext]_tokenVars

-----------------------------------------------------------------------------
(* Properties.                                                              *)

\* A code gives at most one token, whatever exchanges of it overlap.
CodeOnce ==
    \A s, t \in DOMAIN tokens :
        s # t /\ tokens[s].code # None => tokens[s].code # tokens[t].code

\* A refresh token is replaced once, unless two refreshes had read it at the
\* same time.
ReplacedOnceUnlessRaced ==
    \A s, t \in DOMAIN tokens :
        s # t /\ tokens[s].token # None /\ tokens[s].token = tokens[t].token =>
            tokens[s].token \in doubled

\* An application has at most Keep live tokens of a user, unless insertions
\* overlapped or one was cut short: the next one that runs alone mends that.
KeptUnlessCrowded ==
    \A a \in Apps, u \in Users :
        \/ Cardinality(Of(Live, a, u)) <= Keep
        \/ <<a, u>> \in crowded
        \/ \E h \in Inserting(a, u) : handler[h].at = "untrimmed"

\* Nothing refers to an application that was deleted.
NothingOfDeletedApps ==
    /\ \A t \in DOMAIN tokens : tokens[t].app \in apps
    /\ \A c \in DOMAIN codes : codes[c].app \in apps

\* A token allows nothing its application is not registered for, through any
\* chain of refreshes.
AllowedWasRegistered ==
    \A t \in DOMAIN tokens : Allowed(tokens[t].scopes) \subseteq Allowed(Registered[tokens[t].app])

Successors(t) == {s \in DOMAIN tokens : tokens[s].token = t}

\* A token whose revocation has been answered while no refresh of it was under
\* way has no new successor.
RevokedHasNoSuccessor == [][\A t \in quiet : Successors(t)' \subseteq Successors(t)]_tokenVars
=============================================================================
