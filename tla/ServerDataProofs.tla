-------------------------- MODULE ServerDataProofs --------------------------
(***************************************************************************)
(* Proofs about OAuthTokens and ViewCaches, for every number of             *)
(* applications, users, codes and overlapping requests, and every bound on  *)
(* the tokens, the entries and the times to live.                           *)
(***************************************************************************)
EXTENDS OAuthTokens, ViewCaches, FiniteSetTheorems, WellFoundedInduction, TLAPS

\* What a handler holds fits what it is doing: a transaction that has inserted
\* a token holds its row, which nobody else sees, and revokes what the token
\* replaces.
HandlerFits(h) ==
    /\ handler[h].at \in {"code", "exchanging"} =>
          handler[h].code \in Codes /\ handler[h].token = None
    /\ handler[h].at \in {"refresh", "refreshing", "revoking"} =>
          /\ handler[h].token \in TokenIds /\ handler[h].code = None
          /\ handler[h].token < next
    /\ handler[h].at = "inserted" =>
          /\ handler[h].new \in DOMAIN tokens
          /\ ~tokens[handler[h].new].committed
          /\ tokens[handler[h].new].code = handler[h].code
          /\ tokens[handler[h].new].token = handler[h].token
          /\ handler[h].token # None => handler[h].token \in handler[h].cut
    /\ handler[h].at = "untrimmed" =>
          /\ handler[h].new \in TokenIds /\ handler[h].new < next
          /\ handler[h].new \in DOMAIN tokens => tokens[handler[h].new].committed

\* No two transactions insert the same token.
NewsApart ==
    \A g, h \in Handlers :
        /\ handler[g].at = "inserted" /\ handler[h].at = "inserted"
        /\ handler[g].new = handler[h].new
        => g = h

\* A token others do not see yet is some transaction's; a code that a token
\* others see was made from is used.
TokenFits(t) ==
    /\ t < next
    /\ ~tokens[t].committed =>
          \E h \in Handlers : handler[h].at = "inserted" /\ handler[h].new = t
    /\ tokens[t].committed /\ tokens[t].code # None => tokens[t].code \in used

\* A code grants nothing its application is not registered for.
CodesWereRegistered ==
    \A c \in DOMAIN codes : Allowed(codes[c].scopes) \subseteq Allowed(Registered[codes[c].app])

\* A token that is not refreshed twice at a time is refreshed by one handler,
\* and by none once it was replaced.
RefreshedOnce(r) ==
    r \notin doubled =>
        /\ \A g, h \in Refreshing(r) : g = h
        /\ \A s \in DOMAIN tokens :
              tokens[s].token = r /\ tokens[s].committed => r \in revoked /\ Refreshing(r) = {}

\* A token whose revocation was answered in quiet is not refreshed.
QuietFits(t) ==
    /\ t < next
    /\ Refreshing(t) = {}
    /\ t \in DOMAIN tokens => t \in revoked

TokensInv ==
    /\ TokensTypeOK
    /\ \A h \in Handlers : HandlerFits(h)
    /\ NewsApart
    /\ \A t \in DOMAIN tokens : TokenFits(t)
    /\ CodeOnce
    /\ NothingOfDeletedApps
    /\ CodesWereRegistered
    /\ AllowedWasRegistered
    /\ \A r \in TokenIds : RefreshedOnce(r)
    /\ ReplacedOnceUnlessRaced
    /\ \A t \in quiet : QuietFits(t)

HandlerRecords == [at : TokenStages, code : Codes \cup {None},
                   token : TokenIds \cup {None}, new : TokenIds \cup {None},
                   cut : SUBSET TokenIds, alone : BOOLEAN]

-----------------------------------------------------------------------------
(* Types.                                                                   *)

LEMMA TokensTypeInit == TokensInit => TokensTypeOK
<1>1. Idle \in HandlerRecords
    BY DEF Idle, HandlerRecords, TokenStages
<1> QED
    BY <1>1, TokensAssumption DEF TokensInit, TokensTypeOK, HandlerRecords, Grant

\* What is read, requested and copied is well typed.
LEMMA Reads ==
    ASSUME TokensTypeOK
    PROVE  /\ Idle \in HandlerRecords
           /\ \A h \in Handlers : handler[h] \in HandlerRecords
           /\ \A c \in DOMAIN codes : codes[c] \in Grant
           /\ \A t \in DOMAIN tokens : t \in TokenIds /\ tokens[t] \in Token
           /\ \A a \in Apps : \A scopes \in SUBSET Scopes : Requested(a, scopes) \in SUBSET Scopes
           /\ \A set \in SUBSET TokenIds : Beyond(set) \in SUBSET TokenIds
           /\ Live \subseteq TokenIds /\ Visible \subseteq DOMAIN tokens
           /\ next \in Nat
<1>1. Idle \in HandlerRecords
    BY DEF Idle, HandlerRecords, TokenStages
<1>2. \A a \in Apps : \A scopes \in SUBSET Scopes : Requested(a, scopes) \in SUBSET Scopes
    BY TokensAssumption DEF Requested
<1>3. Live \subseteq TokenIds /\ Visible \subseteq DOMAIN tokens
    BY DEF Live, Visible, TokensTypeOK
<1>4. \A set \in SUBSET TokenIds : Beyond(set) \in SUBSET TokenIds
    BY DEF Beyond
<1>5. next \in Nat
    BY TokensAssumption DEF TokensTypeOK
<1> QED
    BY <1>1, <1>2, <1>3, <1>4, <1>5 DEF TokensTypeOK, HandlerRecords

\* Setting the record of a handler.
LEMMA HandlerType ==
    ASSUME handler \in [Handlers -> HandlerRecords], NEW h \in Handlers,
           NEW r \in HandlerRecords
    PROVE  [handler EXCEPT ![h] = r] \in [Handlers -> HandlerRecords]
OBVIOUS

\* There is room for the token that is inserted.
LEMMA InsertNext ==
    ASSUME TokensTypeOK, NEW h, NEW token, NEW stage, NEW cut,
           InsertToken(h, token, stage, cut)
    PROVE  next \in TokenIds
<1>1. next \in 1 .. MaxTokens + 1 /\ next <= MaxTokens
    BY DEF TokensTypeOK, InsertToken
<1> QED
    BY <1>1, TokensAssumption DEF TokenIds

\* An insertion keeps the types.
LEMMA InsertType ==
    ASSUME TokensTypeOK, NEW h \in Handlers, NEW token \in Token,
           NEW stage \in TokenStages, NEW cut \in SUBSET TokenIds,
           None \in {token.code, token.token},
           InsertToken(h, token, stage, cut)
    PROVE  /\ next \in TokenIds
           /\ DOMAIN tokens' \subseteq TokenIds
           /\ \A t \in DOMAIN tokens' :
                 tokens'[t] \in Token /\ None \in {tokens'[t].code, tokens'[t].token}
           /\ next' \in 1 .. MaxTokens + 1
           /\ handler' \in [Handlers -> HandlerRecords]
<1>0. next \in 1 .. MaxTokens + 1 /\ next <= MaxTokens /\ next' = next + 1
    BY DEF TokensTypeOK, InsertToken
<1>1. next \in TokenIds /\ next' \in 1 .. MaxTokens + 1
    BY <1>0, TokensAssumption DEF TokenIds
<1>2. /\ DOMAIN tokens' = DOMAIN tokens \cup {next}
      /\ \A t \in DOMAIN tokens' : tokens'[t] = IF t = next THEN token ELSE tokens[t]
    BY DEF InsertToken
<1>3. handler' \in [Handlers -> HandlerRecords]
    <2> DEFINE others == Inserting(token.app, token.user) \ {h}
    <2>1. handler' = [x \in Handlers |->
            IF x = h THEN [handler[h] EXCEPT
                !.at = stage, !.new = next, !.cut = cut, !.alone = (others = {})]
            ELSE IF x \in others THEN [handler[x] EXCEPT !.alone = FALSE]
            ELSE handler[x]]
        BY DEF InsertToken
    <2> HIDE DEF others
    <2>2. \A x \in Handlers : handler[x] \in HandlerRecords
        BY Reads
    <2>3. [handler[h] EXCEPT !.at = stage, !.new = next, !.cut = cut, !.alone = (others = {})]
            \in HandlerRecords
        BY <1>1, <2>2 DEF HandlerRecords
    <2>4. \A x \in Handlers : [handler[x] EXCEPT !.alone = FALSE] \in HandlerRecords
        BY <2>2 DEF HandlerRecords
    <2> QED
        BY <2>1, <2>2, <2>3, <2>4
<1> QED
    BY <1>1, <1>2, <1>3 DEF TokensTypeOK

\* The steps of the user, of revocation and of time.
LEMMA TokensTypeOther ==
    ASSUME TokensTypeOK
    PROVE  /\ \A a \in Apps, u \in Users, scopes \in SUBSET Scopes, c \in Codes :
                 AuthorizeCode(a, u, scopes, c) => TokensTypeOK'
           /\ \A h \in Handlers, c \in Codes : StartExchange(h, c) => TokensTypeOK'
           /\ \A h \in Handlers, t \in TokenIds :
                 StartRefresh(h, t) \/ StartRevoke(h, t) => TokensTypeOK'
           /\ \A a \in Apps : DeleteApp(a) => TokensTypeOK'
           /\ Lapse => TokensTypeOK'
<1>1. ASSUME NEW a \in Apps, NEW u \in Users, NEW scopes \in SUBSET Scopes, NEW c \in Codes,
             AuthorizeCode(a, u, scopes, c)
      PROVE  TokensTypeOK'
    <2>1. Requested(a, scopes) \in SUBSET Scopes
        BY Reads
    <2>2. [app |-> a, user |-> u, scopes |-> Requested(a, scopes)] \in Grant
        BY <2>1 DEF Grant
    <2>3. /\ DOMAIN codes' \subseteq Codes
          /\ \A x \in DOMAIN codes' : codes'[x] \in Grant
        BY <1>1, <2>2 DEF AuthorizeCode, TokensTypeOK
    <2> QED
        BY <1>1, <2>3 DEF AuthorizeCode, TokensTypeOK
<1>2. ASSUME NEW h \in Handlers, NEW c \in Codes, StartExchange(h, c)
      PROVE  TokensTypeOK'
    <2>1. [Idle EXCEPT !.at = "code", !.code = c] \in HandlerRecords
        BY DEF Idle, HandlerRecords, TokenStages
    <2>2. handler' \in [Handlers -> HandlerRecords]
        BY <1>2, <2>1 DEF StartExchange, TokensTypeOK, HandlerRecords
    <2> QED
        BY <1>2, <2>2 DEF StartExchange, TokensTypeOK, HandlerRecords
<1>3. ASSUME NEW h \in Handlers, NEW t \in TokenIds, StartRefresh(h, t) \/ StartRevoke(h, t)
      PROVE  TokensTypeOK'
    <2>1. /\ [Idle EXCEPT !.at = "refresh", !.token = t] \in HandlerRecords
          /\ [Idle EXCEPT !.at = "revoking", !.token = t] \in HandlerRecords
        BY DEF Idle, HandlerRecords, TokenStages
    <2>2. handler' \in [Handlers -> HandlerRecords]
        BY <1>3, <2>1 DEF StartRefresh, StartRevoke, TokensTypeOK, HandlerRecords
    <2> QED
        BY <1>3, <2>2 DEF StartRefresh, StartRevoke, TokensTypeOK, HandlerRecords
<1>4. ASSUME NEW a \in Apps, DeleteApp(a)
      PROVE  TokensTypeOK'
    <2>1. /\ DOMAIN codes' \subseteq DOMAIN codes
          /\ \A c \in DOMAIN codes' : codes'[c] = codes[c]
        BY <1>4 DEF DeleteApp
    <2>2. /\ DOMAIN tokens' \subseteq DOMAIN tokens
          /\ \A t \in DOMAIN tokens' : tokens'[t] = tokens[t]
        BY <1>4 DEF DeleteApp
    <2>3. apps' \subseteq Apps /\ used' \subseteq Codes
        BY <1>4 DEF DeleteApp, TokensTypeOK
    <2>4. UNCHANGED <<revoked, lapsed, next, handler, doubled, crowded, quiet>>
        BY <1>4 DEF DeleteApp
    <2> QED
        BY <2>1, <2>2, <2>3, <2>4 DEF TokensTypeOK
<1>5. ASSUME Lapse
      PROVE  TokensTypeOK'
    <2>1. Visible \subseteq TokenIds /\ DOMAIN codes \subseteq Codes
        BY Reads DEF TokensTypeOK
    <2>2. lapsed' \subseteq ({"code"} \X Codes) \cup ({"token"} \X TokenIds)
        BY <1>5, <2>1 DEF Lapse, TokensTypeOK
    <2> QED
        BY <1>5, <2>2 DEF Lapse, TokensTypeOK
<1> QED
    BY <1>1, <1>2, <1>3, <1>4, <1>5

\* The steps that insert a token, or find that they cannot.
LEMMA TokensTypeInsert ==
    ASSUME TokensTypeOK, \A h \in Handlers : HandlerFits(h), NEW h \in Handlers
    PROVE  /\ \A a \in Apps, u \in Users, scopes \in SUBSET Scopes :
                 ImplicitToken(h, a, u, scopes) => TokensTypeOK'
           /\ ExchangeCode(h) => TokensTypeOK'
           /\ RefreshToken(h) => TokensTypeOK'
<1>0. \A set \in SUBSET TokenIds : \A a, u : Of(set, a, u) \in SUBSET TokenIds
    BY DEF Of
<1>1. ASSUME NEW a \in Apps, NEW u \in Users, NEW scopes \in SUBSET Scopes,
             ImplicitToken(h, a, u, scopes)
      PROVE  TokensTypeOK'
    <2> DEFINE token == [app |-> a, user |-> u, scopes |-> Requested(a, scopes), code |-> None,
                         token |-> None, refresh |-> FALSE, committed |-> TRUE]
    <2>1. Requested(a, scopes) \in SUBSET Scopes
        BY Reads
    <2>2. token \in Token /\ None \in {token.code, token.token}
        BY <2>1 DEF Token
    <2>3. InsertToken(h, token, "untrimmed", {})
        BY <1>1 DEF ImplicitToken
    <2>4. /\ "untrimmed" \in TokenStages /\ {} \in SUBSET TokenIds
        BY DEF TokenStages
    <2> HIDE DEF token
    <2>5. UNCHANGED <<apps, codes, used, revoked, lapsed, doubled, crowded, quiet>>
        BY <1>1 DEF ImplicitToken
    <2> QED
        BY <2>2, <2>3, <2>4, <2>5, InsertType DEF TokensTypeOK, HandlerRecords
<1>2. ASSUME ExchangeCode(h)
      PROVE  TokensTypeOK'
    <2> DEFINE c == handler[h].code
               token == [app |-> codes[c].app, user |-> codes[c].user,
                         scopes |-> codes[c].scopes, code |-> c, token |-> None,
                         refresh |-> TRUE, committed |-> FALSE]
               cut == Beyond({next} \cup Of(Live, codes[c].app, codes[c].user))
    <2>1. UNCHANGED <<apps, codes, used, revoked, lapsed, doubled, crowded, quiet>>
        BY <1>2 DEF ExchangeCode
    <2>2. CASE Claimable(c)
        <3>1. c \in DOMAIN codes /\ c \in Codes /\ codes[c] \in Grant
            BY <2>2, Reads DEF Claimable, TokensTypeOK
        <3>2. token \in Token /\ None \in {token.code, token.token}
            BY <3>1 DEF Token, Grant
        <3>3. InsertToken(h, token, "inserted", cut)
            BY <1>2, <2>2 DEF ExchangeCode
        <3>4. next \in TokenIds
            BY <3>3, InsertNext
        <3>5. cut \in SUBSET TokenIds
            <4>1. Live \in SUBSET TokenIds
                BY Reads
            <4>2. Of(Live, codes[c].app, codes[c].user) \in SUBSET TokenIds
                BY <4>1, <1>0
            <4> QED
                BY <3>4, <4>2, Reads
        <3>6. "inserted" \in TokenStages
            BY DEF TokenStages
        <3> HIDE DEF token, cut
        <3> QED
            BY <2>1, <3>2, <3>3, <3>5, <3>6, InsertType DEF TokensTypeOK, HandlerRecords
    <2>3. CASE ~Claimable(c)
        <3>1. handler' = [handler EXCEPT ![h] = Idle] /\ UNCHANGED <<tokens, next>>
            BY <1>2, <2>3 DEF ExchangeCode
        <3>2. handler' \in [Handlers -> HandlerRecords]
            BY <3>1, Reads DEF TokensTypeOK, HandlerRecords
        <3> QED
            BY <2>1, <3>1, <3>2 DEF TokensTypeOK, HandlerRecords
    <2> QED
        BY <2>2, <2>3
<1>3. ASSUME RefreshToken(h)
      PROVE  TokensTypeOK'
    <2> DEFINE t == handler[h].token
               cut == Old(t) \cup Beyond({next} \cup
                         (Of(Live, tokens[t].app, tokens[t].user) \ Old(t)))
    <2>1. UNCHANGED <<apps, codes, used, revoked, lapsed, doubled, crowded, quiet>>
        BY <1>3 DEF RefreshToken
    <2>2. CASE t \in DOMAIN tokens
        <3>1. t \in TokenIds /\ tokens[t] \in Token
            BY <2>2, Reads
        <3>2. Renewed(t) \in Token /\ None \in {Renewed(t).code, Renewed(t).token}
            BY <3>1 DEF Renewed, Token
        <3>3. InsertToken(h, Renewed(t), "inserted", cut)
            BY <1>3, <2>2 DEF RefreshToken
        <3>4. next \in TokenIds
            BY <3>3, InsertNext
        <3>5. cut \in SUBSET TokenIds
            <4>1. Live \in SUBSET TokenIds
                BY Reads
            <4>2. Of(Live, tokens[t].app, tokens[t].user) \in SUBSET TokenIds
                BY <4>1, <1>0
            <4>3. Beyond({next} \cup (Of(Live, tokens[t].app, tokens[t].user) \ Old(t)))
                    \in SUBSET TokenIds
                BY <3>4, <4>2, Reads
            <4> QED
                BY <4>3, <3>1 DEF Old
        <3>6. "inserted" \in TokenStages
            BY DEF TokenStages
        <3> HIDE DEF cut
        <3> QED
            BY <2>1, <3>2, <3>3, <3>5, <3>6, InsertType DEF TokensTypeOK, HandlerRecords
    <2>3. CASE t \notin DOMAIN tokens
        <3>1. handler' = [handler EXCEPT ![h] = Idle] /\ UNCHANGED <<tokens, next>>
            BY <1>3, <2>3 DEF RefreshToken
        <3>2. handler' \in [Handlers -> HandlerRecords]
            BY <3>1, Reads DEF TokensTypeOK, HandlerRecords
        <3> QED
            BY <2>1, <3>1, <3>2 DEF TokensTypeOK, HandlerRecords
    <2> QED
        BY <2>2, <2>3
<1> QED
    BY <1>1, <1>2, <1>3

\* The steps that go on with, end or give up what a handler is doing.
LEMMA TokensTypeGoOn ==
    ASSUME TokensTypeOK, \A h \in Handlers : HandlerFits(h), NEW h \in Handlers
    PROVE  /\ SelectCode(h) \/ SelectToken(h) => TokensTypeOK'
           /\ CommitToken(h) => TokensTypeOK'
           /\ TrimImplicit(h) \/ RevokeToken(h) => TokensTypeOK'
           /\ AbortToken(h) => TokensTypeOK'
<1>0. /\ handler[h] \in HandlerRecords /\ Idle \in HandlerRecords
      /\ handler \in [Handlers -> HandlerRecords]
    BY Reads DEF TokensTypeOK, HandlerRecords
<1>1. ASSUME SelectCode(h) \/ SelectToken(h)
      PROVE  TokensTypeOK'
    <2>1. /\ [handler[h] EXCEPT !.at = "exchanging"] \in HandlerRecords
          /\ [handler[h] EXCEPT !.at = "refreshing"] \in HandlerRecords
        BY <1>0 DEF HandlerRecords, TokenStages
    <2>2. handler' \in [Handlers -> HandlerRecords]
        BY <1>0, <1>1, <2>1 DEF SelectCode, SelectToken
    <2>3. doubled' \subseteq TokenIds
        BY <1>1, <1>0, TokensAssumption, Reads
        DEF SelectCode, SelectToken, TokensTypeOK, Refreshable, Live, Visible
    <2> QED
        BY <1>1, <2>2, <2>3 DEF SelectCode, SelectToken, TokensTypeOK, HandlerRecords
<1>2. ASSUME CommitToken(h)
      PROVE  TokensTypeOK'
    <2> DEFINE new == handler[h].new
    <2>1. handler[h].at = "inserted" /\ new \in DOMAIN tokens
        BY <1>2 DEF CommitToken, HandlerFits
    <2>2. new \in TokenIds /\ tokens[new] \in Token
        BY <2>1, Reads
    <2>3. /\ DOMAIN tokens' = DOMAIN tokens
          /\ \A t \in DOMAIN tokens : t # new => tokens'[t] = tokens[t]
          /\ tokens'[new] = [tokens[new] EXCEPT !.committed = TRUE]
        BY <1>2, <2>1 DEF CommitToken
    <2>4. /\ tokens'[new] \in Token
          /\ tokens'[new].code = tokens[new].code /\ tokens'[new].token = tokens[new].token
        BY <2>2, <2>3 DEF Token
    <2>5. \A t \in DOMAIN tokens' :
            tokens'[t] \in Token /\ None \in {tokens'[t].code, tokens'[t].token}
        BY <2>1, <2>3, <2>4 DEF TokensTypeOK
    <2>6. used' \subseteq Codes /\ revoked' \subseteq TokenIds
        BY <1>0, <1>2 DEF CommitToken, TokensTypeOK, HandlerRecords
    <2>7. handler' \in [Handlers -> HandlerRecords]
        BY <1>0, <1>2 DEF CommitToken
    <2>8. crowded' \subseteq Apps \X Users
        BY <1>2, <2>2 DEF CommitToken, Inserted, TokensTypeOK, Token
    <2> QED
        BY <1>2, <2>3, <2>5, <2>6, <2>7, <2>8 DEF CommitToken, TokensTypeOK, HandlerRecords
<1>3. ASSUME TrimImplicit(h) \/ RevokeToken(h)
      PROVE  TokensTypeOK'
    <2>1. handler' \in [Handlers -> HandlerRecords]
        BY <1>0, <1>3 DEF TrimImplicit, RevokeToken
    <2>2. ASSUME RevokeToken(h)
          PROVE  TokensTypeOK'
        <3>1. quiet' \subseteq TokenIds
            BY <2>2, <1>0 DEF RevokeToken, TokensTypeOK, HandlerFits
        <3>2. revoked' \subseteq TokenIds
            BY <2>2 DEF RevokeToken, TokensTypeOK
        <3> QED
            BY <2>1, <2>2, <3>1, <3>2 DEF RevokeToken, TokensTypeOK, HandlerRecords
    <2>3. ASSUME TrimImplicit(h)
          PROVE  TokensTypeOK'
        <3>1. revoked' \subseteq TokenIds
            <4>1. \A a, u : Of(Live, a, u) \in SUBSET TokenIds
                BY Reads DEF Of
            <4>2. \A a, u : Beyond(Of(Live, a, u)) \in SUBSET TokenIds
                BY <4>1, Reads
            <4> QED
                BY <2>3, <4>2 DEF TrimImplicit, TokensTypeOK
        <3>2. crowded' \subseteq Apps \X Users
            BY <2>3, Reads DEF TrimImplicit, Inserted, TokensTypeOK, Token
        <3> QED
            BY <2>1, <2>3, <3>1, <3>2 DEF TrimImplicit, TokensTypeOK, HandlerRecords
    <2> QED
        BY <1>3, <2>2, <2>3
<1>4. ASSUME AbortToken(h)
      PROVE  TokensTypeOK'
    <2>1. handler' \in [Handlers -> HandlerRecords]
        BY <1>0, <1>4 DEF AbortToken
    <2>2. /\ DOMAIN tokens' \subseteq DOMAIN tokens
          /\ \A t \in DOMAIN tokens' : tokens'[t] = tokens[t]
        BY <1>4 DEF AbortToken
    <2>3. crowded' \subseteq Apps \X Users
        BY <1>4, Reads DEF AbortToken, TokensTypeOK, Token
    <2>4. UNCHANGED <<apps, codes, used, revoked, lapsed, next, doubled, quiet>>
        BY <1>4 DEF AbortToken
    <2> QED
        BY <2>1, <2>2, <2>3, <2>4 DEF TokensTypeOK, HandlerRecords
<1> QED
    BY <1>1, <1>2, <1>3, <1>4

-----------------------------------------------------------------------------
(* The kinds of steps.                                                      *)

\* Handler h turns to r and no token, code or application changes.
Between(h, r) ==
    /\ handler' = [handler EXCEPT ![h] = r]
    /\ UNCHANGED <<apps, codes, used, tokens, next>>
    /\ revoked \subseteq revoked' /\ doubled \subseteq doubled'
    /\ handler[h].at # "inserted"
    /\ r.at \in {"idle", "code", "exchanging", "refresh", "refreshing", "revoking"}
    /\ r.at \in {"code", "exchanging"} => r.code \in Codes /\ r.token = None
    /\ r.at \in {"refresh", "refreshing", "revoking"} =>
          r.token \in TokenIds /\ r.code = None /\ r.token < next
    /\ r.at = "refreshing" =>
          /\ r.token \in DOMAIN tokens \ revoked
          /\ r.token \in doubled' \/ Refreshing(r.token) = {}
    /\ \A t \in quiet' \ quiet :
          t < next /\ Refreshing(t) = {} /\ t \in revoked' \cup (TokenIds \ DOMAIN tokens)
    /\ quiet' # quiet => r.at = "idle"

\* Handler h inserts a token that is not committed, or an implicit one.
Inserts(h, token, stage, cut) ==
    /\ InsertToken(h, token, stage, cut)
    /\ UNCHANGED <<apps, codes, used, revoked, doubled, quiet>>
    /\ \/ /\ stage = "untrimmed" /\ handler[h].at = "idle"
          /\ token.committed /\ token.code = None /\ token.token = None
       \/ /\ stage = "inserted" /\ handler[h].at = "exchanging"
          /\ ~token.committed /\ token.code = handler[h].code /\ token.token = None
          /\ ~Locked(token.code) /\ token.code \in Codes \ used
       \/ /\ stage = "inserted" /\ handler[h].at = "refreshing"
          /\ ~token.committed /\ token.code = None /\ token.token = handler[h].token
          /\ ~Locked(token.token) /\ token.token \in cut \cap TokenIds

LEMMA StartsBetween ==
    ASSUME TokensInv, NEW h \in Handlers,
           \/ \E c \in Codes : StartExchange(h, c)
           \/ \E t \in TokenIds : StartRefresh(h, t) \/ StartRevoke(h, t)
    PROVE  \E r \in HandlerRecords : Between(h, r)
<1>0. TokensTypeOK /\ (\A t \in DOMAIN tokens : TokenFits(t))
    BY DEF TokensInv
<1>1. CASE \E c \in Codes : StartExchange(h, c)
    <2>1. PICK c \in Codes : StartExchange(h, c)
        BY <1>1
    <2> DEFINE r == [Idle EXCEPT !.at = "code", !.code = c]
    <2>2. r \in HandlerRecords /\ r.at = "code" /\ r.code = c /\ r.token = None
        BY DEF Idle, HandlerRecords, TokenStages
    <2>3. handler' = [handler EXCEPT ![h] = r] /\ handler[h].at = "idle"
        BY <2>1 DEF StartExchange
    <2>4. UNCHANGED <<apps, codes, used, tokens, next, revoked, doubled, quiet>>
        BY <2>1 DEF StartExchange
    <2> HIDE DEF r
    <2>5. Between(h, r)
        BY <2>2, <2>3, <2>4 DEF Between
    <2> QED
        BY <2>2, <2>5
<1>2. CASE \E t \in TokenIds : StartRefresh(h, t) \/ StartRevoke(h, t)
    <2>1. PICK t \in TokenIds : StartRefresh(h, t) \/ StartRevoke(h, t)
        BY <1>2
    <2>2. PICK s \in {"refresh", "revoking"} :
            handler' = [handler EXCEPT ![h] = [Idle EXCEPT !.at = s, !.token = t]]
        BY <2>1 DEF StartRefresh, StartRevoke
    <2> DEFINE r == [Idle EXCEPT !.at = s, !.token = t]
    <2>3. r \in HandlerRecords /\ r.at = s /\ r.code = None /\ r.token = t
        BY DEF Idle, HandlerRecords, TokenStages
    <2>4. /\ handler[h].at = "idle"
          /\ UNCHANGED <<apps, codes, used, tokens, next, revoked, doubled, quiet>>
        BY <2>1 DEF StartRefresh, StartRevoke
    <2>5. t \in DOMAIN tokens
        BY <2>1 DEF StartRefresh, StartRevoke, Refreshable, Live, Visible
    <2>6. t < next
        BY <1>0, <2>5 DEF TokenFits
    <2> HIDE DEF r
    <2>7. Between(h, r)
        BY <2>2, <2>3, <2>4, <2>6 DEF Between, r
    <2> QED
        BY <2>3, <2>7
<1> QED
    BY <1>1, <1>2

LEMMA GoesOnBetween ==
    ASSUME TokensInv, NEW h \in Handlers,
           \/ SelectCode(h) \/ SelectToken(h) \/ TrimImplicit(h) \/ RevokeToken(h)
           \/ AbortToken(h) /\ handler[h].at # "inserted"
           \/ ExchangeCode(h) /\ ~Claimable(handler[h].code)
           \/ RefreshToken(h) /\ handler[h].token \notin DOMAIN tokens
    PROVE  \E r \in HandlerRecords : Between(h, r)
<1>0. /\ TokensTypeOK /\ HandlerFits(h)
      /\ handler[h] \in HandlerRecords /\ Idle \in HandlerRecords /\ Idle.at = "idle"
    BY Reads DEF TokensInv, Idle
<1>1. ASSUME UNCHANGED <<apps, codes, used, tokens, next>>, revoked \subseteq revoked',
             doubled' = doubled, quiet' = quiet, handler[h].at # "inserted",
             handler' = [handler EXCEPT ![h] = Idle]
      PROVE  Between(h, Idle)
    BY <1>0, <1>1 DEF Between
<1>2. CASE SelectCode(h)
    <2>1. CASE Open(handler[h].code)
        <3> DEFINE r == [handler[h] EXCEPT !.at = "exchanging"]
        <3>1. r \in HandlerRecords /\ r.at = "exchanging" /\ r.code \in Codes /\ r.token = None
            BY <1>0, <1>2 DEF HandlerRecords, TokenStages, SelectCode, HandlerFits
        <3>2. handler' = [handler EXCEPT ![h] = r] /\ handler[h].at = "code"
            BY <1>2, <2>1 DEF SelectCode
        <3>3. UNCHANGED <<apps, codes, used, tokens, next, revoked, doubled, quiet>>
            BY <1>2 DEF SelectCode
        <3> HIDE DEF r
        <3>4. Between(h, r)
            BY <3>1, <3>2, <3>3 DEF Between
        <3> QED
            BY <3>1, <3>4
    <2>2. CASE ~Open(handler[h].code)
        BY <1>0, <1>1, <1>2, <2>2 DEF SelectCode
    <2> QED
        BY <2>1, <2>2
<1>3. CASE SelectToken(h)
    <2>1. CASE Refreshable(handler[h].token)
        <3> DEFINE r == [handler[h] EXCEPT !.at = "refreshing"]
        <3>1. /\ r \in HandlerRecords /\ r.at = "refreshing" /\ r.token = handler[h].token
              /\ r.token \in TokenIds /\ r.code = None /\ r.token < next
            BY <1>0, <1>3 DEF HandlerRecords, TokenStages, SelectToken, HandlerFits
        <3>2. handler' = [handler EXCEPT ![h] = r] /\ handler[h].at = "refresh"
            BY <1>3, <2>1 DEF SelectToken
        <3>3. UNCHANGED <<apps, codes, used, tokens, next, revoked, quiet>>
            BY <1>3 DEF SelectToken
        <3>4. r.token \in DOMAIN tokens \ revoked
            BY <2>1, <3>1 DEF Refreshable, Live, Visible
        <3>5. /\ doubled \subseteq doubled'
              /\ r.token \in doubled' \/ Refreshing(r.token) = {}
            BY <1>3, <2>1, <3>1 DEF SelectToken
        <3> HIDE DEF r
        <3>6. Between(h, r)
            BY <3>1, <3>2, <3>3, <3>4, <3>5 DEF Between
        <3> QED
            BY <3>1, <3>6
    <2>2. CASE ~Refreshable(handler[h].token)
        BY <1>0, <1>1, <1>3, <2>2 DEF SelectToken
    <2> QED
        BY <2>1, <2>2
<1>4. CASE TrimImplicit(h)
    BY <1>0, <1>1, <1>4 DEF TrimImplicit
<1>5. CASE RevokeToken(h)
    <2> DEFINE t == handler[h].token
    <2>1. t \in TokenIds /\ t < next /\ handler[h].at = "revoking"
        BY <1>0, <1>5 DEF RevokeToken, HandlerFits
    <2>2. /\ revoked' = revoked \cup ({t} \cap DOMAIN tokens)
          /\ quiet' = IF Refreshing(t) = {} THEN quiet \cup {t} ELSE quiet
          /\ handler' = [handler EXCEPT ![h] = Idle]
          /\ UNCHANGED <<apps, codes, used, tokens, next, doubled>>
        BY <1>5 DEF RevokeToken
    <2>3. \A s \in quiet' \ quiet :
            s < next /\ Refreshing(s) = {} /\ s \in revoked' \cup (TokenIds \ DOMAIN tokens)
        BY <2>1, <2>2
    <2>4. Between(h, Idle)
        BY <1>0, <2>1, <2>2, <2>3 DEF Between
    <2> QED
        BY <1>0, <2>4
<1>6. CASE AbortToken(h) /\ handler[h].at # "inserted"
    BY <1>0, <1>1, <1>6 DEF AbortToken
<1>7. CASE ExchangeCode(h) /\ ~Claimable(handler[h].code)
    BY <1>0, <1>1, <1>7 DEF ExchangeCode
<1>8. CASE RefreshToken(h) /\ handler[h].token \notin DOMAIN tokens
    BY <1>0, <1>1, <1>8 DEF RefreshToken
<1> QED
    BY <1>2, <1>3, <1>4, <1>5, <1>6, <1>7, <1>8

LEMMA InsertsToken ==
    ASSUME TokensInv, NEW h \in Handlers,
           \/ \E a \in Apps, u \in Users, scopes \in SUBSET Scopes :
                 ImplicitToken(h, a, u, scopes)
           \/ ExchangeCode(h) /\ Claimable(handler[h].code)
           \/ RefreshToken(h) /\ handler[h].token \in DOMAIN tokens
    PROVE  \E token \in Token : \E stage, cut :
              /\ Inserts(h, token, stage, cut)
              /\ Allowed(token.scopes) \subseteq Allowed(Registered[token.app])
<1>0. TokensTypeOK /\ HandlerFits(h)
    BY DEF TokensInv
<1>1. ASSUME NEW a \in Apps, NEW u \in Users, NEW scopes \in SUBSET Scopes,
             ImplicitToken(h, a, u, scopes)
      PROVE  \E token \in Token : \E stage, cut :
                /\ Inserts(h, token, stage, cut)
                /\ Allowed(token.scopes) \subseteq Allowed(Registered[token.app])
    <2> DEFINE token == [app |-> a, user |-> u, scopes |-> Requested(a, scopes), code |-> None,
                         token |-> None, refresh |-> FALSE, committed |-> TRUE]
    <2>1. Requested(a, scopes) \in SUBSET Scopes
        BY <1>0, Reads
    <2>2. /\ token \in Token /\ token.committed /\ token.code = None /\ token.token = None
          /\ token.scopes = Requested(a, scopes) /\ token.app = a
        BY <2>1 DEF Token
    <2>3. /\ InsertToken(h, token, "untrimmed", {}) /\ handler[h].at = "idle"
          /\ UNCHANGED <<apps, codes, used, revoked, doubled, quiet>>
          /\ ValidRequest(a, scopes)
        BY <1>1 DEF ImplicitToken
    <2>4. Allowed(Requested(a, scopes)) \subseteq Allowed(Registered[a])
        BY <2>3, TokensAssumption DEF Allowed, Requested, ValidRequest, OAuthAppAllowsScope
    <2> HIDE DEF token
    <2>5. Inserts(h, token, "untrimmed", {})
        BY <2>2, <2>3 DEF Inserts
    <2> QED
        BY <2>2, <2>4, <2>5
<1>2. CASE ExchangeCode(h) /\ Claimable(handler[h].code)
    <2> DEFINE c == handler[h].code
               token == [app |-> codes[c].app, user |-> codes[c].user,
                         scopes |-> codes[c].scopes, code |-> c, token |-> None,
                         refresh |-> TRUE, committed |-> FALSE]
               cut == Beyond({next} \cup Of(Live, codes[c].app, codes[c].user))
    <2>1. c \in DOMAIN codes /\ c \in Codes \ used /\ codes[c] \in Grant
        BY <1>0, <1>2, Reads DEF Claimable, TokensTypeOK
    <2>2. /\ token \in Token /\ ~token.committed /\ token.code = c /\ token.token = None
          /\ token.scopes = codes[c].scopes /\ token.app = codes[c].app
        BY <2>1 DEF Token, Grant
    <2>3. /\ InsertToken(h, token, "inserted", cut) /\ handler[h].at = "exchanging"
          /\ ~Locked(c)
          /\ UNCHANGED <<apps, codes, used, revoked, doubled, quiet>>
        BY <1>2 DEF ExchangeCode
    <2>4. Allowed(codes[c].scopes) \subseteq Allowed(Registered[codes[c].app])
        BY <2>1 DEF TokensInv, CodesWereRegistered
    <2> HIDE DEF token, cut
    <2>5. Inserts(h, token, "inserted", cut)
        BY <2>1, <2>2, <2>3 DEF Inserts
    <2> QED
        BY <2>2, <2>4, <2>5
<1>3. CASE RefreshToken(h) /\ handler[h].token \in DOMAIN tokens
    <2> DEFINE t == handler[h].token
               cut == Old(t) \cup Beyond({next} \cup
                         (Of(Live, tokens[t].app, tokens[t].user) \ Old(t)))
    <2>1. t \in TokenIds /\ tokens[t] \in Token
        BY <1>0, <1>3, Reads
    <2>2. /\ Renewed(t) \in Token /\ ~Renewed(t).committed
          /\ Renewed(t).code = None /\ Renewed(t).token = t
          /\ Renewed(t).scopes = tokens[t].scopes /\ Renewed(t).app = tokens[t].app
        BY <2>1 DEF Renewed, Token
    <2>3. /\ InsertToken(h, Renewed(t), "inserted", cut) /\ handler[h].at = "refreshing"
          /\ ~Locked(t)
          /\ UNCHANGED <<apps, codes, used, revoked, doubled, quiet>>
        BY <1>3 DEF RefreshToken
    <2>4. Allowed(tokens[t].scopes) \subseteq Allowed(Registered[tokens[t].app])
        BY <1>3 DEF TokensInv, AllowedWasRegistered
    <2>5. t \in cut
        BY DEF Old
    <2> HIDE DEF cut
    <2>6. Inserts(h, Renewed(t), "inserted", cut)
        BY <2>1, <2>2, <2>3, <2>5 DEF Inserts
    <2> QED
        BY <2>2, <2>4, <2>6
<1> QED
    BY <1>1, <1>2, <1>3

-----------------------------------------------------------------------------
(* A step between insertions keeps the invariant.                           *)

LEMMA BetweenKeeps ==
    ASSUME TokensInv, NEW h \in Handlers, NEW r \in HandlerRecords, Between(h, r)
    PROVE  /\ \A x \in Handlers : HandlerFits(x)'
           /\ NewsApart'
           /\ \A t \in DOMAIN tokens' : TokenFits(t)'
           /\ CodeOnce' /\ NothingOfDeletedApps' /\ CodesWereRegistered'
           /\ AllowedWasRegistered' /\ ReplacedOnceUnlessRaced'
           /\ \A q \in TokenIds : RefreshedOnce(q)'
           /\ \A t \in quiet' : QuietFits(t)'
<1>0. /\ TokensTypeOK /\ NewsApart
      /\ \A x \in Handlers : HandlerFits(x)
      /\ \A t \in DOMAIN tokens : TokenFits(t)
      /\ \A q \in TokenIds : RefreshedOnce(q)
      /\ \A t \in quiet : QuietFits(t)
    BY DEF TokensInv
<1>1. /\ handler'[h] = r
      /\ \A x \in Handlers : x # h => handler'[x] = handler[x]
      /\ UNCHANGED <<apps, codes, used, tokens, next>>
      /\ revoked \subseteq revoked' /\ doubled \subseteq doubled'
      /\ handler[h].at # "inserted" /\ r.at \notin {"inserted", "untrimmed"}
    BY <1>0 DEF Between, TokensTypeOK
<1>2. \A x \in Handlers : HandlerFits(x)'
    <2>1. HandlerFits(h)'
        BY <1>1 DEF HandlerFits, Between
    <2>2. ASSUME NEW x \in Handlers, x # h
          PROVE  HandlerFits(x)'
        <3>1. handler'[x] = handler[x]
            BY <1>1, <2>2
        <3> QED
            BY <1>0, <1>1, <3>1 DEF HandlerFits
    <2> QED
        BY <2>1, <2>2
<1>3. \A x \in Handlers : handler'[x].at = "inserted" <=> handler[x].at = "inserted"
    BY <1>1
<1>4. NewsApart'
    BY <1>0, <1>1 DEF NewsApart
<1>5. ASSUME NEW t \in DOMAIN tokens' PROVE TokenFits(t)'
    <2>1. t \in DOMAIN tokens /\ TokenFits(t)
        BY <1>0, <1>1, <1>5
    <2>2. ASSUME NEW x \in Handlers, handler[x].at = "inserted", handler[x].new = t
          PROVE  handler'[x].at = "inserted" /\ handler'[x].new = t
        BY <1>1, <2>2
    <2> QED
        BY <1>1, <2>1, <2>2 DEF TokenFits
<1>6. \A q : q # r.token \/ r.at # "refreshing" => Refreshing(q)' \subseteq Refreshing(q)
    BY <1>1 DEF Refreshing
<1>7. r.at = "refreshing" => Refreshing(r.token)' \subseteq Refreshing(r.token) \cup {h}
    BY <1>1 DEF Refreshing
<1>8. ASSUME NEW q \in TokenIds PROVE RefreshedOnce(q)'
    <2>1. CASE q # r.token \/ r.at # "refreshing"
        <3>1. Refreshing(q)' \subseteq Refreshing(q)
            BY <1>6, <2>1
        <3> QED
            BY <1>0, <1>1, <3>1 DEF RefreshedOnce
    <2>2. CASE q = r.token /\ r.at = "refreshing"
        <3>1. q \notin revoked /\ (q \in doubled' \/ Refreshing(q) = {})
            BY <2>2 DEF Between
        <3>2. Refreshing(q)' \subseteq Refreshing(q) \cup {h}
            BY <1>7, <2>2
        <3>3. q \notin doubled' => \A x, y \in Refreshing(q)' : x = y
            BY <3>1, <3>2
        <3>4. q \notin doubled' =>
                \A s \in DOMAIN tokens : ~(tokens[s].token = q /\ tokens[s].committed)
            BY <1>0, <1>1, <3>1 DEF RefreshedOnce
        <3> QED
            BY <1>1, <3>3, <3>4 DEF RefreshedOnce
    <2> QED
        BY <2>1, <2>2
<1>9. ASSUME NEW t \in quiet' PROVE QuietFits(t)'
    <2>1. /\ t < next /\ Refreshing(t) = {} /\ (t \in DOMAIN tokens => t \in revoked')
        BY <1>0, <1>1, <1>9 DEF Between, QuietFits
    <2>2. Refreshing(t)' \subseteq Refreshing(t)
        <3>1. CASE t \in quiet
            <4>1. t \in DOMAIN tokens => t \in revoked
                BY <1>0, <3>1 DEF QuietFits
            <4>2. r.at = "refreshing" => r.token \in DOMAIN tokens \ revoked
                BY DEF Between
            <4> QED
                BY <1>6, <4>1, <4>2
        <3>2. CASE t \notin quiet
            <4>1. r.at # "refreshing"
                BY <1>9, <3>2 DEF Between
            <4> QED
                BY <1>6, <4>1
        <3> QED
            BY <3>1, <3>2
    <2> QED
        BY <1>1, <2>1, <2>2 DEF QuietFits
<1>10. CodeOnce' /\ NothingOfDeletedApps' /\ CodesWereRegistered' /\ AllowedWasRegistered'
    BY <1>1 DEF TokensInv, CodeOnce, NothingOfDeletedApps, CodesWereRegistered,
                AllowedWasRegistered
<1>11. ReplacedOnceUnlessRaced'
    BY <1>1 DEF TokensInv, ReplacedOnceUnlessRaced
<1> QED
    BY <1>2, <1>4, <1>5, <1>8, <1>9, <1>10, <1>11

-----------------------------------------------------------------------------
(* An insertion keeps the invariant.                                        *)

\* What an insertion changes.
LEMMA InsertFrame ==
    ASSUME TokensInv, NEW h \in Handlers, NEW token \in Token, NEW stage, NEW cut,
           InsertToken(h, token, stage, cut)
    PROVE  /\ next \in TokenIds /\ next \notin DOMAIN tokens /\ next' = next + 1
           /\ DOMAIN tokens' = DOMAIN tokens \cup {next}
           /\ tokens'[next] = token /\ \A t \in DOMAIN tokens : tokens'[t] = tokens[t]
           /\ token.app \in apps
           /\ handler'[h].at = stage /\ handler'[h].new = next /\ handler'[h].cut = cut
           /\ handler'[h].code = handler[h].code /\ handler'[h].token = handler[h].token
           /\ \A x \in Handlers : x # h =>
                 /\ handler'[x].at = handler[x].at /\ handler'[x].code = handler[x].code
                 /\ handler'[x].token = handler[x].token /\ handler'[x].new = handler[x].new
                 /\ handler'[x].cut = handler[x].cut
<1>1. next \in TokenIds
    BY InsertNext DEF TokensInv
<1>2. next \notin DOMAIN tokens
    <2>1. \A t \in DOMAIN tokens : t < next
        BY DEF TokensInv, TokenFits
    <2> QED
        BY <1>1, <2>1, TokensAssumption DEF TokenIds
<1>3. /\ next' = next + 1
      /\ DOMAIN tokens' = DOMAIN tokens \cup {next}
      /\ tokens'[next] = token
      /\ \A t \in DOMAIN tokens : tokens'[t] = tokens[t]
      /\ token.app \in apps
    BY <1>2 DEF InsertToken
<1>4. \A x \in Handlers : handler[x] \in HandlerRecords
    BY Reads DEF TokensInv
<1> DEFINE others == Inserting(token.app, token.user) \ {h}
<1>5. handler' = [x \in Handlers |->
            IF x = h THEN [handler[h] EXCEPT
                !.at = stage, !.new = next, !.cut = cut, !.alone = (others = {})]
            ELSE IF x \in others THEN [handler[x] EXCEPT !.alone = FALSE]
            ELSE handler[x]]
    BY DEF InsertToken
<1> HIDE DEF others
<1>6. /\ handler'[h].at = stage /\ handler'[h].new = next /\ handler'[h].cut = cut
      /\ handler'[h].code = handler[h].code /\ handler'[h].token = handler[h].token
    BY <1>4, <1>5 DEF HandlerRecords
<1>7. \A x \in Handlers : x # h =>
                 /\ handler'[x].at = handler[x].at /\ handler'[x].code = handler[x].code
                 /\ handler'[x].token = handler[x].token /\ handler'[x].new = handler[x].new
                 /\ handler'[x].cut = handler[x].cut
    BY <1>4, <1>5 DEF HandlerRecords
<1> QED
    BY <1>1, <1>2, <1>3, <1>6, <1>7

LEMMA InsertKeeps ==
    ASSUME TokensInv, NEW h \in Handlers, NEW token \in Token, NEW stage, NEW cut,
           Inserts(h, token, stage, cut),
           Allowed(token.scopes) \subseteq Allowed(Registered[token.app])
    PROVE  /\ \A x \in Handlers : HandlerFits(x)'
           /\ NewsApart'
           /\ \A t \in DOMAIN tokens' : TokenFits(t)'
           /\ CodeOnce' /\ NothingOfDeletedApps' /\ CodesWereRegistered'
           /\ AllowedWasRegistered' /\ ReplacedOnceUnlessRaced'
           /\ \A q \in TokenIds : RefreshedOnce(q)'
           /\ \A t \in quiet' : QuietFits(t)'
<1>0. /\ TokensTypeOK /\ NewsApart
      /\ \A x \in Handlers : HandlerFits(x)
      /\ \A t \in DOMAIN tokens : TokenFits(t)
      /\ \A q \in TokenIds : RefreshedOnce(q)
      /\ \A t \in quiet : QuietFits(t)
    BY DEF TokensInv
<1>1. /\ next \in TokenIds /\ next \notin DOMAIN tokens /\ next' = next + 1
      /\ DOMAIN tokens' = DOMAIN tokens \cup {next}
      /\ tokens'[next] = token /\ \A t \in DOMAIN tokens : tokens'[t] = tokens[t]
      /\ token.app \in apps
      /\ handler'[h].at = stage /\ handler'[h].new = next /\ handler'[h].cut = cut
      /\ handler'[h].code = handler[h].code /\ handler'[h].token = handler[h].token
      /\ \A x \in Handlers : x # h =>
            /\ handler'[x].at = handler[x].at /\ handler'[x].code = handler[x].code
            /\ handler'[x].token = handler[x].token /\ handler'[x].new = handler[x].new
            /\ handler'[x].cut = handler[x].cut
    BY InsertFrame DEF Inserts
<1>2. UNCHANGED <<apps, codes, used, revoked, doubled, quiet>>
    BY DEF Inserts
<1>3. None \notin TokenIds /\ None \notin Codes /\ TokenIds \subseteq Nat
    BY TokensAssumption DEF TokenIds
<1>4. DOMAIN tokens \subseteq TokenIds /\ quiet \subseteq TokenIds
    BY <1>0 DEF TokensTypeOK
<1>5. \/ /\ stage = "untrimmed" /\ handler[h].at = "idle"
         /\ token.committed /\ token.code = None /\ token.token = None
      \/ /\ stage = "inserted" /\ handler[h].at = "exchanging"
         /\ ~token.committed /\ token.code = handler[h].code /\ token.token = None
         /\ ~Locked(token.code) /\ token.code \in Codes \ used
         /\ handler[h].token = None
      \/ /\ stage = "inserted" /\ handler[h].at = "refreshing"
         /\ ~token.committed /\ token.code = None /\ token.token = handler[h].token
         /\ ~Locked(token.token) /\ token.token \in cut \cap TokenIds
         /\ handler[h].code = None
    BY <1>0 DEF Inserts, HandlerFits
<1>6. HandlerFits(h)'
    BY <1>1, <1>3, <1>5 DEF HandlerFits
<1>7. ASSUME NEW x \in Handlers, x # h
      PROVE  HandlerFits(x)'
    <2>1. HandlerFits(x)
        BY <1>0
    <2>2. /\ handler'[x].at = handler[x].at /\ handler'[x].code = handler[x].code
          /\ handler'[x].token = handler[x].token /\ handler'[x].new = handler[x].new
          /\ handler'[x].cut = handler[x].cut
        BY <1>1, <1>7
    <2>3. handler[x].at = "untrimmed" => handler[x].new # next
        BY <1>1, <1>3, <2>1 DEF HandlerFits
    <2>4. \A t \in TokenIds : t < next => t < next'
      <3>1. next \in Nat /\ next' = next + 1
          BY <1>1, <1>3
      <3>2. \A t \in Nat : t < next => t < next + 1
          BY <3>1
      <3> QED
          BY <1>3, <3>1, <3>2
    <2>5. handler[x].at = "inserted" => tokens'[handler[x].new] = tokens[handler[x].new]
        BY <1>1, <2>1 DEF HandlerFits
    <2>6. handler[x].at = "untrimmed" /\ handler[x].new \in DOMAIN tokens' =>
            tokens'[handler[x].new].committed
        BY <1>1, <2>1, <2>3 DEF HandlerFits
    <2> QED
        BY <1>1, <2>1, <2>2, <2>4, <2>5, <2>6 DEF HandlerFits
<1>8. NewsApart'
    <2>1. \A x \in Handlers : handler[x].at = "inserted" => handler[x].new # next
        BY <1>0, <1>1 DEF HandlerFits
    <2> QED
        BY <1>0, <1>1, <2>1 DEF NewsApart
<1>9. handler[h].at # "inserted"
    BY <1>5
<1>10. ASSUME NEW t \in DOMAIN tokens PROVE TokenFits(t)'
    <2>1. TokenFits(t) /\ tokens'[t] = tokens[t] /\ t \in Nat
        BY <1>0, <1>1, <1>3, <1>4, <1>10
    <2>2. ASSUME NEW x \in Handlers, handler[x].at = "inserted", handler[x].new = t
          PROVE  handler'[x].at = "inserted" /\ handler'[x].new = t
        BY <1>1, <1>9, <2>2
    <2> QED
        BY <1>1, <1>2, <1>3, <2>1, <2>2 DEF TokenFits
<1>11. ASSUME NEW t, t = next PROVE TokenFits(t)'
    BY <1>1, <1>3, <1>5, <1>11 DEF TokenFits
<1>12. \A q \in TokenIds : Refreshing(q)' = Refreshing(q)
    <2>1. \A q \in TokenIds : h \in Refreshing(q)' <=> h \in Refreshing(q)
        BY <1>1, <1>3, <1>5 DEF Refreshing
    <2>2. \A q \in TokenIds : \A x \in Handlers \ {h} :
            x \in Refreshing(q)' <=> x \in Refreshing(q)
        BY <1>1 DEF Refreshing
    <2> QED
        BY <2>1, <2>2 DEF Refreshing
<1>13. \A q \in TokenIds : RefreshedOnce(q)'
    <2>1. \A q \in TokenIds : \A s \in DOMAIN tokens' :
            tokens'[s].token = q /\ tokens'[s].committed => s \in DOMAIN tokens
        BY <1>1, <1>3, <1>5
    <2> QED
        BY <1>0, <1>1, <1>2, <1>12, <2>1 DEF RefreshedOnce
<1>14. \A t \in quiet' : QuietFits(t)'
    BY <1>0, <1>1, <1>2, <1>3, <1>4, <1>12 DEF QuietFits
<1>15. \A t \in DOMAIN tokens : token.code # None => tokens[t].code # token.code
    <2>1. SUFFICES ASSUME NEW t \in DOMAIN tokens, token.code # None,
                          tokens[t].code = token.code
                   PROVE  FALSE
        OBVIOUS
    <2>2. ~Locked(token.code) /\ token.code \notin used
        BY <1>5, <2>1
    <2>3. TokenFits(t)
        BY <1>0
    <2>4. PICK x \in Handlers : handler[x].at = "inserted" /\ handler[x].new = t
        BY <2>1, <2>2, <2>3 DEF TokenFits
    <2>5. handler[x].code = token.code
        BY <1>0, <2>1, <2>4 DEF HandlerFits
    <2> QED
        BY <2>2, <2>4, <2>5 DEF Locked
<1>16. CodeOnce'
    BY <1>1, <1>15 DEF TokensInv, CodeOnce
<1>17. \A t \in DOMAIN tokens :
        token.token # None /\ tokens[t].token = token.token => token.token \in doubled
    <2>1. SUFFICES ASSUME NEW t \in DOMAIN tokens, token.token # None,
                          tokens[t].token = token.token, token.token \notin doubled
                   PROVE  FALSE
        OBVIOUS
    <2>2. /\ token.token \in TokenIds /\ ~Locked(token.token)
          /\ h \in Refreshing(token.token)
        BY <1>5, <2>1 DEF Refreshing
    <2>3. TokenFits(t) /\ RefreshedOnce(token.token)
        BY <1>0, <2>2
    <2>4. ~tokens[t].committed
        BY <2>1, <2>2, <2>3 DEF RefreshedOnce
    <2>5. PICK x \in Handlers : handler[x].at = "inserted" /\ handler[x].new = t
        BY <2>3, <2>4 DEF TokenFits
    <2>6. handler[x].token = token.token
        BY <1>0, <2>1, <2>5 DEF HandlerFits
    <2> QED
        BY <2>2, <2>5, <2>6 DEF Locked
<1>18. ReplacedOnceUnlessRaced'
    BY <1>1, <1>2, <1>17 DEF TokensInv, ReplacedOnceUnlessRaced
<1>19. NothingOfDeletedApps' /\ CodesWereRegistered' /\ AllowedWasRegistered'
    BY <1>1, <1>2 DEF TokensInv, NothingOfDeletedApps, CodesWereRegistered, AllowedWasRegistered
<1>20. \A x \in Handlers : HandlerFits(x)'
    BY <1>6, <1>7
<1>21. \A t \in DOMAIN tokens' : TokenFits(t)'
    BY <1>1, <1>10, <1>11
<1> QED
    BY <1>8, <1>13, <1>14, <1>16, <1>18, <1>19, <1>20, <1>21

-----------------------------------------------------------------------------
(* The steps that end an insertion, and those of the user and of time.      *)

\* A commit keeps the invariant: what the token replaces is revoked with it.
LEMMA CommitKeeps ==
    ASSUME TokensInv, NEW h \in Handlers, CommitToken(h)
    PROVE  /\ \A x \in Handlers : HandlerFits(x)'
           /\ NewsApart'
           /\ \A t \in DOMAIN tokens' : TokenFits(t)'
           /\ CodeOnce' /\ NothingOfDeletedApps' /\ CodesWereRegistered'
           /\ AllowedWasRegistered' /\ ReplacedOnceUnlessRaced'
           /\ \A q \in TokenIds : RefreshedOnce(q)'
           /\ \A t \in quiet' : QuietFits(t)'
<1>0. /\ TokensTypeOK /\ NewsApart
      /\ \A x \in Handlers : HandlerFits(x)
      /\ \A t \in DOMAIN tokens : TokenFits(t)
      /\ \A q \in TokenIds : RefreshedOnce(q)
      /\ \A t \in quiet : QuietFits(t)
    BY DEF TokensInv
<1> DEFINE new == handler[h].new
<1>1. /\ handler[h].at = "inserted" /\ new \in DOMAIN tokens
      /\ tokens[new].code = handler[h].code /\ tokens[new].token = handler[h].token
      /\ handler[h].token # None => handler[h].token \in handler[h].cut
      /\ tokens[new] \in Token
    BY <1>0, Reads DEF CommitToken, HandlerFits
<1>2. /\ DOMAIN tokens' = DOMAIN tokens
      /\ \A t \in DOMAIN tokens : t # new => tokens'[t] = tokens[t]
      /\ tokens'[new] = [tokens[new] EXCEPT !.committed = TRUE]
    BY <1>1 DEF CommitToken
<1>3. /\ tokens'[new].committed
      /\ \A t \in DOMAIN tokens :
            /\ tokens'[t].app = tokens[t].app /\ tokens'[t].scopes = tokens[t].scopes
            /\ tokens'[t].code = tokens[t].code /\ tokens'[t].token = tokens[t].token
            /\ tokens[t].committed => tokens'[t].committed
    BY <1>1, <1>2 DEF Token
<1>4. /\ used' = used \cup ({handler[h].code} \ {None})
      /\ revoked' = revoked \cup handler[h].cut
      /\ UNCHANGED <<apps, codes, next, doubled, quiet>>
    BY DEF CommitToken
<1>5. handler'[h].at = "idle" /\ \A x \in Handlers : x # h => handler'[x] = handler[x]
    BY <1>0 DEF CommitToken, TokensTypeOK, Idle
<1>6. ASSUME NEW x \in Handlers PROVE HandlerFits(x)'
    <2>1. CASE x = h
        BY <1>5, <2>1 DEF HandlerFits
    <2>2. CASE x # h
        <3>1. HandlerFits(x) /\ handler'[x] = handler[x]
            BY <1>0, <1>5, <2>2
        <3>2. handler[x].at = "inserted" => handler[x].new # new
            BY <1>0, <1>1, <2>2 DEF NewsApart
        <3> QED
            BY <1>2, <1>3, <1>4, <3>1, <3>2 DEF HandlerFits
    <2> QED
        BY <2>1, <2>2
<1>7. NewsApart'
    BY <1>0, <1>5 DEF NewsApart
<1>8. ASSUME NEW t \in DOMAIN tokens' PROVE TokenFits(t)'
    <2>1. t \in DOMAIN tokens /\ TokenFits(t)
        BY <1>0, <1>2, <1>8
    <2>2. CASE t = new
        BY <1>1, <1>3, <1>4, <2>1, <2>2 DEF TokenFits
    <2>3. CASE t # new
        <3>1. ASSUME NEW x \in Handlers, handler[x].at = "inserted", handler[x].new = t
              PROVE  handler'[x].at = "inserted" /\ handler'[x].new = t
            BY <1>5, <2>3, <3>1
        <3> QED
            BY <1>2, <1>4, <2>1, <2>3, <3>1 DEF TokenFits
    <2> QED
        BY <2>2, <2>3
<1>9. \A q : Refreshing(q)' = Refreshing(q) \ {h}
    BY <1>5 DEF Refreshing
<1>10. ASSUME NEW q \in TokenIds PROVE RefreshedOnce(q)'
    <2>1. SUFFICES ASSUME q \notin doubled'
                   PROVE  /\ \A x, y \in Refreshing(q)' : x = y
                          /\ \A s \in DOMAIN tokens' :
                                tokens'[s].token = q /\ tokens'[s].committed =>
                                    q \in revoked' /\ Refreshing(q)' = {}
        BY DEF RefreshedOnce
    <2>2. RefreshedOnce(q) /\ q \notin doubled
        BY <1>0, <1>4, <2>1
    <2>3. \A x, y \in Refreshing(q)' : x = y
        BY <1>9, <2>2 DEF RefreshedOnce
    <2>4. ASSUME NEW s \in DOMAIN tokens', tokens'[s].token = q, tokens'[s].committed
          PROVE  q \in revoked' /\ Refreshing(q)' = {}
        <3>1. CASE s # new
            BY <1>2, <1>4, <1>9, <2>2, <2>4, <3>1 DEF RefreshedOnce
        <3>2. CASE s = new
            <4>1. handler[h].token = q
                BY <1>1, <1>3, <2>4, <3>2
            <4>2. h \in Refreshing(q)
                BY <1>1, <4>1 DEF Refreshing
            <4>3. Refreshing(q)' = {}
                BY <1>9, <2>2, <4>2 DEF RefreshedOnce
            <4>4. q # None
                BY TokensAssumption
            <4> QED
                BY <1>1, <1>4, <4>1, <4>3, <4>4
        <3> QED
            BY <3>1, <3>2
    <2> QED
        BY <2>3, <2>4
<1>11. \A t \in quiet' : QuietFits(t)'
    BY <1>0, <1>2, <1>4, <1>9 DEF QuietFits
<1>12. CodeOnce' /\ NothingOfDeletedApps' /\ CodesWereRegistered' /\ AllowedWasRegistered'
    <2>1. CodeOnce'
        BY <1>2, <1>3 DEF TokensInv, CodeOnce
    <2>2. NothingOfDeletedApps' /\ CodesWereRegistered'
        BY <1>2, <1>3, <1>4 DEF TokensInv, NothingOfDeletedApps, CodesWereRegistered
    <2>3. AllowedWasRegistered'
        <3>1. ASSUME NEW t \in DOMAIN tokens
              PROVE  Allowed(tokens'[t].scopes) \subseteq Allowed(Registered[tokens'[t].app])
            <4>1. tokens'[t].app = tokens[t].app /\ tokens'[t].scopes = tokens[t].scopes
                BY <1>3
            <4> QED
                BY <4>1 DEF TokensInv, AllowedWasRegistered
        <3> QED
            BY <1>2, <3>1 DEF AllowedWasRegistered
    <2> QED
        BY <2>1, <2>2, <2>3
<1>13. ReplacedOnceUnlessRaced'
    BY <1>2, <1>3, <1>4 DEF TokensInv, ReplacedOnceUnlessRaced
<1> QED
    BY <1>6, <1>7, <1>8, <1>10, <1>11, <1>12, <1>13

\* So does a transaction that is rolled back: nobody had seen the token.
LEMMA RollbackKeeps ==
    ASSUME TokensInv, NEW h \in Handlers, AbortToken(h), handler[h].at = "inserted"
    PROVE  /\ \A x \in Handlers : HandlerFits(x)'
           /\ NewsApart'
           /\ \A t \in DOMAIN tokens' : TokenFits(t)'
           /\ CodeOnce' /\ NothingOfDeletedApps' /\ CodesWereRegistered'
           /\ AllowedWasRegistered' /\ ReplacedOnceUnlessRaced'
           /\ \A q \in TokenIds : RefreshedOnce(q)'
           /\ \A t \in quiet' : QuietFits(t)'
<1>0. /\ TokensTypeOK /\ NewsApart
      /\ \A x \in Handlers : HandlerFits(x)
      /\ \A t \in DOMAIN tokens : TokenFits(t)
      /\ \A q \in TokenIds : RefreshedOnce(q)
      /\ \A t \in quiet : QuietFits(t)
    BY DEF TokensInv
<1> DEFINE new == handler[h].new
<1>1. /\ DOMAIN tokens' = DOMAIN tokens \ {new}
      /\ \A t \in DOMAIN tokens' : tokens'[t] = tokens[t]
      /\ UNCHANGED <<apps, codes, used, revoked, next, doubled, quiet>>
    BY DEF AbortToken
<1>2. handler'[h].at = "idle" /\ \A x \in Handlers : x # h => handler'[x] = handler[x]
    BY <1>0 DEF AbortToken, TokensTypeOK, Idle
<1>3. ASSUME NEW x \in Handlers PROVE HandlerFits(x)'
    <2>1. CASE x = h
        BY <1>2, <2>1 DEF HandlerFits
    <2>2. CASE x # h
        <3>1. HandlerFits(x) /\ handler'[x] = handler[x]
            BY <1>0, <1>2, <2>2
        <3>2. handler[x].at = "inserted" => handler[x].new # new
            BY <1>0, <2>2 DEF NewsApart
        <3> QED
            BY <1>1, <3>1, <3>2 DEF HandlerFits
    <2> QED
        BY <2>1, <2>2
<1>4. NewsApart'
    BY <1>0, <1>2 DEF NewsApart
<1>5. ASSUME NEW t \in DOMAIN tokens' PROVE TokenFits(t)'
    <2>1. t \in DOMAIN tokens /\ TokenFits(t) /\ t # new
        BY <1>0, <1>1, <1>5
    <2>2. ASSUME NEW x \in Handlers, handler[x].at = "inserted", handler[x].new = t
          PROVE  handler'[x].at = "inserted" /\ handler'[x].new = t
        BY <1>2, <2>1, <2>2
    <2> QED
        BY <1>1, <2>1, <2>2 DEF TokenFits
<1>6. \A q : Refreshing(q)' \subseteq Refreshing(q)
    BY <1>2 DEF Refreshing
<1>7. \A q \in TokenIds : RefreshedOnce(q)'
    BY <1>0, <1>1, <1>6 DEF RefreshedOnce
<1>8. \A t \in quiet' : QuietFits(t)'
    BY <1>0, <1>1, <1>6 DEF QuietFits
<1>9. CodeOnce' /\ NothingOfDeletedApps' /\ CodesWereRegistered' /\ AllowedWasRegistered'
    BY <1>1 DEF TokensInv, CodeOnce, NothingOfDeletedApps, CodesWereRegistered,
                AllowedWasRegistered
<1>10. ReplacedOnceUnlessRaced'
    BY <1>1 DEF TokensInv, ReplacedOnceUnlessRaced
<1> QED
    BY <1>3, <1>4, <1>5, <1>7, <1>8, <1>9, <1>10

\* The deletion of an application waits for the transactions that hold its row.
LEMMA DeleteKeeps ==
    ASSUME TokensInv, NEW a \in Apps, DeleteApp(a)
    PROVE  /\ \A x \in Handlers : HandlerFits(x)'
           /\ NewsApart'
           /\ \A t \in DOMAIN tokens' : TokenFits(t)'
           /\ CodeOnce' /\ NothingOfDeletedApps' /\ CodesWereRegistered'
           /\ AllowedWasRegistered' /\ ReplacedOnceUnlessRaced'
           /\ \A q \in TokenIds : RefreshedOnce(q)'
           /\ \A t \in quiet' : QuietFits(t)'
<1>0. /\ TokensTypeOK /\ NewsApart
      /\ \A x \in Handlers : HandlerFits(x)
      /\ \A t \in DOMAIN tokens : TokenFits(t)
      /\ \A q \in TokenIds : RefreshedOnce(q)
      /\ \A t \in quiet : QuietFits(t)
    BY DEF TokensInv
<1>1. /\ DOMAIN tokens' = {t \in DOMAIN tokens : t \notin Visible \/ tokens[t].app # a}
      /\ \A t \in DOMAIN tokens' : tokens'[t] = tokens[t]
      /\ DOMAIN codes' = {c \in DOMAIN codes : codes[c].app # a}
      /\ \A c \in DOMAIN codes' : codes'[c] = codes[c]
      /\ apps' = apps \ {a} /\ used \subseteq used' /\ ~Referred(a)
      /\ UNCHANGED <<revoked, next, handler, doubled, quiet>>
    BY DEF DeleteApp
<1>2. \A t \in DOMAIN tokens : ~tokens[t].committed => t \in DOMAIN tokens'
    BY <1>1 DEF Visible
<1>3. \A x \in Handlers : HandlerFits(x)'
    BY <1>0, <1>1, <1>2 DEF HandlerFits
<1>4. NewsApart'
    BY <1>0, <1>1 DEF NewsApart
<1>5. \A t \in DOMAIN tokens' : TokenFits(t)'
    BY <1>0, <1>1 DEF TokenFits
<1>6. \A q : Refreshing(q)' = Refreshing(q)
    BY <1>1 DEF Refreshing
<1>7. \A q \in TokenIds : RefreshedOnce(q)'
    BY <1>0, <1>1, <1>6 DEF RefreshedOnce
<1>8. \A t \in quiet' : QuietFits(t)'
    BY <1>0, <1>1, <1>6 DEF QuietFits
<1>9. CodeOnce' /\ CodesWereRegistered' /\ AllowedWasRegistered' /\ ReplacedOnceUnlessRaced'
    BY <1>1 DEF TokensInv, CodeOnce, CodesWereRegistered, AllowedWasRegistered,
                ReplacedOnceUnlessRaced
<1>10. \A t \in DOMAIN tokens : ~tokens[t].committed => tokens[t].app # a
    <2>1. SUFFICES ASSUME NEW t \in DOMAIN tokens, ~tokens[t].committed, tokens[t].app = a
                   PROVE  FALSE
        OBVIOUS
    <2>2. PICK x \in Handlers : handler[x].at = "inserted" /\ handler[x].new = t
        BY <1>0, <2>1 DEF TokenFits
    <2>3. tokens[t].user \in Users
        BY <1>0, <2>1, Reads DEF Token
    <2>4. x \in Inserting(a, tokens[t].user)
        BY <2>1, <2>2 DEF Inserting
    <2> QED
        BY <1>1, <2>2, <2>3, <2>4 DEF Referred
<1>11. NothingOfDeletedApps'
    <2>1. \A t \in DOMAIN tokens' : tokens[t].app # a
        BY <1>1, <1>10 DEF Visible
    <2> QED
        BY <1>1, <2>1 DEF TokensInv, NothingOfDeletedApps
<1> QED
    BY <1>3, <1>4, <1>5, <1>7, <1>8, <1>9, <1>11

\* Issuing a code and the passing of time.
LEMMA AsideKeeps ==
    ASSUME TokensInv,
           \/ Lapse
           \/ \E a \in Apps, u \in Users, scopes \in SUBSET Scopes, c \in Codes :
                 AuthorizeCode(a, u, scopes, c)
    PROVE  /\ \A x \in Handlers : HandlerFits(x)'
           /\ NewsApart'
           /\ \A t \in DOMAIN tokens' : TokenFits(t)'
           /\ CodeOnce' /\ NothingOfDeletedApps' /\ CodesWereRegistered'
           /\ AllowedWasRegistered' /\ ReplacedOnceUnlessRaced'
           /\ \A q \in TokenIds : RefreshedOnce(q)'
           /\ \A t \in quiet' : QuietFits(t)'
<1>1. UNCHANGED <<apps, used, tokens, revoked, next, handler, doubled, quiet>>
    BY DEF Lapse, AuthorizeCode
<1>2. (\A c \in DOMAIN codes' : codes'[c].app \in apps) /\ CodesWereRegistered'
    <2>1. CASE Lapse
        BY <2>1 DEF Lapse, TokensInv, NothingOfDeletedApps, CodesWereRegistered
    <2>2. ASSUME NEW a \in Apps, NEW u \in Users, NEW scopes \in SUBSET Scopes, NEW c \in Codes,
                 AuthorizeCode(a, u, scopes, c)
          PROVE  (\A x \in DOMAIN codes' : codes'[x].app \in apps) /\ CodesWereRegistered'
        <3>1. /\ DOMAIN codes' = DOMAIN codes \cup {c} /\ c \notin DOMAIN codes
              /\ codes'[c] = [app |-> a, user |-> u, scopes |-> Requested(a, scopes)]
              /\ \A x \in DOMAIN codes : codes'[x] = codes[x]
              /\ ValidRequest(a, scopes)
            BY <2>2 DEF AuthorizeCode
        <3>2. Allowed(Requested(a, scopes)) \subseteq Allowed(Registered[a]) /\ a \in apps
            BY <3>1, TokensAssumption DEF Allowed, Requested, ValidRequest, OAuthAppAllowsScope
        <3>3. codes'[c].app = a /\ codes'[c].scopes = Requested(a, scopes)
            BY <3>1
        <3> QED
            BY <3>1, <3>2, <3>3 DEF TokensInv, NothingOfDeletedApps, CodesWereRegistered
    <2> QED
        BY <2>1, <2>2
<1>3. NothingOfDeletedApps'
    BY <1>1, <1>2 DEF TokensInv, NothingOfDeletedApps
<1>4. CodeOnce' /\ AllowedWasRegistered' /\ ReplacedOnceUnlessRaced'
    BY <1>1 DEF TokensInv, CodeOnce, AllowedWasRegistered, ReplacedOnceUnlessRaced
<1>5. \A q : Refreshing(q)' = Refreshing(q)
    BY <1>1 DEF Refreshing
<1>6. /\ \A q \in TokenIds : RefreshedOnce(q)'
      /\ \A t \in quiet' : QuietFits(t)'
    BY <1>1, <1>5 DEF TokensInv, RefreshedOnce, QuietFits
<1>7. /\ \A x \in Handlers : HandlerFits(x)'
      /\ NewsApart'
      /\ \A t \in DOMAIN tokens' : TokenFits(t)'
    BY <1>1 DEF TokensInv, HandlerFits, NewsApart, TokenFits
<1> QED
    BY <1>2, <1>3, <1>4, <1>6, <1>7

-----------------------------------------------------------------------------
(* The invariant.                                                           *)

LEMMA TokensInvInit == TokensInit => TokensInv
<1>1. ASSUME TokensInit PROVE TokensInv
    <2>1. TokensTypeOK
        BY <1>1, TokensTypeInit
    <2>2. /\ DOMAIN codes = {} /\ DOMAIN tokens = {} /\ quiet = {}
          /\ \A h \in Handlers : handler[h].at = "idle"
        BY <1>1 DEF TokensInit, Idle
    <2>3. (\A h \in Handlers : HandlerFits(h)) /\ NewsApart
        BY <2>2 DEF HandlerFits, NewsApart
    <2>4. \A r \in TokenIds : RefreshedOnce(r)
        BY <2>2 DEF RefreshedOnce, Refreshing
    <2>5. /\ CodeOnce /\ NothingOfDeletedApps /\ CodesWereRegistered /\ AllowedWasRegistered
          /\ ReplacedOnceUnlessRaced
        BY <2>2 DEF CodeOnce, NothingOfDeletedApps, CodesWereRegistered, AllowedWasRegistered,
                    ReplacedOnceUnlessRaced
    <2> QED
        BY <2>1, <2>2, <2>3, <2>4, <2>5 DEF TokensInv
<1> QED
    BY <1>1

\* The kinds of steps are all there are.
LEMMA TokensSteps ==
    ASSUME TokensNext
    PROVE  \/ Lapse
           \/ \E a \in Apps, u \in Users, scopes \in SUBSET Scopes, c \in Codes :
                 AuthorizeCode(a, u, scopes, c)
           \/ \E a \in Apps : DeleteApp(a)
           \/ \E h \in Handlers :
                 \/ \E c \in Codes : StartExchange(h, c)
                 \/ \E t \in TokenIds : StartRefresh(h, t) \/ StartRevoke(h, t)
           \/ \E h \in Handlers :
                 \/ SelectCode(h) \/ SelectToken(h) \/ TrimImplicit(h) \/ RevokeToken(h)
                 \/ AbortToken(h) /\ handler[h].at # "inserted"
                 \/ ExchangeCode(h) /\ ~Claimable(handler[h].code)
                 \/ RefreshToken(h) /\ handler[h].token \notin DOMAIN tokens
           \/ \E h \in Handlers :
                 \/ \E a \in Apps, u \in Users, scopes \in SUBSET Scopes :
                       ImplicitToken(h, a, u, scopes)
                 \/ ExchangeCode(h) /\ Claimable(handler[h].code)
                 \/ RefreshToken(h) /\ handler[h].token \in DOMAIN tokens
           \/ \E h \in Handlers : CommitToken(h)
           \/ \E h \in Handlers : AbortToken(h) /\ handler[h].at = "inserted"
<1>1. \/ Lapse
      \/ \E a \in Apps : DeleteApp(a)
      \/ \E a \in Apps, u \in Users, scopes \in SUBSET Scopes, c \in Codes :
            AuthorizeCode(a, u, scopes, c)
      \/ \E h \in Handlers :
            \/ \E a \in Apps, u \in Users, scopes \in SUBSET Scopes :
                  ImplicitToken(h, a, u, scopes)
            \/ \E c \in Codes : StartExchange(h, c)
            \/ \E t \in TokenIds : StartRefresh(h, t) \/ StartRevoke(h, t)
            \/ HandlerStep(h) \/ AbortToken(h)
    BY Zenon DEF TokensNext
<1> QED
    BY <1>1 DEF HandlerStep

LEMMA TokensTypeNext ==
    ASSUME TokensInv, TokensNext
    PROVE  TokensTypeOK'
<1>0. TokensTypeOK /\ \A h \in Handlers : HandlerFits(h)
    BY DEF TokensInv
<1>1. CASE Lapse
    BY <1>0, <1>1, TokensTypeOther
<1>2. CASE \E a \in Apps, u \in Users, scopes \in SUBSET Scopes, c \in Codes :
                AuthorizeCode(a, u, scopes, c)
    BY <1>0, <1>2, TokensTypeOther
<1>3. CASE \E a \in Apps : DeleteApp(a)
    BY <1>0, <1>3, TokensTypeOther
<1>4. ASSUME NEW h \in Handlers,
             \/ \E c \in Codes : StartExchange(h, c)
             \/ \E t \in TokenIds : StartRefresh(h, t) \/ StartRevoke(h, t)
      PROVE  TokensTypeOK'
    BY <1>0, <1>4, TokensTypeOther
<1>5. ASSUME NEW h \in Handlers,
             \/ \E a \in Apps, u \in Users, scopes \in SUBSET Scopes :
                   ImplicitToken(h, a, u, scopes)
             \/ ExchangeCode(h)
             \/ RefreshToken(h)
      PROVE  TokensTypeOK'
    BY <1>0, <1>5, TokensTypeInsert
<1>6. ASSUME NEW h \in Handlers,
             \/ SelectCode(h) \/ SelectToken(h) \/ TrimImplicit(h) \/ RevokeToken(h)
             \/ AbortToken(h) \/ CommitToken(h)
      PROVE  TokensTypeOK'
    BY <1>0, <1>6, TokensTypeGoOn
<1> QED
    BY TokensSteps, <1>1, <1>2, <1>3, <1>4, <1>5, <1>6

LEMMA TokensInvNext ==
    ASSUME TokensInv, [TokensNext]_tokenVars
    PROVE  TokensInv'
<1>1. CASE UNCHANGED tokenVars
    <2>1. UNCHANGED <<apps, codes, used, tokens, revoked, lapsed, next, handler, doubled,
                      crowded, quiet>>
        BY <1>1 DEF tokenVars
    <2>2. TokensTypeOK'
        BY <2>1 DEF TokensInv, TokensTypeOK
    <2>3. \A q : Refreshing(q)' = Refreshing(q)
        BY <2>1 DEF Refreshing
    <2>4. /\ \A q \in TokenIds : RefreshedOnce(q)'
          /\ \A t \in quiet' : QuietFits(t)'
        BY <2>1, <2>3 DEF TokensInv, RefreshedOnce, QuietFits
    <2>5. /\ \A x \in Handlers : HandlerFits(x)'
          /\ NewsApart'
          /\ \A t \in DOMAIN tokens' : TokenFits(t)'
        BY <2>1 DEF TokensInv, HandlerFits, NewsApart, TokenFits
    <2>6. /\ CodeOnce' /\ NothingOfDeletedApps' /\ CodesWereRegistered'
          /\ AllowedWasRegistered' /\ ReplacedOnceUnlessRaced'
        BY <2>1 DEF TokensInv, CodeOnce, NothingOfDeletedApps, CodesWereRegistered,
                    AllowedWasRegistered, ReplacedOnceUnlessRaced
    <2> QED
        BY <2>2, <2>4, <2>5, <2>6 DEF TokensInv
<1>2. CASE TokensNext
    <2>1. TokensTypeOK'
        BY <1>2, TokensTypeNext
    <2>2. /\ \A x \in Handlers : HandlerFits(x)'
          /\ NewsApart'
          /\ \A t \in DOMAIN tokens' : TokenFits(t)'
          /\ CodeOnce' /\ NothingOfDeletedApps' /\ CodesWereRegistered'
          /\ AllowedWasRegistered' /\ ReplacedOnceUnlessRaced'
          /\ \A q \in TokenIds : RefreshedOnce(q)'
          /\ \A t \in quiet' : QuietFits(t)'
        <3>1. CASE \/ Lapse
                   \/ \E a \in Apps, u \in Users, scopes \in SUBSET Scopes, c \in Codes :
                         AuthorizeCode(a, u, scopes, c)
            BY <3>1, AsideKeeps
        <3>2. CASE \E a \in Apps : DeleteApp(a)
            BY <3>2, DeleteKeeps
        <3>3. CASE \E h \in Handlers : \E r \in HandlerRecords : Between(h, r)
            BY <3>3, BetweenKeeps
        <3>4. CASE \E h \in Handlers : \E token \in Token : \E stage, cut :
                        /\ Inserts(h, token, stage, cut)
                        /\ Allowed(token.scopes) \subseteq Allowed(Registered[token.app])
            BY <3>4, InsertKeeps
        <3>5. CASE \E h \in Handlers : CommitToken(h)
            BY <3>5, CommitKeeps
        <3>6. CASE \E h \in Handlers : AbortToken(h) /\ handler[h].at = "inserted"
            BY <3>6, RollbackKeeps
        <3> QED
            BY <1>2, <3>1, <3>2, <3>3, <3>4, <3>5, <3>6, TokensSteps, StartsBetween,
               GoesOnBetween, InsertsToken
    <2> QED
        BY <2>1, <2>2 DEF TokensInv
<1> QED
    BY <1>1, <1>2

\* The invariant holds in every reachable state.
THEOREM TokensInvariant == TokensSpec => []TokensInv
    BY TokensInvInit, TokensInvNext, PTL DEF TokensSpec

-----------------------------------------------------------------------------
(* What is promised.                                                        *)

\* Every variable keeps its type (the tables and requests of OAuth).
THEOREM TokensTyped == TokensSpec => []TokensTypeOK
<1>1. TokensInv => TokensTypeOK
    BY DEF TokensInv
<1> QED
    BY <1>1, TokensInvariant, PTL

\* However many exchanges of a code overlap, one token comes from it
\* (ExchangeOAuthAuthorizationCode: the update that looks at used_at again).
THEOREM CodesGiveOneToken == TokensSpec => []CodeOnce
<1>1. TokensInv => CodeOnce
    BY DEF TokensInv
<1> QED
    BY <1>1, TokensInvariant, PTL

\* Two tokens replace one only if two refreshes had read it at the same time
\* (RefreshOAuthToken: the update that does not look at revoked_at again).
THEOREM RefreshedTokensReplacedOnce == TokensSpec => []ReplacedOnceUnlessRaced
<1>1. TokensInv => ReplacedOnceUnlessRaced
    BY DEF TokensInv
<1> QED
    BY <1>1, TokensInvariant, PTL

\* No token or code outlives its application, in whatever order the deletion
\* and the transactions of its tokens run (ON DELETE CASCADE and row locks).
THEOREM DeletedAppsHaveNothing == TokensSpec => []NothingOfDeletedApps
<1>1. TokensInv => NothingOfDeletedApps
    BY DEF TokensInv
<1> QED
    BY <1>1, TokensInvariant, PTL

\* No chain of codes and refreshes allows more than the application is
\* registered for (OAuthAppAllowsScope).
THEOREM TokensAllowRegistered == TokensSpec => []AllowedWasRegistered
<1>1. TokensInv => AllowedWasRegistered
    BY DEF TokensInv
<1> QED
    BY <1>1, TokensInvariant, PTL

LEMMA QuietTokensEnd ==
    ASSUME TokensInv, TokensNext, NEW t \in quiet
    PROVE  Successors(t)' \subseteq Successors(t)
<1>0. /\ TokensTypeOK /\ Refreshing(t) = {} /\ t \in TokenIds
      /\ None \notin TokenIds
    BY TokensAssumption DEF TokensInv, QuietFits, TokensTypeOK
<1>1. CASE \E h \in Handlers : \E token \in Token : \E stage, cut :
                Inserts(h, token, stage, cut)
    <2>1. PICK h \in Handlers, token \in Token : \E stage, cut : Inserts(h, token, stage, cut)
        BY <1>1
    <2>2. PICK stage, cut : Inserts(h, token, stage, cut)
        BY <2>1
    <2>3. /\ DOMAIN tokens' = DOMAIN tokens \cup {next}
          /\ tokens'[next] = token /\ \A s \in DOMAIN tokens : tokens'[s] = tokens[s]
        BY <2>2, InsertFrame DEF Inserts
    <2>4. token.token # t
        BY <1>0, <2>2 DEF Inserts, Refreshing
    <2> QED
        BY <2>3, <2>4 DEF Successors
<1>2. CASE \E h \in Handlers : \E r \in HandlerRecords : Between(h, r)
    BY <1>2 DEF Between, Successors
<1>3. CASE \/ Lapse
           \/ \E a \in Apps, u \in Users, scopes \in SUBSET Scopes, c \in Codes :
                 AuthorizeCode(a, u, scopes, c)
    <2>1. tokens' = tokens
        BY <1>3 DEF Lapse, AuthorizeCode
    <2> QED
        BY <2>1 DEF Successors
<1>4. CASE \E a \in Apps : DeleteApp(a)
    <2>1. /\ DOMAIN tokens' \subseteq DOMAIN tokens
          /\ \A s \in DOMAIN tokens' : tokens'[s] = tokens[s]
        BY <1>4 DEF DeleteApp
    <2> QED
        BY <2>1 DEF Successors
<1>5. CASE \E h \in Handlers : CommitToken(h)
    <2>1. PICK h \in Handlers : CommitToken(h)
        BY <1>5
    <2>2. /\ DOMAIN tokens' = DOMAIN tokens
          /\ \A s \in DOMAIN tokens : tokens[s] \in Token
          /\ \A s \in DOMAIN tokens :
                \/ tokens'[s] = tokens[s]
                \/ tokens'[s] = [tokens[s] EXCEPT !.committed = TRUE]
        BY <1>0, <2>1, Reads DEF CommitToken
    <2>3. \A s \in DOMAIN tokens : tokens'[s].token = tokens[s].token
        BY <2>2 DEF Token
    <2> QED
        BY <2>2, <2>3 DEF Successors
<1>6. CASE \E h \in Handlers : AbortToken(h) /\ handler[h].at = "inserted"
    <2>1. /\ DOMAIN tokens' \subseteq DOMAIN tokens
          /\ \A s \in DOMAIN tokens' : tokens'[s] = tokens[s]
        BY <1>6 DEF AbortToken
    <2> QED
        BY <2>1 DEF Successors
<1> QED
    BY <1>1, <1>2, <1>3, <1>4, <1>5, <1>6, TokensSteps, StartsBetween, GoesOnBetween,
       InsertsToken

\* Once a revocation was answered while no refresh of the token was under way,
\* no step ever replaces that token (RevokeOAuthToken, RefreshOAuthToken).
THEOREM RevokedTokensEnd == TokensSpec => RevokedHasNoSuccessor
<1>1. TokensInv /\ [TokensNext]_tokenVars =>
        [\A t \in quiet : Successors(t)' \subseteq Successors(t)]_tokenVars
    BY QuietTokensEnd
<1> QED
    BY <1>1, TokensInvariant, PTL DEF TokensSpec, RevokedHasNoSuccessor


-----------------------------------------------------------------------------
(* How many tokens are kept.                                                *)

\* A set of numbers has a least one.
LEMMA LeastOf == \A S \in SUBSET Nat : S # {} => \E m \in S : \A n \in S : m <= n
<1> SUFFICES ASSUME NEW S \in SUBSET Nat, S # {}
             PROVE  \E m \in S : \A n \in S : m <= n
    OBVIOUS
<1> DEFINE R == {ss \in Nat \X Nat : ss[1] < ss[2]}
<1>1. IsWellFoundedOn(R, Nat)
    BY NatLessThanWellFounded DEF OpToRel
<1>2. \A m, n \in Nat : m < n => <<m, n>> \in R
    OBVIOUS
<1> HIDE DEF R
<1>3. PICK m \in S : \A n \in S : ~(<<n, m>> \in R)
    BY <1>1, WFMin
<1>4. \A n \in S : m <= n
    <2>1. \A n \in S : n \in Nat /\ m \in Nat /\ ~(n < m)
        BY <1>2, <1>3
    <2> QED
        BY <2>1
<1> QED
    BY <1>4

\* A set of tokens is finite, and a part of it has no more.
LEMMA Fewer ==
    ASSUME NEW S, S \subseteq TokenIds, NEW T, T \subseteq S
    PROVE  /\ IsFiniteSet(S) /\ IsFiniteSet(T)
           /\ Cardinality(S) \in Nat /\ Cardinality(T) \in Nat
           /\ Cardinality(T) <= Cardinality(S)
<1>1. IsFiniteSet(TokenIds)
    BY FS_Interval, TokensAssumption DEF TokenIds
<1>2. IsFiniteSet(S)
    BY <1>1, FS_Subset
<1> QED
    BY <1>2, FS_Subset, FS_CardinalityType

\* What is kept of a set are at most Keep.
LEMMA KeepsFew ==
    ASSUME NEW S, S \subseteq TokenIds
    PROVE  Cardinality(S \ Beyond(S)) <= Keep
<1>1. Keep \in Nat /\ S \subseteq Nat
    BY TokensAssumption DEF TokenIds
<1> DEFINE K == S \ Beyond(S)
<1>2. CASE K = {}
    BY <1>1, <1>2, FS_EmptySet
<1>3. CASE K # {}
    <2>1. PICK m \in K : \A n \in K : m <= n
        BY <1>1, <1>3, LeastOf
    <2> DEFINE N == {s \in S : s >= m}
    <2>2. ~(Cardinality(N) > Keep)
        BY <2>1 DEF Beyond
    <2>3. K \subseteq N
        BY <1>1, <2>1
    <2>4. N \subseteq TokenIds
        OBVIOUS
    <2> HIDE DEF N, K
    <2>5. /\ Cardinality(N) \in Nat /\ Cardinality(K) \in Nat
          /\ Cardinality(K) <= Cardinality(N)
        BY <2>3, <2>4, Fewer
    <2>6. Cardinality(K) <= Keep
        BY <1>1, <2>2, <2>5
    <2> QED
        BY <2>6 DEF K
<1> QED
    BY <1>2, <1>3

\* An insertion that others did not overlap is the only one of its application
\* and user.
AloneFits(h) ==
    /\ handler[h].at \in {"inserted", "untrimmed"} /\ handler[h].alone
    /\ handler[h].new \in DOMAIN tokens
    => Inserting(tokens[handler[h].new].app, tokens[handler[h].new].user) \subseteq {h}

\* What its commit leaves is few.
CutFits(h) ==
    LET new == handler[h].new IN
    handler[h].at = "inserted" /\ handler[h].alone =>
        Cardinality(({new} \cup Of(Live, tokens[new].app, tokens[new].user)) \ handler[h].cut)
            <= Keep

KeptInv ==
    /\ \A h \in Handlers : AloneFits(h)
    /\ \A h \in Handlers : CutFits(h)
    /\ KeptUnlessCrowded

\* A handler that keeps its insertion keeps its part of the invariant, if what
\* it inserted stays whose it is, no other insertion joins it while it is alone,
\* and no token joins those it found.
LEMMA FitsKept ==
    ASSUME TokensInv, TokensInv', KeptInv, NEW h \in Handlers, NEW a, NEW u,
           /\ handler'[h].at = handler[h].at /\ handler'[h].new = handler[h].new
           /\ handler'[h].cut = handler[h].cut
           /\ handler'[h].alone => handler[h].alone,
           handler[h].at \in {"inserted", "untrimmed"},
           handler[h].new \in DOMAIN tokens' =>
              /\ handler[h].new \in DOMAIN tokens
              /\ tokens[handler[h].new].app = a /\ tokens[handler[h].new].user = u
              /\ tokens'[handler[h].new].app = a /\ tokens'[handler[h].new].user = u,
           handler'[h].alone => Inserting(a, u)' \subseteq Inserting(a, u),
           handler'[h].alone => Of(Live, a, u)' \subseteq Of(Live, a, u)
    PROVE  AloneFits(h)' /\ CutFits(h)'
<1>1. AloneFits(h) /\ CutFits(h)
    BY DEF KeptInv
<1>2. AloneFits(h)'
    BY <1>1 DEF AloneFits
<1>3. CutFits(h)'
    <2>1. SUFFICES ASSUME handler'[h].at = "inserted", handler'[h].alone
                   PROVE  CutFits(h)'
        BY DEF CutFits
    <2> DEFINE new == handler[h].new
    <2>2. new \in DOMAIN tokens'
        BY <2>1 DEF TokensInv, HandlerFits
    <2> DEFINE before == ({new} \cup Of(Live, a, u)) \ handler[h].cut
               after == ({new} \cup Of(Live, a, u)') \ handler[h].cut
    <2>3. /\ CutFits(h)' <=> Cardinality(after) <= Keep
          /\ Cardinality(before) <= Keep
        BY <1>1, <2>1, <2>2 DEF CutFits
    <2>4. after \subseteq before
        BY <2>1
    <2>5. before \subseteq TokenIds
        BY <2>2 DEF TokensInv, TokensTypeOK, Of, Live, Visible
    <2> HIDE DEF before, after
    <2>6. /\ Cardinality(before) \in Nat /\ Cardinality(after) \in Nat
          /\ Cardinality(after) <= Cardinality(before)
        BY <2>4, <2>5, Fewer
    <2>7. Keep \in Nat
        BY TokensAssumption
    <2> QED
        BY <2>3, <2>6, <2>7
<1> QED
    BY <1>2, <1>3

\* An application and a user whose tokens only get fewer stay within Keep.
LEMMA PairKept ==
    ASSUME TokensInv, TokensInv', NEW a, NEW u,
           Of(Live, a, u)' \subseteq Of(Live, a, u), Cardinality(Of(Live, a, u)) <= Keep
    PROVE  Cardinality(Of(Live, a, u)') <= Keep
<1>1. Of(Live, a, u) \subseteq TokenIds
    BY DEF TokensInv, TokensTypeOK, Of, Live, Visible
<1> DEFINE before == Of(Live, a, u)
           after == Of(Live, a, u)'
<1> HIDE DEF before, after
<1>2. /\ Cardinality(before) \in Nat /\ Cardinality(after) \in Nat
      /\ Cardinality(after) <= Cardinality(before)
    BY <1>1, Fewer DEF before, after
<1>3. Keep \in Nat
    BY TokensAssumption
<1> QED
    BY <1>2, <1>3 DEF before, after

\* No insertion begins or ends, no token joins and none is revoked in vain.
LEMMA CalmKeeps ==
    ASSUME TokensInv, TokensInv', KeptInv,
           UNCHANGED <<tokens, crowded>>, revoked \subseteq revoked',
           \A x \in Handlers :
              {handler[x].at, handler'[x].at} \cap {"inserted", "untrimmed"} # {} =>
                  handler'[x] = handler[x]
    PROVE  KeptInv'
<1>1. \A a, u : Of(Live, a, u)' \subseteq Of(Live, a, u)
    BY DEF Of, Live, Visible
<1>2. \A a, u : Inserting(a, u)' = Inserting(a, u)
    BY DEF Inserting
<1>3. ASSUME NEW h \in Handlers PROVE AloneFits(h)' /\ CutFits(h)'
    <2>1. CASE handler'[h].at \in {"inserted", "untrimmed"}
        <3>1. handler'[h] = handler[h]
            BY <2>1
        <3>2. PICK a, u :
                  a = tokens[handler[h].new].app /\ u = tokens[handler[h].new].user
            OBVIOUS
        <3> QED
            BY <1>1, <1>2, <2>1, <3>1, <3>2, FitsKept
    <2>2. CASE handler'[h].at \notin {"inserted", "untrimmed"}
        BY <2>2 DEF AloneFits, CutFits
    <2> QED
        BY <2>1, <2>2
<1>4. KeptUnlessCrowded'
    <2>1. SUFFICES ASSUME NEW a \in Apps, NEW u \in Users,
                          ~(Cardinality(Of(Live, a, u)') <= Keep), <<a, u>> \notin crowded'
                   PROVE  \E h \in Inserting(a, u)' : handler'[h].at = "untrimmed"
        BY DEF KeptUnlessCrowded
    <2>2. ~(Cardinality(Of(Live, a, u)) <= Keep)
        BY <1>1, <2>1, PairKept
    <2>3. PICK h \in Inserting(a, u) : handler[h].at = "untrimmed"
        BY <2>1, <2>2 DEF KeptInv, KeptUnlessCrowded
    <2> QED
        BY <1>2, <2>3 DEF Inserting
<1> QED
    BY <1>3, <1>4 DEF KeptInv

\* When a handler is done with its insertion, no other has begun.
LEMMA InsertingFewer ==
    ASSUME NEW h \in Handlers,
           handler'[h] = Idle, \A x \in Handlers \ {h} : handler'[x] = handler[x],
           DOMAIN tokens' \subseteq DOMAIN tokens,
           \A t \in DOMAIN tokens' :
              tokens'[t].app = tokens[t].app /\ tokens'[t].user = tokens[t].user
    PROVE  \A a, u : Inserting(a, u)' \subseteq Inserting(a, u)
<1>1. SUFFICES ASSUME NEW a, NEW u, NEW y \in Inserting(a, u)'
               PROVE  y \in Inserting(a, u)
    OBVIOUS
<1>2. /\ y \in Handlers /\ handler'[y].at \in {"inserted", "untrimmed"}
      /\ handler'[y].new \in DOMAIN tokens'
      /\ tokens'[handler'[y].new].app = a /\ tokens'[handler'[y].new].user = u
    BY DEF Inserting
<1>3. y # h
    BY <1>2 DEF Idle
<1>4. handler'[y] = handler[y]
    BY <1>2, <1>3
<1> QED
    BY <1>2, <1>4 DEF Inserting

\* An insertion that ends, with its trimming, its commit, its rollback or cut
\* short: the others keep their part of the invariant if the tokens of an
\* application and user get more only by the end of an insertion of theirs.
LEMMA EndsKept ==
    ASSUME TokensInv, TokensInv', KeptInv, NEW h \in Handlers,
           handler' = [handler EXCEPT ![h] = Idle],
           handler[h].at \in {"inserted", "untrimmed"},
           DOMAIN tokens' \subseteq DOMAIN tokens,
           \A t \in DOMAIN tokens' :
              tokens'[t].app = tokens[t].app /\ tokens'[t].user = tokens[t].user,
           \A a, u : h \notin Inserting(a, u) => Of(Live, a, u)' \subseteq Of(Live, a, u)
    PROVE  \A x \in Handlers : AloneFits(x)' /\ CutFits(x)'
<1>0. handler'[h] = Idle /\ \A x \in Handlers \ {h} : handler'[x] = handler[x]
    BY DEF TokensInv, TokensTypeOK
<1>1. AloneFits(h)' /\ CutFits(h)'
    BY <1>0 DEF AloneFits, CutFits, Idle
<1>2. ASSUME NEW x \in Handlers \ {h}, handler[x].at \in {"inserted", "untrimmed"}
      PROVE  AloneFits(x)' /\ CutFits(x)'
    <2>1. handler'[x] = handler[x]
        BY <1>0
    <2>2. CASE handler[x].new \in DOMAIN tokens'
        <3>0. PICK a, u : a = tokens[handler[x].new].app /\ u = tokens[handler[x].new].user
            OBVIOUS
        <3>1. /\ handler[x].new \in DOMAIN tokens
              /\ tokens'[handler[x].new].app = a /\ tokens'[handler[x].new].user = u
            BY <2>2, <3>0
        <3>2. \A b, v : Inserting(b, v)' \subseteq Inserting(b, v)
            BY <1>0, InsertingFewer
        <3>3. handler[x].alone => h \notin Inserting(a, u)
            BY <1>2, <3>0, <3>1 DEF KeptInv, AloneFits
        <3>4. handler[x].alone => Of(Live, a, u)' \subseteq Of(Live, a, u)
            BY <3>3
        <3> QED
            BY <1>2, <2>1, <3>1, <3>0, <3>2, <3>4, FitsKept
    <2>3. CASE handler[x].new \notin DOMAIN tokens'
        <3>1. handler'[x].at # "inserted"
            BY <2>1, <2>3 DEF TokensInv, HandlerFits
        <3> QED
            BY <2>1, <2>3, <3>1 DEF AloneFits, CutFits
    <2> QED
        BY <2>2, <2>3
<1>3. ASSUME NEW x \in Handlers \ {h}, handler[x].at \notin {"inserted", "untrimmed"}
      PROVE  AloneFits(x)' /\ CutFits(x)'
    BY <1>0, <1>3 DEF AloneFits, CutFits
<1> QED
    BY <1>1, <1>2, <1>3

\* The pairs whose tokens get no more, and that lose no unfinished insertion,
\* stay as they are.
LEMMA PairsKept ==
    ASSUME TokensInv, TokensInv', KeptInv, NEW a \in Apps, NEW u \in Users,
           Of(Live, a, u)' \subseteq Of(Live, a, u),
           <<a, u>> \in crowded => <<a, u>> \in crowded',
           \A h \in Inserting(a, u) :
              handler[h].at = "untrimmed" =>
                  \/ h \in Inserting(a, u)' /\ handler'[h].at = "untrimmed"
                  \/ <<a, u>> \in crowded' \/ Of(Live, a, u)' = {}
    PROVE  \/ Cardinality(Of(Live, a, u)') <= Keep
           \/ <<a, u>> \in crowded'
           \/ \E h \in Inserting(a, u)' : handler'[h].at = "untrimmed"
<1>1. CASE Cardinality(Of(Live, a, u)) <= Keep
    BY <1>1, PairKept
<1>2. CASE <<a, u>> \in crowded
    BY <1>2
<1>3. CASE \E h \in Inserting(a, u) : handler[h].at = "untrimmed"
    <2>1. Of(Live, a, u)' = {} => Cardinality(Of(Live, a, u)') <= Keep
        BY FS_EmptySet, TokensAssumption
    <2> QED
        BY <1>3, <2>1
<1> QED
    BY <1>1, <1>2, <1>3 DEF KeptInv, KeptUnlessCrowded

\* The trimming of an implicit token leaves Keep.
LEMMA TrimKeepsFew ==
    ASSUME TokensInv, TokensInv', KeptInv, NEW h \in Handlers, TrimImplicit(h)
    PROVE  KeptInv'
<1>0. PICK new, a, u : new = handler[h].new /\ a = tokens[new].app /\ u = tokens[new].user
    OBVIOUS
<1>1. /\ handler[h].at = "untrimmed" /\ handler' = [handler EXCEPT ![h] = Idle]
      /\ UNCHANGED tokens
      /\ new \in DOMAIN tokens =>
            revoked' = revoked \cup Beyond(Of(Live, a, u)) /\ Inserted(h, a, u)
      /\ new \notin DOMAIN tokens => UNCHANGED <<revoked, crowded>>
    BY <1>0 DEF TrimImplicit
<1>2. revoked \subseteq revoked'
    BY <1>1
<1>3. \A b, v : Of(Live, b, v)' \subseteq Of(Live, b, v)
    BY <1>1, <1>2 DEF Of, Live, Visible
<1>4. \A x \in Handlers : AloneFits(x)' /\ CutFits(x)'
    BY <1>1, <1>3, EndsKept
<1>5. handler'[h] = Idle /\ \A x \in Handlers \ {h} : handler'[x] = handler[x]
    BY <1>1 DEF TokensInv, TokensTypeOK
<1>6. ASSUME NEW b \in Apps, NEW v \in Users
      PROVE  \/ Cardinality(Of(Live, b, v)') <= Keep
             \/ <<b, v>> \in crowded'
             \/ \E x \in Inserting(b, v)' : handler'[x].at = "untrimmed"
    <2>1. CASE new \in DOMAIN tokens /\ a = b /\ u = v
        <3>1. Of(Live, a, u)' = Of(Live, a, u) \ Beyond(Of(Live, a, u))
            <4> DEFINE beyond == Beyond(Of(Live, a, u))
            <4>1. revoked' = revoked \cup beyond
                BY <1>1, <2>1
            <4> HIDE DEF beyond
            <4>2. Of(Live, a, u)' = Of(Live, a, u) \ beyond
                BY <1>1, <2>1, <4>1 DEF Of, Live, Visible
            <4> QED
                BY <4>2 DEF beyond
        <3>2. Of(Live, a, u) \subseteq TokenIds
            BY DEF TokensInv, TokensTypeOK, Of, Live, Visible
        <3>3. Cardinality(Of(Live, a, u)') <= Keep
            BY <3>1, <3>2, KeepsFew
        <3> QED
            BY <2>1, <3>3
    <2>2. CASE ~(new \in DOMAIN tokens /\ a = b /\ u = v)
        <3>1. h \notin Inserting(b, v)
            BY <1>0, <2>2 DEF Inserting
        <3>2. \A x \in Inserting(b, v) : x \in Inserting(b, v)' /\ handler'[x] = handler[x]
            BY <1>1, <1>5, <3>1 DEF Inserting
        <3>3. <<b, v>> \in crowded => <<b, v>> \in crowded'
            BY <1>1, <2>2 DEF Inserted
        <3> QED
            BY <1>3, <3>2, <3>3, PairsKept
    <2> QED
        BY <2>1, <2>2
<1> QED
    BY <1>4, <1>6 DEF KeptInv, KeptUnlessCrowded

\* An insertion that is cut short: an implicit token that is not trimmed makes
\* its application and user crowded, a transaction leaves nothing.
LEMMA AbortKeepsFew ==
    ASSUME TokensInv, TokensInv', KeptInv, NEW h \in Handlers, AbortToken(h),
           handler[h].at \in {"inserted", "untrimmed"}
    PROVE  KeptInv'
<1>0. PICK new, a, u : new = handler[h].new /\ a = tokens[new].app /\ u = tokens[new].user
    OBVIOUS
<1>1. handler' = [handler EXCEPT ![h] = Idle] /\ UNCHANGED revoked
    BY DEF AbortToken
<1>2. /\ handler[h].at = "inserted" =>
            /\ tokens' = [t \in DOMAIN tokens \ {new} |-> tokens[t]]
            /\ UNCHANGED crowded
      /\ handler[h].at = "untrimmed" =>
            /\ UNCHANGED tokens
            /\ crowded' = IF new \in DOMAIN tokens THEN crowded \cup {<<a, u>>} ELSE crowded
    BY <1>0 DEF AbortToken
<1>3. /\ DOMAIN tokens' \subseteq DOMAIN tokens
      /\ \A t \in DOMAIN tokens' : tokens'[t] = tokens[t]
      /\ \A t \in DOMAIN tokens : t \in DOMAIN tokens' \/ (handler[h].at = "inserted" /\ t = new)
      /\ crowded \subseteq crowded'
    <2>1. CASE handler[h].at = "inserted"
        BY <1>2, <2>1
    <2>2. CASE handler[h].at = "untrimmed"
        BY <1>2, <2>2
    <2> QED
        BY <2>1, <2>2
<1>4. \A b, v : Of(Live, b, v)' \subseteq Of(Live, b, v)
    BY <1>1, <1>3 DEF Of, Live, Visible
<1>5. \A x \in Handlers : AloneFits(x)' /\ CutFits(x)'
    BY <1>1, <1>3, <1>4, EndsKept
<1>6. handler'[h] = Idle /\ \A x \in Handlers \ {h} : handler'[x] = handler[x]
    BY <1>1 DEF TokensInv, TokensTypeOK
<1>7. ASSUME NEW b \in Apps, NEW v \in Users
      PROVE  \/ Cardinality(Of(Live, b, v)') <= Keep
             \/ <<b, v>> \in crowded'
             \/ \E x \in Inserting(b, v)' : handler'[x].at = "untrimmed"
    <2>1. ASSUME NEW x \in Inserting(b, v), handler[x].at = "untrimmed"
          PROVE  \/ x \in Inserting(b, v)' /\ handler'[x].at = "untrimmed"
                 \/ <<b, v>> \in crowded' \/ Of(Live, b, v)' = {}
        <3>1. CASE x = h
            BY <1>0, <1>2, <2>1, <3>1 DEF Inserting
        <3>2. CASE x # h
            <4>1. x \in Handlers /\ handler'[x] = handler[x]
                BY <1>6, <3>2 DEF Inserting
            <4>2. handler[h].at = "inserted" => handler[x].new # new
                <5>1. handler[h].at = "inserted" => ~tokens[new].committed
                    BY <1>0 DEF TokensInv, HandlerFits
                <5>2. handler[x].new \in DOMAIN tokens /\ tokens[handler[x].new].committed
                    BY <2>1, <4>1 DEF TokensInv, HandlerFits, Inserting
                <5> QED
                    BY <5>1, <5>2
            <4> QED
                BY <1>3, <2>1, <4>1, <4>2 DEF Inserting
        <3> QED
            BY <3>1, <3>2
    <2> QED
        BY <1>3, <1>4, <2>1, PairsKept
<1> QED
    BY <1>5, <1>7 DEF KeptInv, KeptUnlessCrowded

\* A commit leaves Keep if no insertion overlapped the transaction.
LEMMA CommitKeepsFew ==
    ASSUME TokensInv, TokensInv', KeptInv, NEW h \in Handlers, CommitToken(h)
    PROVE  KeptInv'
<1>0. PICK new, a, u : new = handler[h].new /\ a = tokens[new].app /\ u = tokens[new].user
    OBVIOUS
<1>1. /\ handler[h].at = "inserted" /\ handler' = [handler EXCEPT ![h] = Idle]
      /\ tokens' = [tokens EXCEPT ![new].committed = TRUE]
      /\ revoked' = revoked \cup handler[h].cut
      /\ Inserted(h, a, u)
    BY <1>0 DEF CommitToken
<1>2. new \in DOMAIN tokens /\ new \in TokenIds /\ ~tokens[new].committed
    BY <1>0, <1>1 DEF TokensInv, HandlerFits, TokensTypeOK
<1>3. /\ DOMAIN tokens' = DOMAIN tokens
      /\ \A t \in DOMAIN tokens :
            tokens'[t].app = tokens[t].app /\ tokens'[t].user = tokens[t].user
      /\ \A t \in DOMAIN tokens \ {new} : tokens'[t] = tokens[t]
    <2>1. tokens[new] \in Token
        BY <1>2 DEF TokensInv, TokensTypeOK
    <2> QED
        BY <1>1, <1>2, <2>1 DEF Token
<1>4. \A b, v : Of(Live, b, v)' \subseteq
                    (Of(Live, b, v) \cup (IF a = b /\ u = v THEN {new} ELSE {})) \ handler[h].cut
    <2>1. SUFFICES ASSUME NEW b, NEW v, NEW t \in Of(Live, b, v)'
                   PROVE  /\ t \notin handler[h].cut
                          /\ t \in Of(Live, b, v) \/ (t = new /\ a = b /\ u = v)
        OBVIOUS
    <2>2. /\ t \in DOMAIN tokens /\ tokens'[t].committed /\ t \notin revoked'
          /\ tokens[t].app = b /\ tokens[t].user = v
        BY <1>3, <2>1 DEF Of, Live, Visible
    <2>3. CASE t = new
        BY <1>0, <1>1, <2>2, <2>3
    <2>4. CASE t # new
        BY <1>1, <1>3, <2>2, <2>4 DEF Of, Live, Visible
    <2> QED
        BY <2>3, <2>4
<1>5. \A b, v : a # b \/ u # v => Of(Live, b, v)' \subseteq Of(Live, b, v)
    BY <1>4
<1>6. h \in Inserting(a, u)
    BY <1>0, <1>1, <1>2 DEF Inserting
<1>7. \A x \in Handlers : AloneFits(x)' /\ CutFits(x)'
    <2>1. \A b, v : h \notin Inserting(b, v) => Of(Live, b, v)' \subseteq Of(Live, b, v)
        BY <1>5, <1>6
    <2> QED
        BY <1>1, <1>3, <2>1, EndsKept
<1>8. handler'[h] = Idle /\ \A x \in Handlers \ {h} : handler'[x] = handler[x]
    BY <1>1 DEF TokensInv, TokensTypeOK
<1>9. ASSUME NEW b \in Apps, NEW v \in Users
      PROVE  \/ Cardinality(Of(Live, b, v)') <= Keep
             \/ <<b, v>> \in crowded'
             \/ \E x \in Inserting(b, v)' : handler'[x].at = "untrimmed"
    <2>1. CASE a = b /\ u = v /\ handler[h].alone
        <3> DEFINE before == ({new} \cup Of(Live, a, u)) \ handler[h].cut
                   after == Of(Live, a, u)'
        <3>1. Cardinality(before) <= Keep
            BY <1>0, <1>1, <2>1 DEF KeptInv, CutFits
        <3>2. after \subseteq before
            BY <1>4
        <3>3. before \subseteq TokenIds
            BY <1>2 DEF TokensInv, TokensTypeOK, Of, Live, Visible
        <3> HIDE DEF before, after
        <3>4. /\ Cardinality(before) \in Nat /\ Cardinality(after) \in Nat
              /\ Cardinality(after) <= Cardinality(before)
            BY <3>2, <3>3, Fewer
        <3>5. Cardinality(after) <= Keep
            BY <3>1, <3>4, TokensAssumption
        <3> QED
            BY <2>1, <3>5 DEF after
    <2>2. CASE a = b /\ u = v /\ ~handler[h].alone
        BY <1>1, <2>2 DEF Inserted
    <2>3. CASE a # b \/ u # v
        <3>1. <<b, v>> \in crowded => <<b, v>> \in crowded'
            BY <1>1, <2>3 DEF Inserted
        <3>2. \A x \in Inserting(b, v) : handler[x].at = "untrimmed" =>
                  x \in Inserting(b, v)' /\ handler'[x].at = "untrimmed"
            BY <1>1, <1>3, <1>8 DEF Inserting
        <3> QED
            BY <1>5, <2>3, <3>1, <3>2, PairsKept
    <2> QED
        BY <2>1, <2>2, <2>3
<1> QED
    BY <1>7, <1>9 DEF KeptInv, KeptUnlessCrowded

\* The deletion of an application leaves it no token.
LEMMA DeleteKeepsFew ==
    ASSUME TokensInv, TokensInv', KeptInv, NEW d \in Apps, DeleteApp(d)
    PROVE  KeptInv'
<1>1. /\ DOMAIN tokens' \subseteq DOMAIN tokens
      /\ \A t \in DOMAIN tokens' : tokens'[t] = tokens[t]
      /\ \A t \in DOMAIN tokens : t \in DOMAIN tokens' \/ tokens[t].app = d
      /\ \A t \in DOMAIN tokens' : t \notin Visible \/ tokens[t].app # d
      /\ UNCHANGED <<handler, revoked, crowded>>
    BY DEF DeleteApp
<1>2. \A b, v : Of(Live, b, v)' \subseteq Of(Live, b, v)
    BY <1>1 DEF Of, Live, Visible
<1>3. \A b, v : Inserting(b, v)' \subseteq Inserting(b, v)
    BY <1>1 DEF Inserting
<1>4. ASSUME NEW h \in Handlers PROVE AloneFits(h)' /\ CutFits(h)'
    <2>1. CASE handler[h].at \in {"inserted", "untrimmed"} /\ handler[h].new \in DOMAIN tokens'
        <3>1. PICK a, u : a = tokens[handler[h].new].app /\ u = tokens[handler[h].new].user
            OBVIOUS
        <3> QED
            BY <1>1, <1>2, <1>3, <2>1, <3>1, FitsKept
    <2>2. CASE handler[h].new \notin DOMAIN tokens'
        <3>1. handler'[h].at # "inserted"
            BY <1>1, <2>2 DEF TokensInv, HandlerFits
        <3> QED
            BY <1>1, <2>2, <3>1 DEF AloneFits, CutFits
    <2>3. CASE handler[h].at \notin {"inserted", "untrimmed"}
        BY <1>1, <2>3 DEF AloneFits, CutFits
    <2> QED
        BY <2>1, <2>2, <2>3
<1>5. ASSUME NEW b \in Apps, NEW v \in Users
      PROVE  \/ Cardinality(Of(Live, b, v)') <= Keep
             \/ <<b, v>> \in crowded'
             \/ \E x \in Inserting(b, v)' : handler'[x].at = "untrimmed"
    <2>1. b = d => Of(Live, b, v)' = {}
        BY <1>1 DEF Of, Live, Visible
    <2>2. b # d => \A x \in Inserting(b, v) : x \in Inserting(b, v)'
        BY <1>1 DEF Inserting
    <2> QED
        BY <1>1, <1>2, <2>1, <2>2, PairsKept
<1> QED
    BY <1>4, <1>5 DEF KeptInv, KeptUnlessCrowded

\* What a transaction revokes with the token it inserts leaves Keep.
LEMMA CutLeavesFew ==
    ASSUME TokensInv, NEW h \in Handlers, NEW token \in Token, NEW cut,
           InsertToken(h, token, "inserted", cut),
           \/ cut = Beyond({next} \cup Of(Live, token.app, token.user))
           \/ \E t : cut = {t} \cup Beyond({next} \cup (Of(Live, token.app, token.user) \ {t}))
    PROVE  Cardinality(({next} \cup Of(Live, token.app, token.user)) \ cut) <= Keep
<1>1. next \in TokenIds
    BY InsertFrame
<1>2. Of(Live, token.app, token.user) \subseteq TokenIds
    BY DEF TokensInv, TokensTypeOK, Of, Live, Visible
<1> DEFINE live == Of(Live, token.app, token.user)
<1> HIDE DEF live
<1>3. PICK S \in SUBSET ({next} \cup live) : /\ Beyond(S) \subseteq cut
                                            /\ ({next} \cup live) \ S \subseteq cut
    <2>1. CASE cut = Beyond({next} \cup live)
        BY <2>1
    <2>2. CASE \E t : cut = {t} \cup Beyond({next} \cup (live \ {t}))
        <3>1. PICK t : cut = {t} \cup Beyond({next} \cup (live \ {t}))
            BY <2>2
        <3> QED
            BY <3>1
    <2> QED
        BY <2>1, <2>2 DEF live
<1>4. S \subseteq TokenIds
    BY <1>1, <1>2 DEF live
<1> DEFINE kept == S \ Beyond(S)
           left == ({next} \cup live) \ cut
<1>5. left \subseteq kept /\ kept \subseteq TokenIds /\ Cardinality(kept) <= Keep
    BY <1>3, <1>4, KeepsFew
<1> HIDE DEF kept, left
<1>6. /\ Cardinality(left) \in Nat /\ Cardinality(kept) \in Nat
      /\ Cardinality(left) <= Cardinality(kept)
    BY <1>5, Fewer
<1>7. Cardinality(left) <= Keep
    BY <1>5, <1>6, TokensAssumption
<1> QED
    BY <1>7 DEF left, live

\* An insertion makes the others of its application and user overlapped.
LEMMA InsertKeepsFew ==
    ASSUME TokensInv, TokensInv', KeptInv, NEW h \in Handlers, NEW token \in Token,
           NEW stage, NEW cut, InsertToken(h, token, stage, cut),
           handler[h].at \notin {"inserted", "untrimmed"},
           UNCHANGED <<revoked, crowded>>,
           \/ stage = "untrimmed"
           \/ /\ stage = "inserted" /\ ~token.committed
              /\ Cardinality(({next} \cup Of(Live, token.app, token.user)) \ cut) <= Keep
    PROVE  KeptInv'
<1>0. PICK a, u : a = token.app /\ u = token.user
    OBVIOUS
<1>1. /\ next \in TokenIds /\ next \notin DOMAIN tokens /\ next' = next + 1
      /\ DOMAIN tokens' = DOMAIN tokens \cup {next}
      /\ tokens'[next] = token /\ \A t \in DOMAIN tokens : tokens'[t] = tokens[t]
      /\ token.app \in apps
      /\ handler'[h].at = stage /\ handler'[h].new = next /\ handler'[h].cut = cut
      /\ handler'[h].code = handler[h].code /\ handler'[h].token = handler[h].token
      /\ \A x \in Handlers : x # h =>
            /\ handler'[x].at = handler[x].at /\ handler'[x].code = handler[x].code
            /\ handler'[x].token = handler[x].token /\ handler'[x].new = handler[x].new
            /\ handler'[x].cut = handler[x].cut
    BY InsertFrame
<1>2. /\ handler'[h].alone = (Inserting(a, u) \ {h} = {})
      /\ \A x \in Inserting(a, u) \ {h} : ~handler'[x].alone
      /\ \A x \in Handlers \ {h} : handler'[x].alone => handler[x].alone
    <2>1. \A x \in Handlers : handler[x] \in HandlerRecords
        BY Reads DEF TokensInv
    <2> DEFINE others == Inserting(token.app, token.user) \ {h}
    <2>2. handler' = [x \in Handlers |->
            IF x = h THEN [handler[h] EXCEPT
                !.at = stage, !.new = next, !.cut = cut, !.alone = (others = {})]
            ELSE IF x \in others THEN [handler[x] EXCEPT !.alone = FALSE]
            ELSE handler[x]]
        BY DEF InsertToken
    <2>3. others \subseteq Handlers \ {h}
        BY DEF Inserting
    <2> HIDE DEF others
    <2>4. handler'[h].alone = (others = {})
        BY <2>1, <2>2 DEF HandlerRecords
    <2>5. \A x \in others : ~handler'[x].alone
        BY <2>1, <2>2, <2>3 DEF HandlerRecords
    <2>6. \A x \in Handlers \ {h} : handler'[x].alone => handler[x].alone
        BY <2>1, <2>2, <2>5 DEF HandlerRecords
    <2> QED
        BY <1>0, <2>4, <2>5, <2>6 DEF others
<1>3. \A b, v : a # b \/ u # v \/ stage = "inserted" => Of(Live, b, v)' \subseteq Of(Live, b, v)
    BY <1>0, <1>1 DEF Of, Live, Visible
<1>4. \A b, v : \A x \in Inserting(b, v)' : x \in Inserting(b, v) \/ (x = h /\ a = b /\ u = v)
    <2>1. SUFFICES ASSUME NEW b, NEW v, NEW x \in Inserting(b, v)',
                          ~(x = h /\ a = b /\ u = v)
                   PROVE  x \in Inserting(b, v)
        OBVIOUS
    <2>2. /\ x \in Handlers /\ handler'[x].at \in {"inserted", "untrimmed"}
          /\ handler'[x].new \in DOMAIN tokens'
          /\ tokens'[handler'[x].new].app = b /\ tokens'[handler'[x].new].user = v
        BY DEF Inserting
    <2>3. x # h
        BY <1>0, <1>1, <2>1, <2>2
    <2>4. handler[x].at = "untrimmed" => handler[x].new # next
        BY <1>1, <2>2 DEF TokensInv, HandlerFits, TokenIds
    <2>5. handler[x].at = "inserted" => handler[x].new \in DOMAIN tokens
        BY <2>2 DEF TokensInv, HandlerFits
    <2> QED
        BY <1>1, <2>2, <2>3, <2>4, <2>5 DEF Inserting
<1>5. \A b, v : \A x \in Inserting(b, v) :
            x \in Inserting(b, v)' /\ handler'[x].at = handler[x].at
    BY <1>0, <1>1 DEF Inserting
<1>6. AloneFits(h)' /\ CutFits(h)'
    <2>1. AloneFits(h)'
        <3>1. handler'[h].alone => Inserting(a, u)' \subseteq {h}
            <4>1. handler'[h].alone => Inserting(a, u) \subseteq {h}
                BY <1>2
            <4> QED
                BY <1>4, <4>1
        <3>2. tokens'[handler'[h].new].app = a /\ tokens'[handler'[h].new].user = u
            BY <1>0, <1>1
        <3> QED
            BY <3>1, <3>2 DEF AloneFits
    <2>2. stage = "inserted" =>
            ({next} \cup Of(Live, a, u)') \ cut = ({next} \cup Of(Live, a, u)) \ cut
        <3>1. Of(Live, a, u) \subseteq Of(Live, a, u)'
            BY <1>1 DEF Of, Live, Visible
        <3> QED
            BY <1>3, <3>1
    <2>3. CutFits(h)'
        BY <1>0, <1>1, <2>2 DEF CutFits
    <2> QED
        BY <2>1, <2>3
<1>7. ASSUME NEW x \in Handlers \ {h}
      PROVE  AloneFits(x)' /\ CutFits(x)'
    <2>1. CASE handler[x].at \in {"inserted", "untrimmed"} /\ handler[x].new \in DOMAIN tokens
        <3>1. PICK b, v : b = tokens[handler[x].new].app /\ v = tokens[handler[x].new].user
            OBVIOUS
        <3>2. x \in Inserting(b, v)
            BY <2>1, <3>1 DEF Inserting
        <3>3. CASE a = b /\ u = v
            BY <1>2, <3>2, <3>3 DEF AloneFits, CutFits
        <3>4. CASE a # b \/ u # v
            <4>1. /\ Inserting(b, v)' \subseteq Inserting(b, v)
                  /\ Of(Live, b, v)' \subseteq Of(Live, b, v)
                BY <1>3, <1>4, <3>4
            <4>2. /\ handler'[x].at = handler[x].at /\ handler'[x].new = handler[x].new
                  /\ handler'[x].cut = handler[x].cut
                  /\ handler'[x].alone => handler[x].alone
                  /\ tokens'[handler[x].new] = tokens[handler[x].new]
                BY <1>1, <1>2, <2>1
            <4> QED
                BY <2>1, <3>1, <4>1, <4>2, FitsKept
        <3> QED
            BY <3>3, <3>4
    <2>2. CASE ~(handler[x].at \in {"inserted", "untrimmed"}
                 /\ handler[x].new \in DOMAIN tokens)
        <3>1. handler[x].at \in {"inserted", "untrimmed"} => handler[x].new \notin DOMAIN tokens'
            <4>1. handler[x].at = "inserted" => handler[x].new \in DOMAIN tokens
                BY DEF TokensInv, HandlerFits
            <4>2. handler[x].at = "untrimmed" => handler[x].new # next
                BY <1>1 DEF TokensInv, HandlerFits, TokenIds
            <4> QED
                BY <1>1, <2>2, <4>1, <4>2
        <3>2. handler[x].at # "inserted"
            BY <2>2 DEF TokensInv, HandlerFits
        <3> QED
            BY <1>1, <3>1, <3>2 DEF AloneFits, CutFits
    <2> QED
        BY <2>1, <2>2
<1>8. ASSUME NEW b \in Apps, NEW v \in Users
      PROVE  \/ Cardinality(Of(Live, b, v)') <= Keep
             \/ <<b, v>> \in crowded'
             \/ \E x \in Inserting(b, v)' : handler'[x].at = "untrimmed"
    <2>1. CASE a = b /\ u = v /\ stage = "untrimmed"
        BY <1>0, <1>1, <2>1 DEF Inserting
    <2>2. CASE a # b \/ u # v \/ stage = "inserted"
        BY <1>3, <1>5, <2>2, PairsKept
    <2> QED
        BY <2>1, <2>2
<1> QED
    BY <1>6, <1>7, <1>8 DEF KeptInv, KeptUnlessCrowded

LEMMA KeptInit == TokensInit => KeptInv
<1>1. ASSUME TokensInit PROVE KeptInv
    <2>1. DOMAIN tokens = {} /\ \A h \in Handlers : handler[h].at = "idle"
        BY <1>1 DEF TokensInit, Idle
    <2>2. \A a, u : Of(Live, a, u) = {}
        BY <2>1 DEF Of, Live, Visible
    <2>3. Cardinality({}) <= Keep
        BY FS_EmptySet, TokensAssumption
    <2>4. KeptUnlessCrowded
        BY <2>2, <2>3 DEF KeptUnlessCrowded
    <2> QED
        BY <2>1, <2>4 DEF KeptInv, AloneFits, CutFits
<1> QED
    BY <1>1

LEMMA KeptNext ==
    ASSUME TokensInv, TokensInv', KeptInv, [TokensNext]_tokenVars
    PROVE  KeptInv'
<1>1. CASE UNCHANGED tokenVars
    BY <1>1, CalmKeeps DEF tokenVars
<1>2. CASE \/ Lapse
           \/ \E a \in Apps, u \in Users, scopes \in SUBSET Scopes, c \in Codes :
                 AuthorizeCode(a, u, scopes, c)
    BY <1>2, CalmKeeps DEF Lapse, AuthorizeCode
<1>3. CASE \E a \in Apps : DeleteApp(a)
    BY <1>3, DeleteKeepsFew
<1>4. ASSUME NEW h \in Handlers,
             \/ \E c \in Codes : StartExchange(h, c)
             \/ \E t \in TokenIds : StartRefresh(h, t) \/ StartRevoke(h, t)
             \/ SelectCode(h) \/ SelectToken(h) \/ RevokeToken(h)
             \/ AbortToken(h) /\ handler[h].at \notin {"inserted", "untrimmed"}
             \/ ExchangeCode(h) /\ ~Claimable(handler[h].code)
             \/ RefreshToken(h) /\ handler[h].token \notin DOMAIN tokens
      PROVE  KeptInv'
    <2>1. handler[h] \in HandlerRecords /\ handler \in [Handlers -> HandlerRecords]
        BY DEF TokensInv, TokensTypeOK, HandlerRecords
    <2>2. /\ UNCHANGED <<tokens, crowded>> /\ revoked \subseteq revoked'
          /\ handler[h].at \notin {"inserted", "untrimmed"}
        BY <1>4 DEF StartExchange, StartRefresh, StartRevoke, SelectCode, SelectToken,
                    RevokeToken, AbortToken, ExchangeCode, RefreshToken
    <2>3. PICK r \in HandlerRecords : /\ handler' = [handler EXCEPT ![h] = r]
                                      /\ r.at \notin {"inserted", "untrimmed"}
        <3>1. \E r \in HandlerRecords : Between(h, r)
            BY <1>4, <2>2, StartsBetween, GoesOnBetween
        <3> QED
            BY <3>1 DEF Between
    <2>4. handler'[h] = r /\ \A x \in Handlers \ {h} : handler'[x] = handler[x]
        BY <2>1, <2>3
    <2>5. \A x \in Handlers :
              {handler[x].at, handler'[x].at} \cap {"inserted", "untrimmed"} # {} =>
                  handler'[x] = handler[x]
        BY <2>2, <2>3, <2>4
    <2> QED
        BY <2>2, <2>5, CalmKeeps
<1>5. ASSUME NEW h \in Handlers, TrimImplicit(h)
      PROVE  KeptInv'
    BY <1>5, TrimKeepsFew
<1>6. ASSUME NEW h \in Handlers, AbortToken(h), handler[h].at \in {"inserted", "untrimmed"}
      PROVE  KeptInv'
    BY <1>6, AbortKeepsFew
<1>7. ASSUME NEW h \in Handlers, CommitToken(h)
      PROVE  KeptInv'
    BY <1>7, CommitKeepsFew
<1>8. ASSUME NEW h \in Handlers, NEW a \in Apps, NEW u \in Users, NEW scopes \in SUBSET Scopes,
             ImplicitToken(h, a, u, scopes)
      PROVE  KeptInv'
    <2> DEFINE token == [app |-> a, user |-> u, scopes |-> Requested(a, scopes), code |-> None,
                         token |-> None, refresh |-> FALSE, committed |-> TRUE]
    <2>1. token \in Token
        BY Reads DEF Token, TokensInv
    <2>2. /\ InsertToken(h, token, "untrimmed", {}) /\ handler[h].at = "idle"
          /\ UNCHANGED <<revoked, crowded>>
        BY <1>8 DEF ImplicitToken
    <2> HIDE DEF token
    <2> QED
        BY <2>1, <2>2, InsertKeepsFew
<1>9. ASSUME NEW h \in Handlers, ExchangeCode(h), Claimable(handler[h].code)
      PROVE  KeptInv'
    <2> DEFINE c == handler[h].code
               token == [app |-> codes[c].app, user |-> codes[c].user,
                         scopes |-> codes[c].scopes, code |-> c, token |-> None,
                         refresh |-> TRUE, committed |-> FALSE]
               cut == Beyond({next} \cup Of(Live, codes[c].app, codes[c].user))
    <2>1. c \in Codes /\ codes[c] \in Grant
        BY <1>9 DEF Claimable, TokensInv, TokensTypeOK
    <2>2. /\ token \in Token /\ ~token.committed
          /\ token.app = codes[c].app /\ token.user = codes[c].user
        BY <2>1 DEF Token, Grant
    <2>3. /\ InsertToken(h, token, "inserted", cut) /\ handler[h].at = "exchanging"
          /\ UNCHANGED <<revoked, crowded>>
        BY <1>9 DEF ExchangeCode
    <2>4. cut = Beyond({next} \cup Of(Live, token.app, token.user))
        BY <2>2
    <2> HIDE DEF token, cut
    <2>5. Cardinality(({next} \cup Of(Live, token.app, token.user)) \ cut) <= Keep
        BY <2>2, <2>3, <2>4, CutLeavesFew
    <2> QED
        BY <2>2, <2>3, <2>5, InsertKeepsFew
<1>10. ASSUME NEW h \in Handlers, RefreshToken(h), handler[h].token \in DOMAIN tokens
       PROVE  KeptInv'
    <2> DEFINE t == handler[h].token
               token == Renewed(t)
               cut == Old(t) \cup Beyond({next} \cup
                         (Of(Live, tokens[t].app, tokens[t].user) \ Old(t)))
    <2>1. t \in TokenIds /\ tokens[t] \in Token
        BY <1>10 DEF TokensInv, TokensTypeOK
    <2>2. /\ token \in Token /\ ~token.committed
          /\ token.app = tokens[t].app /\ token.user = tokens[t].user
        BY <2>1 DEF Renewed, Token
    <2>3. /\ InsertToken(h, token, "inserted", cut) /\ handler[h].at = "refreshing"
          /\ UNCHANGED <<revoked, crowded>>
        BY <1>10 DEF RefreshToken
    <2>4. cut = {t} \cup Beyond({next} \cup (Of(Live, token.app, token.user) \ {t}))
        BY <2>2 DEF Old
    <2> HIDE DEF token, cut
    <2>5. Cardinality(({next} \cup Of(Live, token.app, token.user)) \ cut) <= Keep
        BY <2>2, <2>3, <2>4, CutLeavesFew
    <2> QED
        BY <2>2, <2>3, <2>5, InsertKeepsFew
<1> QED
    BY TokensSteps, <1>1, <1>2, <1>3, <1>4, <1>5, <1>6, <1>7, <1>8, <1>9, <1>10

\* An application has at most Keep live tokens of a user, unless insertions
\* overlapped or one was cut short (the trimming of InsertOAuthToken and
\* RefreshOAuthToken).
THEOREM TokensAreTrimmed == TokensSpec => []KeptUnlessCrowded
<1>1. TokensSpec => [](TokensInv /\ KeptInv)
    <2>1. TokensInv /\ KeptInv /\ [TokensNext]_tokenVars => (TokensInv /\ KeptInv)'
        BY TokensInvNext, KeptNext
    <2> QED
        BY <2>1, TokensInvInit, KeptInit, PTL DEF TokensSpec
<1>2. KeptInv => KeptUnlessCrowded
    BY DEF KeptInv
<1> QED
    BY <1>1, <1>2, PTL

-----------------------------------------------------------------------------
(* The caches of views.                                                     *)

TTL(key) == IF key.kind = "status" THEN StatusTTL ELSE BoardTTL

\* An entry holds a value for its key, set within the time a view takes.
EntryFits(e) ==
    /\ e.value.for = e.key
    /\ e.expires <= e.value.at + MaxSlow + TTL(e.key)

OfKind(entries, kind) == {e \in entries : e.key.kind = kind}

\* A view asks for what it wants, and has not taken too long.
ViewFits(v) ==
    asking[v] # Away =>
        /\ asking[v].value.for = asking[v].key
        /\ asking[v].since <= minute /\ minute <= asking[v].since + MaxSlow
        /\ asking[v].at = "set" =>
              asking[v].since <= asking[v].value.at /\ asking[v].value.at <= minute

ViewsInv ==
    /\ ViewsTypeOK
    /\ asking \in [Views -> {Away} \cup View]
    /\ IsFiniteSet(shelf)
    /\ \A e \in shelf : EntryFits(e)
    /\ \A v \in Views : ViewFits(v)
    /\ AnswersFitTheirRequest
    /\ AnswersAreRecent

\* Of entries, one ends first.
LEMMA EarliestOf ==
    ASSUME NEW S, S # {}, \A e \in S : e.expires \in Nat
    PROVE  \E e \in S : \A f \in S : e.expires <= f.expires
<1> DEFINE E == {e.expires : e \in S}
<1>1. E \in SUBSET Nat /\ E # {}
    OBVIOUS
<1>2. PICK m \in E : \A n \in E : m <= n
    BY <1>1, LeastOf
<1>3. PICK e \in S : e.expires = m
    BY <1>2
<1> QED
    BY <1>2, <1>3

\* Days follow the clock.
LEMMA DaysGrow ==
    ASSUME ViewsTypeOK
    PROVE  DayAt(minute) \in 0 .. DayAt(MaxClock)
<1>1. /\ minute \in Nat /\ MaxClock \in Nat /\ minute <= MaxClock
      /\ DayTicks \in Nat /\ DayTicks > 0
    BY ViewsAssumption DEF ViewsTypeOK
<1> QED
    BY <1>1 DEF DayAt

\* Where a key is put there was room for it.
LEMMA PutFits ==
    ASSUME ViewsInv, NEW key \in ViewKeys, NEW value \in Value, NEW ttl \in Nat,
           NEW put, put = Put(key, value, ttl)
    PROVE  /\ \A e \in put :
                 \/ e \in shelf /\ e.key # key
                 \/ e = [key |-> key, value |-> value, expires |-> minute + ttl]
           /\ IsFiniteSet(put)
           /\ \A kind \in {"status", "board"} :
                 Cardinality(OfKind(put, kind)) <= MaxEntries
<1> DEFINE new == [key |-> key, value |-> value, expires |-> minute + ttl]
           own == {e \in shelf : e.key.kind = key.kind}
           alive == {e \in own : Alive(e)}
           roomy == EvictOldestIfFull(alive)
           others == {e \in roomy : e.key # key}
<1>1. put = (shelf \ own) \cup others \cup {new}
    BY DEF Put
<1>2. /\ IsFiniteSet(shelf) /\ \A e \in shelf : e \in Entry
      /\ \A kind \in {"status", "board"} :
            Cardinality({e \in shelf : e.key.kind = kind}) <= MaxEntries
      /\ MaxEntries \in Nat /\ MaxEntries > 0
    BY ViewsAssumption DEF ViewsInv, ViewsTypeOK
<1>3. key.kind \in {"status", "board"}
    BY DEF ViewKeys, StatusKeys, BoardKeys
<1>4. /\ IsFiniteSet(own) /\ Cardinality(own) \in Nat /\ Cardinality(own) <= MaxEntries
      /\ IsFiniteSet(alive) /\ Cardinality(alive) \in Nat
      /\ Cardinality(alive) <= Cardinality(own)
    <2>1. own \subseteq shelf /\ alive \subseteq own
        OBVIOUS
    <2>2. Cardinality(own) <= MaxEntries
        BY <1>2, <1>3
    <2> HIDE DEF own, alive
    <2> QED
        BY <1>2, <2>1, <2>2, FS_Subset, FS_CardinalityType
<1>5. /\ roomy \subseteq alive /\ IsFiniteSet(roomy) /\ Cardinality(roomy) \in Nat
      /\ Cardinality(roomy) < MaxEntries
    <2>1. CASE Cardinality(alive) < MaxEntries
        <3>1. roomy = alive
            BY <2>1 DEF EvictOldestIfFull
        <3> HIDE DEF roomy, alive
        <3> QED
            BY <1>4, <2>1, <3>1
    <2>2. CASE ~(Cardinality(alive) < MaxEntries)
        <3> DEFINE oldest == CHOOSE e \in alive : \A f \in alive : e.expires <= f.expires
        <3>1. alive # {}
            <4> HIDE DEF alive
            <4> QED
                BY <1>2, <2>2, FS_EmptySet
        <3>2. \A e \in alive : e.expires \in Nat
            BY <1>2 DEF Entry
        <3>3. oldest \in alive
            <4> HIDE DEF alive
            <4>1. \E e \in alive : \A f \in alive : e.expires <= f.expires
                BY <3>1, <3>2, EarliestOf
            <4> QED
                BY <4>1
        <3>4. roomy = alive \ {oldest}
            BY <2>2 DEF EvictOldestIfFull
        <3> HIDE DEF roomy, oldest, alive, own
        <3>5. IsFiniteSet(roomy) /\ Cardinality(roomy) = Cardinality(alive) - 1
            BY <1>4, <3>3, <3>4, FS_RemoveElement
        <3>6. Cardinality(alive) <= MaxEntries
            BY <1>2, <1>4
        <3>7. Cardinality(roomy) \in Nat
            BY <3>5, FS_CardinalityType
        <3> QED
            BY <1>2, <1>4, <3>4, <3>5, <3>6, <3>7
    <2> QED
        BY <2>1, <2>2
<1>6. \A e \in put : \/ e \in shelf /\ e.key # key
                     \/ e = new
    <2>1. \A e \in shelf \ own : e.key # key
        OBVIOUS
    <2>2. \A e \in others : e \in shelf /\ e.key # key
        BY <1>5
    <2> HIDE DEF own, others, new, roomy
    <2> QED
        BY <1>1, <2>1, <2>2
<1>7. /\ IsFiniteSet(others) /\ Cardinality(others) \in Nat
      /\ Cardinality(others) <= Cardinality(roomy)
    <2>1. others \subseteq roomy
        OBVIOUS
    <2> HIDE DEF others, roomy
    <2> QED
        BY <1>5, <2>1, FS_Subset, FS_CardinalityType
<1>8. /\ IsFiniteSet(others \cup {new}) /\ Cardinality(others \cup {new}) \in Nat
      /\ Cardinality(others \cup {new}) <= MaxEntries
    <2> HIDE DEF others, new, roomy
    <2>1. /\ IsFiniteSet(others \cup {new})
          /\ Cardinality(others \cup {new}) \in {Cardinality(others), Cardinality(others) + 1}
        BY <1>7, FS_AddElement
    <2> QED
        BY <1>2, <1>5, <1>7, <2>1
<1>9. IsFiniteSet(put)
    <2>1. IsFiniteSet(shelf \ own)
        BY <1>2, FS_Subset
    <2> HIDE DEF own, others, new
    <2>2. put = (shelf \ own) \cup (others \cup {new})
        BY <1>1
    <2> QED
        BY <1>8, <2>1, <2>2, FS_Union
<1>10. ASSUME NEW kind \in {"status", "board"}
       PROVE  Cardinality(OfKind(put, kind)) <= MaxEntries
    <2> DEFINE these == {e \in put : e.key.kind = kind}
    <2>1. CASE kind = key.kind
        <3>1. these \subseteq others \cup {new}
            BY <1>1, <2>1
        <3> HIDE DEF these, others, new
        <3>2. Cardinality(these) \in Nat /\ Cardinality(these) <= Cardinality(others \cup {new})
            BY <1>8, <3>1, FS_Subset, FS_CardinalityType
        <3>3. Cardinality(these) <= MaxEntries
            BY <1>2, <1>8, <3>2
        <3> QED
            BY <3>3 DEF these, OfKind
    <2>2. CASE kind # key.kind
        <3> DEFINE before == {e \in shelf : e.key.kind = kind}
        <3>1. these \subseteq before
            <4>1. new.key.kind # kind
                BY <2>2
            <4>2. \A e \in these : e # new
                BY <4>1
            <4> QED
                BY <1>6, <4>2
        <3>2. IsFiniteSet(before)
            BY <1>2, FS_Subset
        <3>3. Cardinality(before) <= MaxEntries
            BY <1>2
        <3> HIDE DEF these, before
        <3>4. /\ Cardinality(these) \in Nat /\ Cardinality(before) \in Nat
              /\ Cardinality(these) <= Cardinality(before)
            BY <3>1, <3>2, FS_Subset, FS_CardinalityType
        <3>5. Cardinality(these) <= MaxEntries
            BY <1>2, <3>3, <3>4
        <3> QED
            BY <3>5 DEF these, OfKind
    <2> QED
        BY <2>1, <2>2
<1> QED
    BY <1>6, <1>9, <1>10

LEMMA ViewsInvInit == ViewsInit => ViewsInv
<1>1. ASSUME ViewsInit PROVE ViewsInv
    <2>1. /\ minute = 0 /\ shelf = {} /\ answer = Away
          /\ prefs = [u \in People |-> 1]
          /\ asking = [v \in Views |-> Away]
        BY <1>1 DEF ViewsInit
    <2>2. \A kind : {e \in shelf : e.key.kind = kind} = {}
        BY <2>1
    <2>3. Cardinality({}) = 0 /\ IsFiniteSet({})
        BY FS_EmptySet
    <2>4. \A kind \in {"status", "board"} :
            Cardinality({e \in shelf : e.key.kind = kind}) <= MaxEntries
        BY <2>2, <2>3, ViewsAssumption
    <2>5. ViewsTypeOK
        BY <2>1, <2>4, ViewsAssumption DEF ViewsTypeOK
    <2>6. IsFiniteSet(shelf)
        BY <2>1, <2>3
    <2>7. asking \in [Views -> {Away} \cup View]
        BY <2>1
    <2>8. \A v \in Views : ViewFits(v)
        BY <2>1 DEF ViewFits
    <2> QED
        BY <2>1, <2>5, <2>6, <2>7, <2>8 DEF ViewsInv, AnswersFitTheirRequest, AnswersAreRecent
<1> QED
    BY <1>1

\* A view turns to r and the caches lose entries, if anything; an answer fits.
LEMMA TurnKeeps ==
    ASSUME ViewsInv, NEW v \in Views, NEW r \in {Away} \cup View,
           UNCHANGED <<minute, prefs>>, shelf' \subseteq shelf,
           asking' = [asking EXCEPT ![v] = r], ViewFits(v)',
           answer' \in {Away} \cup ViewAnswer,
           AnswersFitTheirRequest', AnswersAreRecent'
    PROVE  ViewsInv'
<1>1. /\ ViewsTypeOK /\ IsFiniteSet(shelf) /\ asking \in [Views -> {Away} \cup View]
      /\ \A x \in Views : ViewFits(x)
      /\ \A e \in shelf : EntryFits(e)
    BY DEF ViewsInv
<1>2. IsFiniteSet(shelf')
    BY <1>1, FS_Subset
<1>3. asking' \in [Views -> {Away} \cup View]
    BY <1>1
<1>4. ASSUME NEW kind \in {"status", "board"}
      PROVE  Cardinality({e \in shelf' : e.key.kind = kind}) <= MaxEntries
    <2> DEFINE before == {e \in shelf : e.key.kind = kind}
               after == {e \in shelf' : e.key.kind = kind}
    <2>1. after \subseteq before /\ before \subseteq shelf
        OBVIOUS
    <2>2. Cardinality(before) <= MaxEntries
        BY <1>1 DEF ViewsTypeOK
    <2> HIDE DEF before, after
    <2>3. /\ Cardinality(before) \in Nat /\ Cardinality(after) \in Nat
          /\ Cardinality(after) <= Cardinality(before)
        BY <1>1, <2>1, FS_Subset, FS_CardinalityType
    <2>4. Cardinality(after) <= MaxEntries
        BY <2>2, <2>3, ViewsAssumption
    <2> QED
        BY <2>4 DEF after
<1>5. ViewsTypeOK'
    BY <1>1, <1>3, <1>4 DEF ViewsTypeOK
<1>6. \A x \in Views : ViewFits(x)'
    <2>1. \A x \in Views \ {v} : asking'[x] = asking[x]
        BY <1>1
    <2> QED
        BY <1>1, <2>1 DEF ViewFits
<1>7. \A e \in shelf' : EntryFits(e)'
    BY <1>1 DEF EntryFits
<1> QED
    BY <1>2, <1>3, <1>5, <1>6, <1>7 DEF ViewsInv

\* What holds when no answer is given.
LEMMA NoAnswer ==
    ASSUME answer' = Away
    PROVE  answer' \in {Away} \cup ViewAnswer /\ AnswersFitTheirRequest' /\ AnswersAreRecent'
BY DEF AnswersFitTheirRequest, AnswersAreRecent

\* A request or a task starts.
LEMMA StartsKeep ==
    ASSUME ViewsInv, NEW v \in Views,
           \/ \E u \in People : StatusBar(v, u)
           \/ \E f \in Filters : PublicLeaders(v, f)
           \/ UpdateLeaderboard(v)
    PROVE  ViewsInv'
<1>1. PICK at \in {"get", "read"}, key \in ViewKeys, looks \in BOOLEAN :
            Starts(v, at, key, key, looks)
    <2>1. ASSUME NEW u \in People PROVE Wanted(u) \in ViewKeys
        <3>1. prefs[u] \in {1, 2} /\ ViewsTypeOK
            BY DEF ViewsInv, ViewsTypeOK
        <3> QED
            BY <3>1, DaysGrow DEF Wanted, ViewKeys, StatusKeys
    <2>2. \A f \in Filters : [kind |-> "board", of |-> f] \in ViewKeys
        BY DEF ViewKeys, BoardKeys
    <2>3. CASE \E u \in People : StatusBar(v, u)
        BY <2>1, <2>3 DEF StatusBar, StatusCacheKey, Wanted
    <2>4. CASE \E f \in Filters : PublicLeaders(v, f)
        BY <2>2, <2>4 DEF PublicLeaders
    <2>5. CASE UpdateLeaderboard(v)
        BY <2>2, <2>5, ViewsAssumption DEF UpdateLeaderboard
    <2> QED
        BY <2>3, <2>4, <2>5
<1> DEFINE r == [at |-> at, key |-> key, since |-> minute, looks |-> looks,
                 value |-> [for |-> key, at |-> 0]]
<1>2. /\ asking' = [asking EXCEPT ![v] = r] /\ answer' = Away
      /\ UNCHANGED <<minute, prefs, shelf>>
    BY <1>1 DEF Starts
<1>3. minute \in 0 .. MaxClock /\ MaxClock \in Nat /\ MaxSlow \in Nat
    BY ViewsAssumption DEF ViewsInv, ViewsTypeOK
<1>4. r \in View
    BY <1>3 DEF View, Value
<1>5. asking'[v] = r
    BY <1>2 DEF ViewsInv
<1>6. ViewFits(v)'
    BY <1>2, <1>3, <1>5 DEF ViewFits
<1> HIDE DEF r
<1> QED
    BY <1>2, <1>4, <1>6, NoAnswer, TurnKeeps

\* A view is what its type says; it fits, and what it is made of has types.
LEMMA ViewIs ==
    ASSUME ViewsInv, NEW v \in Views, asking[v].at \in {"get", "read", "set"}
    PROVE  /\ asking[v] \in View /\ asking[v] # Away
           /\ asking[v].key \in ViewKeys /\ asking[v].value \in Value
           /\ asking[v].value.for = asking[v].key
           /\ asking[v].since \in 0 .. MaxClock
           /\ asking[v].since <= minute /\ minute <= asking[v].since + MaxSlow
           /\ minute \in 0 .. MaxClock /\ MaxClock \in Nat /\ MaxSlow \in Nat
           /\ asking[v].at = "set" =>
                 asking[v].since <= asking[v].value.at /\ asking[v].value.at <= minute
<1>1. asking[v] \in {Away} \cup View /\ ViewFits(v) /\ minute \in 0 .. MaxClock
    BY DEF ViewsInv, ViewsTypeOK
<1>2. asking[v] # Away
    BY DEF Away
<1>3. asking[v] \in View
    BY <1>1, <1>2
<1>4. /\ asking[v].key \in ViewKeys /\ asking[v].value \in Value
      /\ asking[v].since \in 0 .. MaxClock
    BY <1>3 DEF View
<1> QED
    BY <1>1, <1>2, <1>3, <1>4, ViewsAssumption DEF ViewFits

\* A view looks its key up.
LEMMA GetKeeps ==
    ASSUME ViewsInv, NEW v \in Views, Get(v) \/ GetFails(v)
    PROVE  ViewsInv'
<1>1. asking[v].at = "get" /\ UNCHANGED <<minute, prefs>>
    BY DEF Get, GetFails
<1>2. /\ asking[v] \in View /\ asking[v].value.for = asking[v].key
      /\ asking[v].since <= minute /\ minute <= asking[v].since + MaxSlow
      /\ asking[v].key \in ViewKeys
    BY <1>1, ViewIs
<1>3. CASE GoesOn(v, "read") /\ shelf' \subseteq shelf
    <2> DEFINE r == [asking[v] EXCEPT !.at = "read"]
    <2>1. asking' = [asking EXCEPT ![v] = r] /\ answer' = Away
        BY <1>3 DEF GoesOn
    <2>2. r \in View
        BY <1>2 DEF View
    <2>3. asking'[v] = r
        BY <2>1 DEF ViewsInv
    <2>4. ViewFits(v)'
        BY <1>1, <1>2, <2>3 DEF ViewFits, View
    <2> HIDE DEF r
    <2> QED
        BY <1>1, <1>3, <2>1, <2>2, <2>4, NoAnswer, TurnKeeps
<1>4. CASE Ends(v) /\ shelf' = shelf
    <2>1. asking' = [asking EXCEPT ![v] = Away] /\ answer' = Away
        BY <1>4 DEF Ends
    <2>2. ViewFits(v)'
        BY <2>1 DEF ViewsInv, ViewFits
    <2> QED
        BY <1>1, <1>4, <2>1, <2>2, NoAnswer, TurnKeeps
<1>5. ASSUME NEW e \in shelf, e.key = asking[v].key, Alive(e), Answers(v, e.value, TRUE),
             UNCHANGED shelf
      PROVE  ViewsInv'
    <2>1. /\ asking' = [asking EXCEPT ![v] = Away]
          /\ answer' = [at |-> "answered", for |-> asking[v].value.for, value |-> e.value,
                        hit |-> TRUE]
        BY <1>5 DEF Answers
    <2>2. e \in Entry /\ EntryFits(e) /\ minute <= e.expires
        BY <1>5 DEF ViewsInv, ViewsTypeOK, Alive
    <2>3. e.value \in Value /\ e.expires \in Nat /\ e.value.at \in Nat
        BY <2>2, ViewsAssumption DEF Entry, Value
    <2>4. answer' \in ViewAnswer
        BY <1>2, <2>1, <2>3 DEF ViewAnswer
    <2>5. AnswersFitTheirRequest'
        BY <1>2, <1>5, <2>1, <2>2 DEF AnswersFitTheirRequest, EntryFits
    <2>6. AnswersAreRecent'
        <3>1. minute \in Nat /\ MaxSlow \in Nat /\ TTL(e.key) \in Nat
            BY ViewsAssumption DEF ViewsInv, ViewsTypeOK, TTL
        <3>2. minute - e.value.at <= TTL(e.key) + MaxSlow
            BY <2>2, <2>3, <3>1 DEF EntryFits
        <3>3. /\ answer'.for = e.key /\ answer'.value = e.value /\ answer'.hit = TRUE
              /\ minute' = minute
            BY <1>1, <1>2, <1>5, <2>1
        <3> QED
            BY <3>2, <3>3 DEF AnswersAreRecent, TTL
    <2>7. ViewFits(v)'
        BY <2>1 DEF ViewsInv, ViewFits
    <2> QED
        BY <1>1, <1>5, <2>1, <2>4, <2>5, <2>6, <2>7, TurnKeeps
<1>6. \/ GoesOn(v, "read") /\ shelf' \subseteq shelf
      \/ Ends(v) /\ shelf' = shelf
      \/ \E e \in shelf : /\ e.key = asking[v].key /\ Alive(e) /\ Answers(v, e.value, TRUE)
                          /\ UNCHANGED shelf
    <2>1. CASE Get(v)
        BY <2>1 DEF Get
    <2>2. CASE GetFails(v)
        BY <2>2 DEF GetFails
    <2> QED
        BY <2>1, <2>2
<1> QED
    BY <1>3, <1>4, <1>5, <1>6

\* A view reads the database.
LEMMA ReadKeeps ==
    ASSUME ViewsInv, NEW v \in Views, ReadView(v) \/ ReadFails(v)
    PROVE  ViewsInv'
<1>1. asking[v].at = "read" /\ UNCHANGED <<minute, prefs, shelf>> /\ answer' = Away
    BY DEF ReadView, ReadFails, Ends
<1>2. /\ asking[v] \in View /\ asking[v].value.for = asking[v].key
      /\ asking[v].since <= minute /\ minute <= asking[v].since + MaxSlow
      /\ asking[v].value \in Value /\ minute \in 0 .. MaxClock /\ MaxClock \in Nat
    BY <1>1, ViewIs
<1>3. CASE ReadView(v)
    <2> DEFINE r == [asking[v] EXCEPT !.at = "set", !.value.at = minute]
    <2>1. asking' = [asking EXCEPT ![v] = r]
        BY <1>3 DEF ReadView, ViewsInv
    <2>2. /\ r \in View /\ r.at = "set" /\ r.value.at = minute /\ r.value.for = r.key
          /\ r.since = asking[v].since
        BY <1>2 DEF View, Value
    <2>3. asking'[v] = r
        BY <2>1 DEF ViewsInv
    <2> HIDE DEF r
    <2>4. ViewFits(v)'
        BY <1>1, <1>2, <2>2, <2>3 DEF ViewFits
    <2> QED
        BY <1>1, <2>1, <2>2, <2>4, NoAnswer, TurnKeeps
<1>4. CASE ReadFails(v)
    <2>1. asking' = [asking EXCEPT ![v] = Away]
        BY <1>4 DEF ReadFails, Ends
    <2>2. ViewFits(v)'
        BY <2>1 DEF ViewsInv, ViewFits
    <2> QED
        BY <1>1, <2>1, <2>2, NoAnswer, TurnKeeps
<1> QED
    BY <1>3, <1>4

\* What a view answers with what it computed.
LEMMA ComputedAnswers ==
    ASSUME ViewsInv, NEW v \in Views, asking[v].at = "set", UNCHANGED minute,
           Ends(v) \/ Answers(v, asking[v].value, FALSE)
    PROVE  /\ asking' = [asking EXCEPT ![v] = Away] /\ ViewFits(v)'
           /\ answer' \in {Away} \cup ViewAnswer
           /\ AnswersFitTheirRequest' /\ AnswersAreRecent'
<1>1. /\ asking[v].value.for = asking[v].key /\ asking[v].key \in ViewKeys
      /\ asking[v].value \in Value
      /\ asking[v].since <= asking[v].value.at /\ asking[v].value.at <= minute
      /\ minute <= asking[v].since + MaxSlow
      /\ asking[v].since \in Nat /\ asking[v].value.at \in Nat
      /\ minute \in Nat /\ MaxSlow \in Nat
    <2>1. asking[v].value \in Value /\ MaxClock \in Nat
        BY ViewIs
    <2> QED
        BY <2>1, ViewIs DEF Value
<1>2. asking' = [asking EXCEPT ![v] = Away]
    BY DEF Ends, Answers
<1>3. ViewFits(v)'
    BY <1>2 DEF ViewsInv, ViewFits
<1>4. CASE Ends(v)
    <2>1. answer' = Away
        BY <1>4 DEF Ends
    <2> QED
        BY <1>2, <1>3, <2>1, NoAnswer
<1>5. CASE Answers(v, asking[v].value, FALSE)
    <2>1. answer' = [at |-> "answered", for |-> asking[v].value.for, value |-> asking[v].value,
                     hit |-> FALSE]
        BY <1>5 DEF Answers
    <2>2. answer' \in ViewAnswer
        BY <1>1, <2>1 DEF ViewAnswer
    <2>3. AnswersFitTheirRequest'
        BY <1>1, <2>1 DEF AnswersFitTheirRequest
    <2>4. minute - asking[v].value.at <= MaxSlow
        BY <1>1
    <2>5. AnswersAreRecent'
        BY <2>1, <2>4 DEF AnswersAreRecent
    <2> QED
        BY <1>2, <1>3, <2>2, <2>3, <2>5
<1> QED
    BY <1>4, <1>5

\* A view sets its entry.
LEMMA SetKeeps ==
    ASSUME ViewsInv, NEW v \in Views, SetView(v) \/ SetFails(v)
    PROVE  ViewsInv'
<1>1. asking[v].at = "set" /\ UNCHANGED <<minute, prefs>>
    BY DEF SetView, SetFails
<1>2. Ends(v) \/ Answers(v, asking[v].value, FALSE)
    BY DEF SetView, SetFails
<1>3. /\ asking' = [asking EXCEPT ![v] = Away] /\ ViewFits(v)'
      /\ answer' \in {Away} \cup ViewAnswer
      /\ AnswersFitTheirRequest' /\ AnswersAreRecent'
    BY <1>1, <1>2, ComputedAnswers
<1>4. CASE SetFails(v)
    <2>1. UNCHANGED shelf
        BY <1>4 DEF SetFails
    <2> QED
        BY <1>1, <1>3, <2>1, TurnKeeps
<1>5. CASE SetView(v)
    <2>0. PICK key, value, ttl : /\ key = asking[v].key /\ value = asking[v].value
                                 /\ ttl = TTL(key)
        OBVIOUS
    <2>1. /\ key \in ViewKeys /\ value \in Value /\ value.for = key
          /\ asking[v].since <= value.at /\ value.at <= minute
          /\ minute <= asking[v].since + MaxSlow
          /\ asking[v].since \in Nat /\ minute \in Nat /\ MaxSlow \in Nat
        BY <1>1, <2>0, ViewIs
    <2>2. ttl \in Nat
        BY <2>0, ViewsAssumption DEF TTL
    <2>3. shelf' = Put(key, value, ttl)
        BY <1>5, <2>0 DEF SetView, TTL
    <2> DEFINE new == [key |-> key, value |-> value, expires |-> minute + ttl]
    <2>4. PICK put : /\ put = shelf'
                     /\ \A e \in put : (e \in shelf /\ e.key # key) \/ e = new
                     /\ IsFiniteSet(put)
                     /\ \A kind \in {"status", "board"} :
                           Cardinality(OfKind(put, kind)) <= MaxEntries
        <3>1. PICK put : put = shelf' /\ put = Put(key, value, ttl)
            BY <2>3
        <3>2. /\ \A e \in put : \/ e \in shelf /\ e.key # key
                                \/ e = [key |-> key, value |-> value, expires |-> minute + ttl]
              /\ IsFiniteSet(put)
              /\ \A kind \in {"status", "board"} :
                    Cardinality(OfKind(put, kind)) <= MaxEntries
            BY <2>1, <2>2, <3>1, PutFits
        <3> QED
            BY <3>1, <3>2
    <2>5. new \in Entry
        BY <2>1, <2>2 DEF Entry
    <2>6. EntryFits(new)
        <3>1. value.at \in Nat
            BY <2>1, ViewsAssumption DEF Value
        <3>2. minute + ttl <= value.at + MaxSlow + ttl
            BY <2>1, <2>2, <3>1
        <3> QED
            BY <2>0, <2>1, <3>2 DEF EntryFits
    <2>7. asking' \in [Views -> {Away} \cup View]
        BY <1>3 DEF ViewsInv
    <2>8. \A x \in Views : ViewFits(x)'
        <3>1. \A x \in Views \ {v} : asking'[x] = asking[x]
            BY <1>3 DEF ViewsInv
        <3> QED
            BY <1>1, <1>3, <3>1 DEF ViewFits, ViewsInv
    <2>9. \A e, f \in shelf' : e.key = f.key => e = f
        <3>1. new.key = key
            OBVIOUS
        <3> HIDE DEF new
        <3> QED
            BY <2>4, <3>1 DEF ViewsInv, ViewsTypeOK
    <2>10. (\A e \in shelf' : e \in Entry) /\ \A e \in shelf' : EntryFits(e)'
        <3> HIDE DEF new
        <3> QED
            BY <2>4, <2>5, <2>6 DEF ViewsInv, ViewsTypeOK, EntryFits
    <2>11. ViewsTypeOK'
        <3>1. minute' \in 0 .. MaxClock /\ prefs' \in [People -> {1, 2}]
            BY <1>1 DEF ViewsInv, ViewsTypeOK
        <3>2. \A x \in Views : asking'[x] \in {Away} \cup View
            BY <2>7
        <3> HIDE DEF new
        <3> QED
            BY <1>3, <2>4, <2>9, <2>10, <3>1, <3>2 DEF ViewsTypeOK, OfKind
    <2> QED
        BY <1>3, <2>4, <2>7, <2>8, <2>10, <2>11 DEF ViewsInv
<1> QED
    BY <1>4, <1>5

\* The users change their preferences, and time passes.
LEMMA AroundKeeps ==
    ASSUME ViewsInv, Pass \/ \E u \in People : ChangePreferences(u)
    PROVE  ViewsInv'
<1>1. answer' = Away /\ UNCHANGED <<shelf, asking>>
    BY DEF Pass, ChangePreferences
<1>2. CASE Pass
    <2>1. /\ UNCHANGED prefs /\ minute' = minute + 1 /\ minute \in Nat /\ MaxClock \in Nat
          /\ MaxSlow \in Nat /\ minute < MaxClock
        BY <1>2, ViewsAssumption DEF Pass, ViewsInv, ViewsTypeOK
    <2>2. ViewsTypeOK'
        BY <1>1, <2>1 DEF ViewsInv, ViewsTypeOK
    <2>3. ASSUME NEW v \in Views, asking[v] # Away
          PROVE  ViewFits(v)'
        <3>1. asking[v] \in View /\ ViewFits(v) /\ minute - asking[v].since < MaxSlow
            BY <1>2, <2>3 DEF Pass, ViewsInv
        <3>2. asking[v].since \in Nat /\ asking[v].value.at \in Nat
            BY <2>1, <3>1 DEF View, Value
        <3> QED
            BY <1>1, <2>1, <2>3, <3>1, <3>2 DEF ViewFits
    <2>4. \A v \in Views : ViewFits(v)'
        BY <1>1, <2>3 DEF ViewFits
    <2>5. \A e \in shelf' : EntryFits(e)'
        BY <1>1 DEF ViewsInv, EntryFits
    <2> QED
        BY <1>1, <2>2, <2>4, <2>5, NoAnswer DEF ViewsInv
<1>3. ASSUME NEW u \in People, ChangePreferences(u)
      PROVE  ViewsInv'
    <2>1. UNCHANGED minute /\ prefs' \in [People -> {1, 2}]
        <3>1. prefs \in [People -> {1, 2}] /\ 3 - prefs[u] \in {1, 2}
            BY DEF ViewsInv, ViewsTypeOK
        <3> QED
            BY <1>3, <3>1 DEF ChangePreferences
    <2>2. ViewsTypeOK'
        BY <1>1, <2>1 DEF ViewsInv, ViewsTypeOK
    <2>3. (\A v \in Views : ViewFits(v)') /\ \A e \in shelf' : EntryFits(e)'
        BY <1>1, <2>1 DEF ViewsInv, ViewFits, EntryFits
    <2> QED
        BY <1>1, <2>2, <2>3, NoAnswer DEF ViewsInv
<1> QED
    BY <1>2, <1>3

LEMMA ViewsInvNext ==
    ASSUME ViewsInv, [ViewsNext]_viewVars
    PROVE  ViewsInv'
<1>1. CASE UNCHANGED viewVars
    <2>1. UNCHANGED <<minute, prefs, shelf, asking, answer>>
        BY <1>1 DEF viewVars
    <2>2. ViewsTypeOK' /\ AnswersFitTheirRequest' /\ AnswersAreRecent'
        BY <2>1 DEF ViewsInv, ViewsTypeOK, AnswersFitTheirRequest, AnswersAreRecent
    <2>3. (\A v \in Views : ViewFits(v)') /\ \A e \in shelf' : EntryFits(e)'
        BY <2>1 DEF ViewsInv, ViewFits, EntryFits
    <2> QED
        BY <2>1, <2>2, <2>3 DEF ViewsInv
<1>2. CASE ViewsNext
    <2>1. CASE Pass \/ \E u \in People : ChangePreferences(u)
        BY <2>1, AroundKeeps
    <2>2. ASSUME NEW v \in Views,
                 ViewStep(v) \/ UpdateLeaderboard(v)
                 \/ (\E u \in People : StatusBar(v, u)) \/ \E f \in Filters : PublicLeaders(v, f)
          PROVE  ViewsInv'
        BY <2>2, StartsKeep, GetKeeps, ReadKeeps, SetKeeps DEF ViewStep
    <2> QED
        BY <1>2, <2>1, <2>2 DEF ViewsNext
<1> QED
    BY <1>1, <1>2

\* What the caches answer is about the request and not too old, however slow
\* views set their values over newer ones, and each cache holds one entry for
\* each key, up to its limit (statusBarTodayForUser, publicLeaders, the memory
\* cache).
THEOREM CachesAnswerFresh == ViewsSpec => []AnswersFresh
<1>1. ViewsSpec => []ViewsInv
    BY ViewsInvInit, ViewsInvNext, PTL DEF ViewsSpec
<1>2. ViewsInv => AnswersFresh
    BY DEF ViewsInv, AnswersFresh
<1> QED
    BY <1>1, <1>2, PTL
=============================================================================
