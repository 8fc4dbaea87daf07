---------------------------- MODULE MCServerData ----------------------------
(* Instances for TLC of CustomRules, OAuthTokens and ViewCaches: what the     *)
(* server stores for a user, for the applications the user allows, and in     *)
(* front of its views.  A behaviour is one of the part chosen in the initial  *)
(* state; the variables of the others keep their initial values.             *)
EXTENDS MCCustomRules, OAuthTokens, ViewCaches

VARIABLE part

dataVars == <<part, vars, tokenVars, viewVars>>

DataInit ==
    /\ part \in {"rules", "tokens", "views"}
    /\ Init /\ TokensInit /\ ViewsInit
    /\ part = "rules" \/ (mode = "queue" /\ \A c \in Clients : item[c] = h1)

DataNext ==
    /\ UNCHANGED part
    /\ \/ part = "rules" /\ Next /\ UNCHANGED <<tokenVars, viewVars>>
       \/ part = "tokens" /\ TokensNext /\ UNCHANGED <<vars, viewVars>>
       \/ part = "views" /\ ViewsNext /\ UNCHANGED <<vars, tokenVars>>

DataSpec == DataInit /\ [][DataNext]_dataVars

\* The scope "all" covers the scope "read".
MCCovers == [s \in {"all", "read"} |-> IF s = "all" THEN {"all", "read"} ELSE {s}]
MCRegistered == [a \in Apps |-> {"read"}]
=============================================================================
