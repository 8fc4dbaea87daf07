----------------------------- MODULE ViewCaches -----------------------------
(***************************************************************************)
(* The status bar and the public leaderboard, which answer from a cache     *)
(* (internal/cache, statusBarTodayForUser and publicLeaders in              *)
(* internal/api/router.go, internal/workers/leaderboard_worker.go).         *)
(*                                                                          *)
(* Nothing that changes the data or the users touches the caches: an entry   *)
(* ends with its time to live or is evicted.                                *)
(* A view that finds no entry reads the database, computes, and sets the    *)
(* entry, whatever another view has set meanwhile; the worker computes the  *)
(* board of all countries and sets it without looking.                      *)
(*                                                                          *)
(* A value is what the database said at an hour of the clock, here that     *)
(* hour with what the value was computed for.  Times to live and days are   *)
(* in ticks of the clock.                                                   *)
(***************************************************************************)
EXTENDS Integers, FiniteSets

CONSTANTS
    Views,        \* requests and tasks at a time
    People,
    Filters,      \* what boards are asked for: languages and countries
    StatusTTL,    \* two minutes
    BoardTTL,     \* an hour
    DayTicks,
    MaxEntries,   \* of each cache: 4096 and 128
    MaxClock,     \* bound on time
    MaxSlow       \* bound on the ticks a view takes to read

ASSUME ViewsAssumption ==
    /\ {StatusTTL, BoardTTL, MaxClock, MaxSlow} \subseteq Nat
    /\ {DayTicks, MaxEntries} \subseteq Nat \ {0}
    /\ "none" \in Filters

VARIABLES
    minute,  \* the clock
    prefs,   \* the preferences of each user that the status bar depends on
    shelf,   \* the entries
    asking,  \* what each request is doing
    answer   \* the answer given by the last step

viewVars == <<minute, prefs, shelf, asking, answer>>

DayAt(t) == t \div DayTicks

StatusKeys == [kind : {"status"}, of : People, prefs : {1, 2}, day : 0 .. DayAt(MaxClock)]
BoardKeys == [kind : {"board"}, of : Filters]
ViewKeys == StatusKeys \cup BoardKeys
Value == [for : ViewKeys, at : 0 .. MaxClock]
Entry == [key : ViewKeys, value : Value, expires : Nat]
Away == [at |-> "away"]
View == [at : {"get", "read", "set"}, key : ViewKeys, since : 0 .. MaxClock, looks : BOOLEAN,
         value : Value]
ViewAnswer == [at : {"answered"}, for : ViewKeys, value : Value, hit : BOOLEAN]

ViewsTypeOK ==
    /\ minute \in 0 .. MaxClock
    /\ prefs \in [People -> {1, 2}]
    /\ \A e \in shelf : e \in Entry
    /\ \A kind \in {"status", "board"} : Cardinality({e \in shelf : e.key.kind = kind}) <= MaxEntries
    /\ \A e, f \in shelf : e.key = f.key => e = f
    /\ \A v \in Views : asking[v] \in {Away} \cup View
    /\ answer \in {Away} \cup ViewAnswer

ViewsInit ==
    /\ minute = 0 /\ shelf = {}
    /\ prefs = [u \in People |-> 1]
    /\ asking = [v \in Views |-> Away]
    /\ answer = Away

-----------------------------------------------------------------------------
(* The cache, in memory or in Redis.                                        *)

\* Mutant: entries are kept until they are evicted.
Kept(e) == TRUE

Alive(e) == minute <= e.expires

\* The entry that ends first makes room, for a key that has an entry too.
EvictOldestIfFull(entries) ==
    IF Cardinality(entries) < MaxEntries THEN entries
    ELSE entries \ {CHOOSE e \in entries : \A f \in entries : e.expires <= f.expires}

\* Each of the two caches looks after its own entries.
Put(key, value, ttl) ==
    LET own == {e \in shelf : e.key.kind = key.kind} IN
    (shelf \ own)
        \cup {e \in EvictOldestIfFull({e \in own : Alive(e)}) : e.key # key}
        \cup {[key |-> key, value |-> value, expires |-> minute + ttl]}

-----------------------------------------------------------------------------
(* The views.                                                               *)

StatusCacheKey(u) == [kind |-> "status", of |-> u, prefs |-> prefs[u], day |-> DayAt(minute)]

\* What the request is for; its user has been read.
Wanted(u) == [kind |-> "status", of |-> u, prefs |-> prefs[u], day |-> DayAt(minute)]

Starts(v, at, key, wanted, looks) ==
    /\ asking[v] = Away
    /\ asking' = [asking EXCEPT ![v] = [at |-> at, key |-> key, since |-> minute, looks |-> looks,
                                    value |-> [for |-> wanted, at |-> 0]]]
    /\ answer' = Away
    /\ UNCHANGED <<minute, prefs, shelf>>

StatusBar(v, u) == Starts(v, "get", StatusCacheKey(u), Wanted(u), TRUE)

PublicLeaders(v, f) ==
    LET key == [kind |-> "board", of |-> f] IN Starts(v, "get", key, key, TRUE)

\* The task of the worker, every hour.
UpdateLeaderboard(v) ==
    LET key == [kind |-> "board", of |-> "none"] IN Starts(v, "read", key, key, FALSE)

Answers(v, value, hit) ==
    /\ asking' = [asking EXCEPT ![v] = Away]
    /\ answer' = [at |-> "answered", for |-> asking[v].value.for, value |-> value, hit |-> hit]

Ends(v) == asking' = [asking EXCEPT ![v] = Away] /\ answer' = Away
GoesOn(v, at) == asking' = [asking EXCEPT ![v].at = at] /\ answer' = Away

\* An entry that has ended is removed from memory.
Get(v) ==
    LET found == {e \in shelf : e.key = asking[v].key} IN
    /\ asking[v].at = "get"
    /\ \/ \E e \in found : Alive(e) /\ Answers(v, e.value, TRUE) /\ UNCHANGED shelf
       \/ (~\E e \in found : Alive(e)) /\ shelf' = shelf \ found /\ GoesOn(v, "read")
    /\ UNCHANGED <<minute, prefs>>

\* Redis does not answer: the status bar is computed, the board is an error.
GetFails(v) ==
    /\ asking[v].at = "get"
    /\ IF asking[v].key.kind = "status" THEN GoesOn(v, "read") ELSE Ends(v)
    /\ UNCHANGED <<minute, prefs, shelf>>

\* The users and their heartbeats are read, and the value computed.
ReadView(v) ==
    /\ asking[v].at = "read"
    /\ asking' = [asking EXCEPT ![v].at = "set", ![v].value.at = minute]
    /\ answer' = Away
    /\ UNCHANGED <<minute, prefs, shelf>>

ReadFails(v) ==
    /\ asking[v].at = "read"
    /\ Ends(v)
    /\ UNCHANGED <<minute, prefs, shelf>>

SetView(v) ==
    LET key == asking[v].key IN
    /\ asking[v].at = "set"
    /\ shelf' = Put(key, asking[v].value, IF key.kind = "status" THEN StatusTTL ELSE BoardTTL)
    /\ IF asking[v].looks THEN Answers(v, asking[v].value, FALSE) ELSE Ends(v)
    /\ UNCHANGED <<minute, prefs>>

\* The status bar ignores a failing cache.
SetFails(v) ==
    /\ asking[v].at = "set"
    /\ IF asking[v].key.kind = "status" THEN Answers(v, asking[v].value, FALSE) ELSE Ends(v)
    /\ UNCHANGED <<minute, prefs, shelf>>

-----------------------------------------------------------------------------
(* The users, and time.                                                     *)

ChangePreferences(u) ==
    /\ prefs' = [prefs EXCEPT ![u] = 3 - @]
    /\ answer' = Away
    /\ UNCHANGED <<minute, shelf, asking>>

Pass ==
    /\ minute < MaxClock
    /\ \A v \in Views : asking[v] # Away => minute - asking[v].since < MaxSlow
    /\ minute' = minute + 1
    /\ answer' = Away
    /\ UNCHANGED <<prefs, shelf, asking>>

ViewStep(v) == Get(v) \/ ReadView(v) \/ SetView(v) \/ GetFails(v) \/ SetFails(v) \/ ReadFails(v)

ViewsNext ==
    \/ \E v \in Views :
        \/ ViewStep(v) \/ UpdateLeaderboard(v)
        \/ \E u \in People : StatusBar(v, u)
        \/ \E f \in Filters : PublicLeaders(v, f)
    \/ \E u \in People : ChangePreferences(u)
    \/ Pass

ViewsSpec == ViewsInit /\ [][ViewsNext]_viewVars

-----------------------------------------------------------------------------
(* Properties.                                                              *)

\* An answer is computed for what its request is about: a change of the
\* preferences or of the day is seen by the next request, in spite of entries
\* set before and of views that are still computing.
AnswersFitTheirRequest == answer # Away => answer.value.for = answer.for

\* An answer is no older than the time to live and the time a view takes: a view
\* that was slow sets its old value over a newer one, for a whole time to live.
AnswersAreRecent ==
    answer # Away =>
        LET ttl == IF answer.for.kind = "status" THEN StatusTTL ELSE BoardTTL IN
        minute - answer.value.at <= IF answer.hit THEN ttl + MaxSlow ELSE MaxSlow

\* What the caches answer is about the request and not too old, and they hold
\* one entry for each key, up to their limit.
AnswersFresh == ViewsTypeOK /\ AnswersFitTheirRequest /\ AnswersAreRecent
=============================================================================
