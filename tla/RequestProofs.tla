---------------------------- MODULE RequestProofs ----------------------------
(***************************************************************************)
(* Theorems about what decides whether a request is answered, for any       *)
(* number of invocations, keys and requests and any limits.  InternalConfig *)
(* and RateLimits declare different variables and take no step together.    *)
(*                                                                         *)
(* InternalConfig: its types, that the AI mark survives the writes of other *)
(* keys, and that posts are held back as the failures ask for.              *)
(*                                                                         *)
(* RateLimits: its types, that no limiter admits more than the limit in a   *)
(* window, that the memory is bounded, and that Retry-After suffices.       *)
(***************************************************************************)
EXTENDS InternalConfig, RateLimits, SequenceTheorems, FiniteSetTheorems, WellFoundedInduction, TLAPS

-----------------------------------------------------------------------------
(* Types *)

Stages == {"idle", "decide", "held", "limited", "post"} \cup Writing
Lists == {s \in Seq(Written) : Len(s) <= 4}

\* The types, and that an invocation has a key to write while it writes.
ConfigTypes ==
    /\ file \in Configs
    /\ step \in [Invocations -> Stages]
    /\ opts \in [Invocations -> Configs]
    /\ todo \in [Invocations -> Lists]
    /\ failing \in [Invocations -> BOOLEAN]
    /\ copy \in [Invocations -> Configs]
    /\ streak \in 0 .. Many
    /\ sinceFailure \in Ages
    /\ alone \in [Invocations -> BOOLEAN]
    /\ disturbed \in BOOLEAN
    /\ torn \in BOOLEAN
    /\ marked \in BOOLEAN
    /\ mishaps \in 0 .. MaxMishaps
    /\ \A i \in Invocations : step[i] \in Writing => todo[i] # <<>>

LEMMA TypesOK == ConfigTypes => ConfigTypeOK
BY DEF ConfigTypes, ConfigTypeOK, Stages, Lists

LEMMA OlderIsAge ==
    ASSUME NEW a \in Ages
    PROVE  Older(a) \in Ages
BY BackoffAssumption DEF Older, Ages, Never

LEMMA AgedIsConfig ==
    ASSUME NEW c \in Configs
    PROVE  /\ Aged(c) \in Configs
           /\ Aged(c).mark = c.mark /\ Aged(c).retries = c.retries
           /\ Aged(c).at = Older(c.at)
<1>1. c.at \in Ages /\ c.sent \in {Never} \cup 0 .. RateLimit - 1
  BY DEF Configs
<1>2. Older(c.at) \in Ages
  BY <1>1, OlderIsAge
<1>3. (IF Older(c.sent) >= RateLimit THEN Never ELSE Older(c.sent)) \in {Never} \cup 0 .. RateLimit - 1
  BY <1>1, BackoffAssumption DEF Older, Never
<1>4. QED
  BY <1>2, <1>3 DEF Aged, Configs

LEMMA BlankIsConfig == Blank \in Configs /\ Blank.retries = 0 /\ Blank.at = Never
BY BackoffAssumption DEF Blank, Configs, Ages, Never

\* Setting a key changes that key only.
LEMMA WithKeyIs ==
    ASSUME ConfigTypes, NEW i \in Invocations, NEW key \in Written, NEW c \in Configs
    PROVE  /\ WithKey(i, key, c) \in Configs
           /\ WithKey(i, key, c).mark = (c.mark \/ key = "mark")
           /\ WithKey(i, key, c).retries = IF key = "retries" THEN opts[i].retries ELSE c.retries
           /\ WithKey(i, key, c).at = IF key = "at" THEN opts[i].at ELSE c.at
<1>1. opts[i] \in Configs /\ opts[i].retries \in 0 .. Many /\ opts[i].at \in Ages
  BY DEF ConfigTypes, Configs
<1>2. /\ c.retries \in 0 .. Many /\ c.at \in Ages /\ c.sent \in {Never} \cup 0 .. RateLimit - 1
      /\ c.mark \in BOOLEAN
      /\ c = [retries |-> c.retries, at |-> c.at, sent |-> c.sent, mark |-> c.mark]
  BY DEF Configs
<1>3. CASE key = "sent"
  <2>1. WithKey(i, key, c) = [c EXCEPT !.sent = 0]
    BY <1>3 DEF WithKey
  <2>2. 0 \in 0 .. RateLimit - 1
    BY BackoffAssumption
  <2>3. QED
    BY <1>2, <1>3, <2>1, <2>2 DEF Configs
<1>4. CASE key = "retries"
  <2>1. WithKey(i, key, c) = [c EXCEPT !.retries = opts[i].retries]
    BY <1>4 DEF WithKey
  <2>2. QED
    BY <1>1, <1>2, <1>4, <2>1 DEF Configs
<1>5. CASE key = "at"
  <2>1. WithKey(i, key, c) = [c EXCEPT !.at = opts[i].at]
    BY <1>5 DEF WithKey
  <2>2. QED
    BY <1>1, <1>2, <1>5, <2>1 DEF Configs
<1>6. CASE key = "mark"
  <2>1. WithKey(i, key, c) = [c EXCEPT !.mark = TRUE]
    BY <1>6 DEF WithKey
  <2>2. QED
    BY <1>2, <1>6, <2>1 DEF Configs
<1>7. QED
  BY <1>3, <1>4, <1>5, <1>6 DEF Written

\* What an invocation that goes on to its keys, or ends, changes.
LEMMA GoingOn ==
    ASSUME ConfigTypes, NEW i \in Invocations, NEW keys \in Lists, NEW o \in Configs,
           NEW fails \in BOOLEAN, GoOn(i, keys, o, fails)
    PROVE  /\ step' \in [Invocations -> Stages]
           /\ opts' \in [Invocations -> Configs]
           /\ todo' \in [Invocations -> Lists]
           /\ failing' \in [Invocations -> BOOLEAN]
           /\ alone' \in [Invocations -> BOOLEAN]
           /\ \A j \in Invocations : step'[j] \in Writing => todo'[j] # <<>>
           /\ \A j \in Invocations \ {i} :
                 /\ step'[j] = step[j] /\ opts'[j] = opts[j] /\ todo'[j] = todo[j]
                 /\ failing'[j] = failing[j] /\ alone'[j] = alone[j]
           /\ todo'[i] = keys
           /\ keys = <<>> => step'[i] = "idle" /\ alone'[i] = FALSE
           /\ keys # <<>> => /\ step'[i] = "load" /\ opts'[i] = o
                             /\ failing'[i] = fails /\ alone'[i] = alone[i]
<1> USE DEF ConfigTypes, GoOn
<1>1. step' \in [Invocations -> Stages] /\ todo' \in [Invocations -> Lists]
  BY DEF Stages, Writing
<1>2. opts' \in [Invocations -> Configs]
  BY BlankIsConfig
<1>3. failing' \in [Invocations -> BOOLEAN] /\ alone' \in [Invocations -> BOOLEAN]
  OBVIOUS
<1>4. \A j \in Invocations : step'[j] \in Writing => todo'[j] # <<>>
  BY DEF Writing
<1>5. \A j \in Invocations \ {i} :
         /\ step'[j] = step[j] /\ opts'[j] = opts[j] /\ todo'[j] = todo[j]
         /\ failing'[j] = failing[j] /\ alone'[j] = alone[j]
  OBVIOUS
<1>6. /\ todo'[i] = keys
      /\ keys = <<>> => step'[i] = "idle" /\ alone'[i] = FALSE
  OBVIOUS
<1>7. keys # <<>> => /\ step'[i] = "load" /\ opts'[i] = o
                     /\ failing'[i] = fails /\ alone'[i] = alone[i]
  OBVIOUS
<1>8. QED
  BY <1>1, <1>2, <1>3, <1>4, <1>5, <1>6, <1>7

\* The keys an invocation may write after a post: those given, and the mark.
LEMMA ThenGoesOn ==
    ASSUME NEW i \in Invocations, NEW keys \in Seq(Written), Len(keys) <= 3, NEW o, NEW fails,
           Then(i, keys, o, fails)
    PROVE  \E more \in {keys, Append(keys, "mark")} :
              more \in Lists /\ GoOn(i, more, o, fails)
<1>1. keys \in Lists /\ Append(keys, "mark") \in Lists
  BY DEF Lists, Written
<1>2. QED
  BY <1>1 DEF Then

LEMMA ShorterList ==
    ASSUME NEW s \in Lists, s # <<>>
    PROVE  /\ Tail(s) \in Lists /\ Head(s) \in Written
           /\ Len(s) = 1 => Tail(s) = <<>>
           /\ \A key : (\E n \in 1 .. Len(s) : s[n] = key)
                         <=> Head(s) = key \/ \E n \in 1 .. Len(Tail(s)) : Tail(s)[n] = key
<1>1. s \in Seq(Written) /\ Len(s) \in Nat /\ Len(s) >= 1
  BY DEF Lists
<1>2. Tail(s) \in Seq(Written) /\ Len(Tail(s)) = Len(s) - 1
  BY <1>1
<1>3. \A n \in 1 .. Len(Tail(s)) : Tail(s)[n] = s[n + 1]
  BY <1>1, <1>2
<1>4. Head(s) = s[1] /\ s[1] \in Written
  BY <1>1
<1>5. Tail(s) \in Lists
  BY <1>2, <1>1 DEF Lists
<1>6. ASSUME Len(s) = 1
      PROVE  Tail(s) = <<>>
  <2>1. Len(Tail(s)) = 0
    BY <1>2, <1>6
  <2>2. QED
    BY <1>2, <2>1, EmptySeq
<1>7. ASSUME NEW key, NEW n \in 1 .. Len(s), s[n] = key
      PROVE  Head(s) = key \/ \E m \in 1 .. Len(Tail(s)) : Tail(s)[m] = key
  <2>1. CASE n = 1
    BY <1>4, <1>7, <2>1
  <2>2. CASE n # 1
    <3>1. n - 1 \in 1 .. Len(Tail(s)) /\ n - 1 + 1 = n
      BY <1>1, <1>2, <2>2
    <3>2. QED
      BY <1>3, <1>7, <3>1
  <2>3. QED
    BY <2>1, <2>2
<1>8. ASSUME NEW key, Head(s) = key \/ \E m \in 1 .. Len(Tail(s)) : Tail(s)[m] = key
      PROVE  \E n \in 1 .. Len(s) : s[n] = key
  <2>1. CASE Head(s) = key
    BY <1>1, <1>4, <2>1
  <2>2. CASE \E m \in 1 .. Len(Tail(s)) : Tail(s)[m] = key
    <3>1. PICK m \in 1 .. Len(Tail(s)) : Tail(s)[m] = key
      BY <2>2
    <3>2. m + 1 \in 1 .. Len(s)
      BY <1>1, <1>2
    <3>3. QED
      BY <1>3, <3>1, <3>2
  <2>3. QED
    BY <1>8, <2>1, <2>2
<1>9. QED
  BY <1>4, <1>5, <1>6, <1>7, <1>8

LEMMA TypesInit == ConfigInit => ConfigTypes
<1> SUFFICES ASSUME ConfigInit
             PROVE  ConfigTypes
  OBVIOUS
<1>1. <<>> \in Lists
  BY DEF Lists
<1>2. streak \in 0 .. Many /\ mishaps \in 0 .. MaxMishaps /\ sinceFailure \in Ages
  BY BackoffAssumption DEF ConfigInit, Ages
<1>3. QED
  BY <1>1, <1>2, BlankIsConfig DEF ConfigInit, ConfigTypes, Stages, Writing

LEMMA MishapTypes ==
    ASSUME ConfigTypes, Mishap
    PROVE  disturbed' \in BOOLEAN /\ mishaps' \in 0 .. MaxMishaps
<1>1. mishaps \in Nat /\ mishaps < MaxMishaps /\ MaxMishaps \in Nat
  BY BackoffAssumption DEF ConfigTypes, Mishap
<1>2. mishaps + 1 \in 0 .. MaxMishaps
  BY <1>1
<1>3. QED
  BY <1>2 DEF Mishap

\* A post that succeeds writes one key or three.
LEMMA PostedGoesOn ==
    ASSUME ConfigTypes, NEW i \in Invocations, Posted(i)
    PROVE  /\ NoFailures(opts[i]) \in Configs
           /\ \E more \in Lists : GoOn(i, more, NoFailures(opts[i]), FALSE)
<1>1. opts[i] \in Configs /\ 0 \in 0 .. Many /\ Never \in Ages
  BY BackoffAssumption DEF ConfigTypes, Ages
<1>2. NoFailures(opts[i]) \in Configs
  BY <1>1 DEF NoFailures, Configs
<1>3. /\ <<"sent">> \in Seq(Written) /\ Len(<<"sent">>) <= 3
      /\ <<"sent", "retries", "at">> \in Seq(Written) /\ Len(<<"sent", "retries", "at">>) <= 3
  BY DEF Written
<1>4. \/ Then(i, <<"sent">>, NoFailures(opts[i]), FALSE)
      \/ Then(i, <<"sent", "retries", "at">>, NoFailures(opts[i]), FALSE)
  BY DEF Posted
<1>5. CASE Then(i, <<"sent">>, NoFailures(opts[i]), FALSE)
  BY <1>2, <1>3, <1>5, ThenGoesOn
<1>6. CASE Then(i, <<"sent", "retries", "at">>, NoFailures(opts[i]), FALSE)
  BY <1>2, <1>3, <1>6, ThenGoesOn
<1>7. QED
  BY <1>2, <1>4, <1>5, <1>6

LEMMA HeldBackGoesOn ==
    ASSUME ConfigTypes, NEW i \in Invocations, HeldBack(i)
    PROVE  \E keys \in Lists : GoOn(i, keys, opts[i], TRUE)
<1>1. <<>> \in Seq(Written) /\ Len(<<>>) <= 3
  OBVIOUS
<1>2. QED
  BY <1>1, ThenGoesOn DEF HeldBack

LEMMA FailedPostGoesOn ==
    ASSUME ConfigTypes, NEW i \in Invocations, FailedPost(i)
    PROVE  \E keys \in Lists, o \in Configs : GoOn(i, keys, o, TRUE)
<1>1. OneMore(opts[i].retries) \in 0 .. Many /\ 0 \in Ages
  BY BackoffAssumption DEF OneMore, Configs, Ages, ConfigTypes
<1>2. [opts[i] EXCEPT !.retries = OneMore(@), !.at = 0] \in Configs /\ opts[i] \in Configs
  BY <1>1 DEF Configs, ConfigTypes
<1>3. <<"retries", "at">> \in Seq(Written) /\ Len(<<"retries", "at">>) <= 3 /\ <<>> \in Lists
  BY DEF Written, Lists
<1>4. QED
  BY <1>2, <1>3, ThenGoesOn DEF FailedPost

\* After a key is written the rest follows.
LEMMA WriteBackGoesOn ==
    ASSUME ConfigTypes, NEW i \in Invocations, WriteBack(i)
    PROVE  \E keys \in Lists, o \in Configs, fails \in BOOLEAN : GoOn(i, keys, o, fails)
<1>1. Tail(todo[i]) \in Lists
  BY ShorterList DEF WriteBack, Writing, ConfigTypes
<1>2. QED
  BY <1>1 DEF WriteBack, ConfigTypes

\* An invocation that is cut goes on with the mark at most.
LEMMA CutGoesOn ==
    ASSUME NEW i \in Invocations, Killed(i) \/ WriteFails(i)
    PROVE  \E keys \in Lists : Cut(i, keys)
<1>1. <<>> \in Lists /\ <<"mark">> \in Lists
  BY DEF Lists, Written
<1>2. QED
  BY <1>1 DEF Killed, WriteFails

LEMMA TypesStep ==
    ASSUME ConfigTypes, ConfigNext
    PROVE  ConfigTypes'
<1> USE DEF ConfigTypes
<1>1. CASE Tick
  <2>1. file' \in Configs /\ sinceFailure' \in Ages
    BY <1>1, AgedIsConfig, OlderIsAge DEF Tick
  <2>2. opts' \in [Invocations -> Configs] /\ copy' \in [Invocations -> Configs]
    BY <1>1, AgedIsConfig DEF Tick
  <2>3. QED
    BY <1>1, <2>1, <2>2 DEF Tick
<1>2. ASSUME NEW i \in Invocations, Begin(i)
      PROVE  ConfigTypes'
  <2>1. [file EXCEPT !.mark = FALSE] \in Configs
    BY DEF Configs
  <2>2. opts' \in [Invocations -> Configs] /\ step' \in [Invocations -> Stages]
    BY <1>2, <2>1 DEF Begin, Stages
  <2>3. disturbed' \in BOOLEAN /\ mishaps' \in 0 .. MaxMishaps
    BY <1>2, MishapTypes DEF Begin
  <2>4. alone' \in [Invocations -> BOOLEAN]
    <3>1. \A j \in Invocations : (j = i /\ ~OthersRun(i)) \in BOOLEAN
      OBVIOUS
    <3>2. QED
      BY <1>2, <3>1 DEF Begin
  <2>5. \A j \in Invocations : step'[j] \in Writing => todo'[j] # <<>>
    BY <1>2 DEF Begin, Writing
  <2>6. QED
    BY <1>2, <2>2, <2>3, <2>4, <2>5 DEF Begin
<1>3. ASSUME NEW i \in Invocations, Decide(i)
      PROVE  ConfigTypes'
  <2>1. step' \in [Invocations -> Stages]
    BY <1>3 DEF Decide, Stages
  <2>2. \A j \in Invocations : step'[j] \in Writing => todo'[j] # <<>>
    BY <1>3 DEF Decide, Writing
  <2>3. QED
    BY <1>3, <2>1, <2>2 DEF Decide
<1>4. ASSUME NEW i \in Invocations, HeldBack(i)
      PROVE  ConfigTypes'
  <2>1. PICK keys \in Lists : GoOn(i, keys, opts[i], TRUE)
    BY <1>4, HeldBackGoesOn
  <2>2. opts[i] \in Configs
    OBVIOUS
  <2>3. QED
    BY <1>4, <2>1, <2>2, GoingOn DEF HeldBack
<1>5. ASSUME NEW i \in Invocations, Posted(i)
      PROVE  ConfigTypes'
  <2>1. NoFailures(opts[i]) \in Configs
    BY <1>5, PostedGoesOn
  <2>2. PICK more \in Lists : GoOn(i, more, NoFailures(opts[i]), FALSE)
    BY <1>5, PostedGoesOn
  <2>5. streak' \in 0 .. Many /\ sinceFailure' \in Ages
    BY <1>5, BackoffAssumption DEF Posted, Ages
  <2>6. QED
    BY <1>5, <2>1, <2>2, <2>5, GoingOn DEF Posted
<1>6. ASSUME NEW i \in Invocations, FailedPost(i)
      PROVE  ConfigTypes'
  <2>1. PICK keys \in Lists, o \in Configs : GoOn(i, keys, o, TRUE)
    BY <1>6, FailedPostGoesOn
  <2>2. OneMore(streak) \in 0 .. Many /\ 0 \in Ages
    BY BackoffAssumption DEF OneMore, Ages
  <2>3. streak' \in 0 .. Many /\ sinceFailure' \in Ages
    BY <1>6, <2>2 DEF FailedPost
  <2>4. QED
    BY <1>6, <2>1, <2>3, GoingOn DEF FailedPost
<1>7. ASSUME NEW i \in Invocations, Load(i)
      PROVE  ConfigTypes'
  <2>1. Head(todo[i]) \in Written
    BY <1>7, ShorterList DEF Load, Writing
  <2>2. WithKey(i, Head(todo[i]), file) \in Configs
    BY <2>1, WithKeyIs
  <2>3. step' \in [Invocations -> Stages] /\ copy' \in [Invocations -> Configs]
    BY <1>7, <2>2 DEF Load, Stages, Writing
  <2>4. \A j \in Invocations : step'[j] \in Writing => todo'[j] # <<>>
    BY <1>7 DEF Load, Writing
  <2>5. torn' \in BOOLEAN
    BY <1>7 DEF Load
  <2>6. QED
    BY <1>7, <2>3, <2>4, <2>5 DEF Load
<1>8. ASSUME NEW i \in Invocations, Truncate(i)
      PROVE  ConfigTypes'
  <2>1. step' \in [Invocations -> Stages]
    BY <1>8 DEF Truncate, Stages, Writing
  <2>2. \A j \in Invocations : step'[j] \in Writing => todo'[j] # <<>>
    BY <1>8 DEF Truncate, Writing
  <2>3. QED
    BY <1>8, <2>1, <2>2, BlankIsConfig DEF Truncate
<1>9. ASSUME NEW i \in Invocations, WriteBack(i)
      PROVE  ConfigTypes'
  <2>2. PICK keys \in Lists, o \in Configs, fails \in BOOLEAN : GoOn(i, keys, o, fails)
    BY <1>9, WriteBackGoesOn
  <2>3. copy' \in [Invocations -> Configs] /\ file' \in Configs
    BY <1>9, BlankIsConfig DEF WriteBack
  <2>4. marked' \in BOOLEAN /\ disturbed' \in BOOLEAN
    BY <1>9 DEF WriteBack
  <2>5. /\ step' \in [Invocations -> Stages] /\ opts' \in [Invocations -> Configs]
        /\ todo' \in [Invocations -> Lists] /\ failing' \in [Invocations -> BOOLEAN]
        /\ alone' \in [Invocations -> BOOLEAN]
        /\ \A j \in Invocations : step'[j] \in Writing => todo'[j] # <<>>
    BY <2>2, GoingOn
  <2>6. UNCHANGED <<streak, sinceFailure, torn, mishaps>>
    BY <1>9 DEF WriteBack
  <2>7. QED
    BY <2>3, <2>4, <2>5, <2>6
<1>10. ASSUME NEW i \in Invocations, NEW keys \in Lists, Cut(i, keys)
       PROVE  ConfigTypes'
  <2>1. copy' \in [Invocations -> Configs] /\ torn' \in BOOLEAN
    BY <1>10, BlankIsConfig DEF Cut
  <2>2. disturbed' \in BOOLEAN /\ mishaps' \in 0 .. MaxMishaps
    BY <1>10, MishapTypes DEF Cut
  <2>3. PICK o \in Configs, fails \in BOOLEAN : GoOn(i, keys, o, fails)
    BY <1>10 DEF Cut
  <2>4. /\ step' \in [Invocations -> Stages] /\ opts' \in [Invocations -> Configs]
        /\ todo' \in [Invocations -> Lists] /\ failing' \in [Invocations -> BOOLEAN]
        /\ alone' \in [Invocations -> BOOLEAN]
        /\ \A j \in Invocations : step'[j] \in Writing => todo'[j] # <<>>
    BY <2>3, GoingOn
  <2>5. UNCHANGED <<file, streak, sinceFailure, marked>>
    BY <1>10 DEF Cut
  <2>6. QED
    BY <2>1, <2>2, <2>4, <2>5
<1>11. ASSUME NEW i \in Invocations, Killed(i) \/ WriteFails(i)
       PROVE  ConfigTypes'
  BY <1>10, <1>11, CutGoesOn
<1>12. QED
  BY <1>1, <1>2, <1>3, <1>4, <1>5, <1>6, <1>7, <1>8, <1>9, <1>11 DEF ConfigNext, Proceed

LEMMA TypesNext == ConfigTypes /\ [ConfigNext]_configVars => ConfigTypes'
<1>1. ConfigTypes /\ UNCHANGED configVars => ConfigTypes'
  BY DEF configVars, ConfigTypes
<1>2. QED
  BY <1>1, TypesStep

\* Every variable keeps its type, and a list of keys to write its bound.
THEOREM ConfigTyped == ConfigSpec => []ConfigTypeOK
BY TypesOK, TypesInit, TypesNext, PTL DEF ConfigSpec

-----------------------------------------------------------------------------
(* The AI mark *)

Rewriting(i) == step[i] \in {"truncate", "write"}

\* Unless a write is torn, at most one invocation is between its read and its
\* write; what it writes back holds the mark when the mark was ever written, and
\* so does the file, unless it is empty at the moment.
MarkInv ==
    /\ ~torn => \A i, j \in Invocations : Rewriting(i) /\ Rewriting(j) => i = j
    /\ \A i \in Invocations : Rewriting(i) /\ Head(todo[i]) = "mark" => copy[i].mark
    /\ marked /\ ~torn => /\ \A i \in Invocations : Rewriting(i) => copy[i].mark
                          /\ (\A i \in Invocations : step[i] # "write") => file.mark

\* A step that is not part of a write keeps that.
LEMMA MarkUntouched ==
    ASSUME MarkInv, file' = file, copy' = copy, torn' = torn, marked' = marked,
           \A i \in Invocations :
              Rewriting(i) \/ step'[i] \in {"truncate", "write"} =>
                 step'[i] = step[i] /\ todo'[i] = todo[i]
    PROVE  MarkInv'
BY DEF MarkInv, Rewriting

\* An invocation that goes on is not between a read and a write.
LEMMA GoneOn ==
    ASSUME ConfigTypes, NEW i \in Invocations, NEW keys \in Lists, NEW o \in Configs,
           NEW fails \in BOOLEAN, GoOn(i, keys, o, fails)
    PROVE  /\ step'[i] \in {"idle", "load"}
           /\ \A j \in Invocations \ {i} : step'[j] = step[j] /\ todo'[j] = todo[j]
<1>1. \A j \in Invocations \ {i} : step'[j] = step[j] /\ todo'[j] = todo[j]
  BY DEF GoOn, ConfigTypes
<1>2. keys = <<>> => step'[i] = "idle"
  BY DEF GoOn, ConfigTypes
<1>3. keys # <<>> => step'[i] = "load"
  BY DEF GoOn, ConfigTypes
<1>4. QED
  BY <1>1, <1>2, <1>3

LEMMA MarkTick ==
    ASSUME ConfigTypes, MarkInv, Tick
    PROVE  MarkInv'
<1>1. file'.mark = file.mark
  BY AgedIsConfig DEF Tick, ConfigTypes
<1>2. \A i \in Invocations : copy'[i].mark = copy[i].mark
  BY AgedIsConfig DEF Tick, ConfigTypes
<1>3. step' = step /\ todo' = todo /\ torn' = torn /\ marked' = marked
  BY DEF Tick
<1>4. QED
  BY <1>1, <1>2, <1>3 DEF MarkInv, Rewriting

LEMMA MarkBeforeWriting ==
    ASSUME ConfigTypes, MarkInv, NEW i \in Invocations,
           Begin(i) \/ Decide(i) \/ HeldBack(i) \/ Posted(i) \/ FailedPost(i)
    PROVE  MarkInv'
<1>1. /\ file' = file /\ copy' = copy /\ torn' = torn /\ marked' = marked
      /\ ~Rewriting(i)
  BY DEF Begin, Decide, HeldBack, Posted, FailedPost, Rewriting
<1>2. CASE Begin(i) \/ Decide(i)
  <2>1. \A j \in Invocations \ {i} : step'[j] = step[j] /\ todo'[j] = todo[j]
    BY <1>2 DEF Begin, Decide, ConfigTypes
  <2>2. step'[i] \notin {"truncate", "write"}
    BY <1>2 DEF Begin, Decide, ConfigTypes
  <2>3. QED
    BY <1>1, <2>1, <2>2, MarkUntouched
<1>3. CASE HeldBack(i) \/ Posted(i) \/ FailedPost(i)
  <2>1. \E keys \in Lists, o \in Configs, fails \in BOOLEAN : GoOn(i, keys, o, fails)
    <3>1. opts[i] \in Configs /\ TRUE \in BOOLEAN /\ FALSE \in BOOLEAN
      BY DEF ConfigTypes
    <3>2. CASE HeldBack(i)
      BY <3>1, <3>2, HeldBackGoesOn
    <3>3. CASE Posted(i)
      BY <3>1, <3>3, PostedGoesOn
    <3>4. CASE FailedPost(i)
      BY <3>1, <3>4, FailedPostGoesOn
    <3>5. QED
      BY <1>3, <3>2, <3>3, <3>4
  <2>2. /\ step'[i] \in {"idle", "load"}
        /\ \A j \in Invocations \ {i} : step'[j] = step[j] /\ todo'[j] = todo[j]
    BY <2>1, GoneOn
  <2>3. QED
    BY <1>1, <2>2, MarkUntouched
<1>4. QED
  BY <1>2, <1>3

LEMMA MarkLoad ==
    ASSUME ConfigTypes, MarkInv, NEW i \in Invocations, Load(i)
    PROVE  MarkInv'
<1>1. /\ step[i] = "load" /\ step' = [step EXCEPT ![i] = "truncate"]
      /\ copy' = [copy EXCEPT ![i] = WithKey(i, Head(todo[i]), file)]
      /\ torn' = (torn \/ OthersWrite(i)) /\ file' = file /\ todo' = todo /\ marked' = marked
  BY DEF Load
<1>2. Head(todo[i]) \in Written /\ file \in Configs
  BY <1>1, ShorterList DEF ConfigTypes, Writing
<1>3. WithKey(i, Head(todo[i]), file).mark = (file.mark \/ Head(todo[i]) = "mark")
  BY <1>2, WithKeyIs
<1>4. copy'[i].mark = (file.mark \/ Head(todo[i]) = "mark")
  BY <1>1, <1>3 DEF ConfigTypes
<1>5. \A j \in Invocations \ {i} : copy'[j] = copy[j] /\ step'[j] = step[j]
  BY <1>1 DEF ConfigTypes
<1>6. step'[i] = "truncate"
  BY <1>1 DEF ConfigTypes
<1>7. ~torn' => \A j \in Invocations \ {i} : ~Rewriting(j)
  BY <1>1 DEF OthersWrite, Rewriting
<1>8. \A j \in Invocations : step'[j] \in {"truncate", "write"} /\ Head(todo[j]) = "mark"
                                => copy'[j].mark
  BY <1>4, <1>5 DEF MarkInv, Rewriting
<1>9. ASSUME marked, ~torn'
      PROVE  /\ file.mark
             /\ \A j \in Invocations : step'[j] \in {"truncate", "write"} => copy'[j].mark
  <2>1. ~torn /\ \A j \in Invocations : step[j] # "write"
    BY <1>1, <1>7, <1>9 DEF Rewriting
  <2>2. file.mark
    BY <1>9, <2>1 DEF MarkInv
  <2>3. QED
    BY <1>4, <1>5, <1>7, <1>9, <2>2 DEF Rewriting
<1>10. QED
  BY <1>1, <1>5, <1>7, <1>8, <1>9 DEF MarkInv, Rewriting

LEMMA MarkTruncate ==
    ASSUME ConfigTypes, MarkInv, NEW i \in Invocations, Truncate(i)
    PROVE  MarkInv'
<1>1. /\ step[i] = "truncate" /\ step' = [step EXCEPT ![i] = "write"]
      /\ copy' = copy /\ torn' = torn /\ todo' = todo /\ marked' = marked
  BY DEF Truncate
<1>2. step'[i] = "write" /\ \A j \in Invocations \ {i} : step'[j] = step[j]
  BY <1>1 DEF ConfigTypes
<1>3. QED
  BY <1>1, <1>2 DEF MarkInv, Rewriting

LEMMA MarkWriteBack ==
    ASSUME ConfigTypes, MarkInv, NEW i \in Invocations, WriteBack(i)
    PROVE  MarkInv'
<1>1. /\ step[i] = "write" /\ file' = copy[i] /\ torn' = torn
      /\ copy' = [copy EXCEPT ![i] = Blank]
      /\ marked' = (marked \/ Head(todo[i]) = "mark")
  BY DEF WriteBack
<1>2. \E keys \in Lists, o \in Configs, fails \in BOOLEAN : GoOn(i, keys, o, fails)
  BY WriteBackGoesOn
<1>3. /\ step'[i] \in {"idle", "load"}
      /\ \A j \in Invocations \ {i} : step'[j] = step[j] /\ todo'[j] = todo[j]
  BY <1>2, GoneOn
<1>4. \A j \in Invocations \ {i} : copy'[j] = copy[j]
  BY <1>1 DEF ConfigTypes
<1>5. marked' /\ ~torn => copy[i].mark
  BY <1>1 DEF MarkInv, Rewriting
<1>6. ~torn => \A j \in Invocations \ {i} : ~Rewriting(j)
  BY <1>1 DEF MarkInv, Rewriting
<1>7. QED
  BY <1>1, <1>3, <1>4, <1>5, <1>6 DEF MarkInv, Rewriting

LEMMA MarkCut ==
    ASSUME ConfigTypes, MarkInv, NEW i \in Invocations, NEW keys \in Lists, Cut(i, keys)
    PROVE  MarkInv'
<1>1. /\ file' = file /\ torn' = (torn \/ step[i] = "write") /\ marked' = marked
      /\ copy' = [copy EXCEPT ![i] = Blank]
  BY DEF Cut
<1>2. \E o \in Configs, fails \in BOOLEAN : GoOn(i, keys, o, fails)
  BY DEF Cut, ConfigTypes
<1>3. /\ step'[i] \in {"idle", "load"}
      /\ \A j \in Invocations \ {i} : step'[j] = step[j] /\ todo'[j] = todo[j]
  BY <1>2, GoneOn
<1>4. \A j \in Invocations \ {i} : copy'[j] = copy[j]
  BY <1>1 DEF ConfigTypes
<1>5. QED
  BY <1>1, <1>3, <1>4 DEF MarkInv, Rewriting

LEMMA MarkInit == ConfigInit => MarkInv
BY DEF ConfigInit, MarkInv, Rewriting

LEMMA MarkNext == ConfigTypes /\ MarkInv /\ [ConfigNext]_configVars => MarkInv'
<1> SUFFICES ASSUME ConfigTypes, MarkInv, [ConfigNext]_configVars
             PROVE  MarkInv'
  OBVIOUS
<1>1. CASE UNCHANGED configVars
  BY <1>1 DEF configVars, MarkInv, Rewriting
<1>2. CASE Tick
  BY <1>2, MarkTick
<1>3. ASSUME NEW i \in Invocations, Begin(i) \/ Proceed(i)
      PROVE  MarkInv'
  BY <1>3, MarkBeforeWriting, MarkLoad, MarkTruncate, MarkWriteBack DEF Proceed
<1>4. ASSUME NEW i \in Invocations, Killed(i) \/ WriteFails(i)
      PROVE  MarkInv'
  BY <1>4, CutGoesOn, MarkCut
<1>5. QED
  BY <1>1, <1>2, <1>3, <1>4 DEF ConfigNext

LEMMA MarkHolds == MarkInv => MarkKeptUnlessTorn
BY DEF MarkInv, MarkKeptUnlessTorn

\* The mark that tells how far the AI transcripts were read survives every
\* write of another key, unless two writes of the file overlap or one is cut.
THEOREM MarkKept == ConfigSpec => []MarkKeptUnlessTorn
<1>1. ConfigInit => ConfigTypes /\ MarkInv
  BY TypesInit, MarkInit
<1>2. ConfigTypes /\ MarkInv /\ [ConfigNext]_configVars => (ConfigTypes /\ MarkInv)'
  BY TypesNext, MarkNext
<1>3. QED
  BY <1>1, <1>2, MarkHolds, PTL DEF ConfigSpec

-----------------------------------------------------------------------------
(* The backoff *)

Early == {"decide", "held", "limited", "post"}
Listed(key, s) == \E n \in 1 .. Len(s) : s[n] = key

\* What the next key is set in, and the keys that are set after it.
Source(i) == IF step[i] = "load" THEN file ELSE copy[i]
Left(i) == IF step[i] = "load" THEN todo[i] ELSE Tail(todo[i])

\* The outcome that invocation i records is the one the history tells of.
Sure(i) == alone[i] /\ (~disturbed \/ ~failing[i])

\* What is right about one invocation: one that started alone decides by what
\* the file says, and while it writes, each key is right already or is still
\* to be written.
RightAt(i) ==
    /\ alone[i] /\ step[i] \in Early =>
          opts[i].retries = file.retries /\ opts[i].at = file.at
    /\ Sure(i) /\ step[i] \in Writing =>
          /\ opts[i].retries = streak /\ opts[i].at = sinceFailure
          /\ Listed("retries", Left(i)) \/ Source(i).retries = streak
          /\ Listed("at", Left(i)) \/ Source(i).at = sinceFailure

FileRight == file.retries = streak /\ file.at = sinceFailure

BackoffInv ==
    /\ ~disturbed => \A i \in Invocations : Running(i) => alone[i]
    /\ \A i \in Invocations : alone[i] => Running(i) /\ ~OthersRun(i)
    /\ \A i \in Invocations : RightAt(i)
    /\ ~disturbed /\ (\A i \in Invocations : step[i] \notin Writing) => FileRight

\* An invocation that runs keeps the others from being alone, and when it is
\* alone or nothing was disturbed, it is the only one.
LEMMA OnlyOne ==
    ASSUME BackoffInv, NEW i \in Invocations, step[i] # "idle"
    PROVE  /\ \A j \in Invocations \ {i} : ~alone[j]
           /\ ~disturbed => alone[i]
           /\ alone[i] => \A j \in Invocations \ {i} : step[j] = "idle"
BY DEF BackoffInv, Running, OthersRun

\* What a step of one running invocation has to keep.
LEMMA BackoffKept ==
    ASSUME ConfigTypes, BackoffInv, NEW i \in Invocations, step[i] # "idle",
           \A j \in Invocations \ {i} :
              step'[j] = step[j] /\ opts'[j] = opts[j] /\ alone'[j] = alone[j],
           alone'[i] => alone[i] /\ step'[i] # "idle",
           ~disturbed' /\ step'[i] # "idle" => alone'[i],
           ~disturbed' => alone[i],
           RightAt(i)',
           ~disturbed' /\ step'[i] \notin Writing => FileRight'
    PROVE  BackoffInv'
<1>1. /\ \A j \in Invocations \ {i} : ~alone[j] /\ ~alone'[j]
      /\ alone[i] => \A j \in Invocations \ {i} : step[j] = "idle" /\ step'[j] = "idle"
  BY OnlyOne
<1>2. \A j \in Invocations \ {i} : RightAt(j)'
  <2> SUFFICES ASSUME NEW j \in Invocations \ {i}
               PROVE  RightAt(j)'
    OBVIOUS
  <2>1. RightAt(j) /\ ~alone'[j] /\ step'[j] = step[j] /\ opts'[j] = opts[j]
    BY <1>1 DEF BackoffInv
  <2>2. QED
    BY <2>1 DEF RightAt, Sure
<1>3. ~disturbed' => \A j \in Invocations : step'[j] # "idle" => alone'[j]
  BY <1>1
<1>4. \A j \in Invocations : alone'[j] =>
         step'[j] # "idle" /\ ~\E k \in Invocations \ {j} : step'[k] # "idle"
  BY <1>1
<1>5. QED
  BY <1>2, <1>3, <1>4 DEF BackoffInv, Running, OthersRun

LEMMA BackoffTick ==
    ASSUME ConfigTypes, BackoffInv, Tick
    PROVE  BackoffInv'
<1>1. /\ step' = step /\ todo' = todo /\ failing' = failing /\ streak' = streak
      /\ disturbed' = disturbed /\ alone' = alone /\ sinceFailure' = Older(sinceFailure)
  BY DEF Tick
<1>2. file'.retries = file.retries /\ file'.at = Older(file.at)
  BY AgedIsConfig DEF Tick, ConfigTypes
<1>3. \A i \in Invocations :
         /\ opts'[i].retries = opts[i].retries /\ opts'[i].at = Older(opts[i].at)
         /\ copy'[i].retries = copy[i].retries /\ copy'[i].at = Older(copy[i].at)
  BY AgedIsConfig DEF Tick, ConfigTypes
<1>4. ASSUME NEW i \in Invocations
      PROVE  RightAt(i)'
  <2>1. RightAt(i)
    BY DEF BackoffInv
  <2>2. /\ Source(i)'.retries = Source(i).retries /\ Source(i)'.at = Older(Source(i).at)
        /\ Left(i)' = Left(i) /\ Sure(i)' = Sure(i)
    BY <1>1, <1>2, <1>3 DEF Source, Left, Sure
  <2>3. QED
    BY <1>1, <1>2, <1>3, <2>1, <2>2 DEF RightAt
<1>5. QED
  BY <1>1, <1>2, <1>4 DEF BackoffInv, FileRight, Running, OthersRun

LEMMA BackoffBegin ==
    ASSUME ConfigTypes, BackoffInv, NEW i \in Invocations, Begin(i)
    PROVE  BackoffInv'
<1>1. /\ step[i] = "idle" /\ step'[i] = "decide"
      /\ \A j \in Invocations \ {i} : step'[j] = step[j] /\ opts'[j] = opts[j]
      /\ opts'[i].retries = file.retries /\ opts'[i].at = file.at
      /\ file' = file /\ streak' = streak /\ sinceFailure' = sinceFailure
  BY DEF Begin, ConfigTypes, Configs
<1>2. \A j \in Invocations : alone'[j] <=> j = i /\ ~OthersRun(i)
  BY DEF Begin
<1>3. ~disturbed' => ~OthersRun(i) /\ ~disturbed
  BY DEF Begin, Mishap
<1>4. \A j \in Invocations : RightAt(j)'
  <2> SUFFICES ASSUME NEW j \in Invocations
               PROVE  RightAt(j)'
    OBVIOUS
  <2>1. CASE j = i
    BY <1>1, <2>1 DEF RightAt, Writing, Early
  <2>2. CASE j # i
    <3>1. RightAt(j) /\ ~alone'[j] /\ step'[j] = step[j] /\ opts'[j] = opts[j]
      BY <1>1, <1>2, <2>2 DEF BackoffInv
    <3>2. QED
      BY <3>1 DEF RightAt, Sure
  <2>3. QED
    BY <2>1, <2>2
<1>5. ~disturbed' => \A j \in Invocations : step'[j] # "idle" => alone'[j]
  BY <1>1, <1>2, <1>3 DEF OthersRun, Running
<1>6. \A j \in Invocations : alone'[j] =>
         step'[j] # "idle" /\ ~\E k \in Invocations \ {j} : step'[k] # "idle"
  BY <1>1, <1>2 DEF OthersRun, Running
<1>7. ~disturbed' /\ (\A j \in Invocations : step'[j] \notin Writing) => FileRight'
  BY <1>1, <1>3 DEF BackoffInv, FileRight, Writing
<1>8. QED
  BY <1>4, <1>5, <1>6, <1>7 DEF BackoffInv, Running, OthersRun

LEMMA BackoffDecide ==
    ASSUME ConfigTypes, BackoffInv, NEW i \in Invocations, Decide(i)
    PROVE  BackoffInv'
<1>1. /\ step[i] = "decide" /\ step'[i] \in {"held", "limited", "post"}
      /\ \A j \in Invocations \ {i} : step'[j] = step[j]
      /\ opts' = opts /\ alone' = alone /\ file' = file /\ disturbed' = disturbed
      /\ streak' = streak /\ sinceFailure' = sinceFailure
  BY DEF Decide, ConfigTypes
<1>2. RightAt(i)
  BY DEF BackoffInv
<1>3. RightAt(i)'
  BY <1>1, <1>2 DEF RightAt, Writing, Early
<1>4. ~disturbed => FileRight
  BY <1>1, OnlyOne DEF BackoffInv, Writing
<1>5. ~disturbed' => alone[i]
  BY <1>1, OnlyOne
<1>6. QED
  BY <1>1, <1>3, <1>4, <1>5, BackoffKept DEF FileRight

\* An invocation that was held back, or posted, goes on to keys that cover
\* what its Options do not share with the file, or ends with the file right.
LEMMA BackoffGoesOn ==
    ASSUME ConfigTypes, BackoffInv, NEW i \in Invocations, step[i] \in Early,
           NEW keys \in Lists, NEW o \in Configs, NEW fails \in BOOLEAN,
           GoOn(i, keys, o, fails), file' = file, disturbed' = disturbed,
           keys = <<>> /\ ~disturbed => FileRight',
           keys # <<>> /\ alone[i] /\ (~disturbed \/ ~fails) =>
              /\ o.retries = streak' /\ o.at = sinceFailure'
              /\ Listed("retries", keys) \/ file.retries = streak'
              /\ Listed("at", keys) \/ file.at = sinceFailure'
    PROVE  BackoffInv'
<1>1. /\ \A j \in Invocations \ {i} :
            step'[j] = step[j] /\ opts'[j] = opts[j] /\ alone'[j] = alone[j]
      /\ todo'[i] = keys
      /\ keys = <<>> => step'[i] = "idle" /\ alone'[i] = FALSE
  BY DEF GoOn, ConfigTypes
<1>2. keys # <<>> => /\ step'[i] = "load" /\ opts'[i] = o
                     /\ failing'[i] = fails /\ alone'[i] = alone[i]
  BY DEF GoOn, ConfigTypes
<1>3. step[i] # "idle" /\ (~disturbed' => alone[i])
  BY OnlyOne DEF Early
<1>4. RightAt(i)'
  <2>1. CASE keys = <<>>
    BY <1>1, <2>1 DEF RightAt, Sure
  <2>2. CASE keys # <<>>
    BY <1>1, <1>2, <2>2 DEF RightAt, Sure, Source, Left, Early
  <2>3. QED
    BY <2>1, <2>2
<1>5. ~disturbed' /\ step'[i] \notin Writing => FileRight'
  BY <1>1, <1>2 DEF Writing
<1>6. QED
  BY <1>1, <1>2, <1>3, <1>4, <1>5, BackoffKept

\* The keys of a list stay listed when the mark is put behind them.
LEMMA StillListed ==
    ASSUME NEW keys \in Seq(Written), NEW more \in {keys, Append(keys, "mark")},
           NEW n \in 1 .. Len(keys)
    PROVE  Listed(keys[n], more) /\ more # <<>>
<1>1. Len(keys) \in Nat /\ "mark" \in Written
  BY DEF Written
<1>2. CASE more = keys
  BY <1>1, <1>2 DEF Listed
<1>3. CASE more = Append(keys, "mark")
  <2>1. Len(more) = Len(keys) + 1 /\ more[n] = keys[n]
    BY <1>1, <1>3
  <2>2. n \in 1 .. Len(more)
    BY <1>1, <2>1
  <2>3. QED
    BY <2>1, <2>2 DEF Listed
<1>4. QED
  BY <1>2, <1>3

LEMMA BackoffHeldBack ==
    ASSUME ConfigTypes, BackoffInv, NEW i \in Invocations, HeldBack(i)
    PROVE  BackoffInv'
<1>1. /\ step[i] \in {"held", "limited"} /\ file' = file /\ disturbed' = disturbed
      /\ streak' = streak /\ sinceFailure' = sinceFailure
  BY DEF HeldBack
<1>2. PICK keys \in Lists : GoOn(i, keys, opts[i], TRUE)
  BY HeldBackGoesOn
<1>3. ~disturbed => FileRight
  BY <1>1, OnlyOne DEF BackoffInv, Writing
<1>4. alone[i] => opts[i].retries = file.retries /\ opts[i].at = file.at
  BY <1>1 DEF BackoffInv, RightAt, Early
<1>5. opts[i] \in Configs /\ step[i] \in Early
  BY <1>1 DEF ConfigTypes, Early
<1>6. QED
  BY <1>1, <1>2, <1>3, <1>4, <1>5, BackoffGoesOn DEF FileRight

LEMMA BackoffPosted ==
    ASSUME ConfigTypes, BackoffInv, NEW i \in Invocations, Posted(i)
    PROVE  BackoffInv'
<1>1. /\ step[i] = "post" /\ file' = file /\ disturbed' = disturbed
      /\ streak' = 0 /\ sinceFailure' = Never
  BY DEF Posted
<1>2. alone[i] => opts[i].retries = file.retries /\ opts[i].at = file.at
  BY <1>1 DEF BackoffInv, RightAt, Early
<1>3. /\ NoFailures(opts[i]) \in Configs
      /\ NoFailures(opts[i]).retries = 0 /\ NoFailures(opts[i]).at = Never
  BY PostedGoesOn DEF NoFailures, ConfigTypes, Configs
<1>4. step[i] \in Early /\ opts[i].retries \in Nat
  BY <1>1, BackoffAssumption DEF Early, ConfigTypes, Configs
<1>5. CASE opts[i].retries < 1 /\ opts[i].at = Never
  <2>1. Then(i, <<"sent">>, NoFailures(opts[i]), FALSE)
    BY <1>5 DEF Posted
  <2>2. <<"sent">> \in Seq(Written) /\ Len(<<"sent">>) = 1 /\ Len(<<"sent">>) <= 3
    BY DEF Written
  <2>3. PICK more \in {<<"sent">>, Append(<<"sent">>, "mark")} :
           more \in Lists /\ GoOn(i, more, NoFailures(opts[i]), FALSE)
    BY <2>1, <2>2, ThenGoesOn
  <2>4. more # <<>>
    BY <2>2, StillListed
  <2>5. alone[i] => file.retries = 0 /\ file.at = Never
    BY <1>2, <1>4, <1>5
  <2>6. QED
    BY <1>1, <1>3, <1>4, <2>3, <2>4, <2>5, BackoffGoesOn
<1>6. CASE ~(opts[i].retries < 1 /\ opts[i].at = Never)
  <2> DEFINE keys == <<"sent", "retries", "at">>
  <2>1. Then(i, keys, NoFailures(opts[i]), FALSE)
    BY <1>6 DEF Posted
  <2>2. keys \in Seq(Written) /\ Len(keys) = 3 /\ Len(keys) <= 3 /\ keys[2] = "retries" /\ keys[3] = "at"
    BY DEF Written
  <2> HIDE DEF keys
  <2>3. PICK more \in {keys, Append(keys, "mark")} :
           more \in Lists /\ GoOn(i, more, NoFailures(opts[i]), FALSE)
    BY <2>1, <2>2, ThenGoesOn
  <2>4. Listed("retries", more) /\ Listed("at", more) /\ more # <<>>
    <3>1. 2 \in 1 .. Len(keys) /\ 3 \in 1 .. Len(keys)
      BY <2>2
    <3>2. QED
      BY <2>2, <3>1, StillListed
  <2>5. QED
    BY <1>1, <1>3, <1>4, <2>3, <2>4, BackoffGoesOn
<1>7. QED
  BY <1>5, <1>6

LEMMA BackoffFailedPost ==
    ASSUME ConfigTypes, BackoffInv, NEW i \in Invocations, FailedPost(i)
    PROVE  BackoffInv'
<1>1. step[i] = "post" /\ file' = file /\ disturbed' = disturbed /\ step[i] \in Early
  BY DEF FailedPost, Early
<1>2. alone[i] => opts[i].retries = file.retries /\ opts[i].at = file.at
  BY <1>1 DEF BackoffInv, RightAt, Early
<1>3. ~disturbed => FileRight
  BY <1>1, OnlyOne DEF BackoffInv, Writing
<1> DEFINE keys == <<"retries", "at">>
           o == [opts[i] EXCEPT !.retries = OneMore(@), !.at = 0]
<1>4. CASE streak' = OneMore(streak) /\ sinceFailure' = 0 /\ Then(i, keys, o, TRUE)
  <2>1. o \in Configs /\ o.retries = OneMore(opts[i].retries) /\ o.at = 0
    <3>1. OneMore(opts[i].retries) \in 0 .. Many /\ 0 \in Ages
      BY BackoffAssumption DEF OneMore, Configs, Ages, ConfigTypes
    <3>2. QED
      BY <3>1 DEF Configs, ConfigTypes
  <2>2. keys \in Seq(Written) /\ Len(keys) = 2 /\ Len(keys) <= 3 /\ keys[1] = "retries" /\ keys[2] = "at"
    BY DEF Written
  <2> HIDE DEF keys, o
  <2>3. PICK more \in {keys, Append(keys, "mark")} : more \in Lists /\ GoOn(i, more, o, TRUE)
    BY <1>4, <2>2, ThenGoesOn
  <2>4. Listed("retries", more) /\ Listed("at", more) /\ more # <<>>
    <3>1. 1 \in 1 .. Len(keys) /\ 2 \in 1 .. Len(keys)
      BY <2>2
    <3>2. QED
      BY <2>2, <3>1, StillListed
  <2>5. alone[i] /\ ~disturbed => o.retries = streak' /\ o.at = sinceFailure'
    BY <1>2, <1>3, <1>4, <2>1 DEF FileRight
  <2>6. QED
    BY <1>1, <2>1, <2>3, <2>4, <2>5, BackoffGoesOn
<1>5. CASE GoOn(i, <<>>, opts[i], TRUE) /\ UNCHANGED <<streak, sinceFailure>>
  <2>1. <<>> \in Lists /\ opts[i] \in Configs
    BY DEF Lists, ConfigTypes
  <2>2. QED
    BY <1>1, <1>3, <1>5, <2>1, BackoffGoesOn DEF FileRight
<1>6. QED
  BY <1>4, <1>5 DEF FailedPost

LEMMA BackoffLoad ==
    ASSUME ConfigTypes, BackoffInv, NEW i \in Invocations, Load(i)
    PROVE  BackoffInv'
<1>1. /\ step[i] = "load" /\ step'[i] = "truncate"
      /\ \A j \in Invocations \ {i} : step'[j] = step[j]
      /\ copy'[i] = WithKey(i, Head(todo[i]), file)
      /\ opts' = opts /\ todo' = todo /\ failing' = failing /\ alone' = alone /\ file' = file
      /\ disturbed' = disturbed /\ streak' = streak /\ sinceFailure' = sinceFailure
  BY DEF Load, ConfigTypes
<1>2. todo[i] \in Lists /\ todo[i] # <<>> /\ file \in Configs
  BY <1>1 DEF ConfigTypes, Writing
<1>3. ASSUME NEW key, Listed(key, todo[i])
      PROVE  Head(todo[i]) = key \/ Listed(key, Tail(todo[i]))
  <2>1. PICK list \in Lists : list = todo[i] /\ list # <<>>
    BY <1>2
  <2>2. (\E n \in 1 .. Len(list) : list[n] = key)
          <=> Head(list) = key \/ \E n \in 1 .. Len(Tail(list)) : Tail(list)[n] = key
    BY <2>1, ShorterList
  <2>3. QED
    BY <1>3, <2>1, <2>2 DEF Listed
<1>4. Head(todo[i]) \in Written
  BY <1>2, ShorterList
<1>5. /\ copy'[i].retries = IF Head(todo[i]) = "retries" THEN opts[i].retries ELSE file.retries
      /\ copy'[i].at = IF Head(todo[i]) = "at" THEN opts[i].at ELSE file.at
  BY <1>1, <1>2, <1>4, WithKeyIs
<1>6. Source(i) = file /\ Left(i) = todo[i] /\ Source(i)' = copy'[i] /\ Left(i)' = Tail(todo[i])
  BY <1>1 DEF Source, Left
<1>7. RightAt(i) /\ Sure(i)' = Sure(i)
  BY <1>1 DEF BackoffInv, Sure
<1>8. RightAt(i)'
  BY <1>1, <1>3, <1>5, <1>6, <1>7 DEF RightAt, Writing, Early
<1>9. ~disturbed' => alone[i]
  BY <1>1, OnlyOne
<1>10. QED
  BY <1>1, <1>8, <1>9, BackoffKept DEF Writing

LEMMA BackoffTruncate ==
    ASSUME ConfigTypes, BackoffInv, NEW i \in Invocations, Truncate(i)
    PROVE  BackoffInv'
<1>1. /\ step[i] = "truncate" /\ step'[i] = "write"
      /\ \A j \in Invocations \ {i} : step'[j] = step[j]
      /\ opts' = opts /\ todo' = todo /\ failing' = failing /\ alone' = alone /\ copy' = copy
      /\ disturbed' = disturbed /\ streak' = streak /\ sinceFailure' = sinceFailure
  BY DEF Truncate, ConfigTypes
<1>2. Source(i)' = Source(i) /\ Left(i)' = Left(i) /\ Sure(i)' = Sure(i) /\ RightAt(i)
  BY <1>1 DEF Source, Left, Sure, BackoffInv
<1>3. RightAt(i)'
  BY <1>1, <1>2 DEF RightAt, Writing, Early
<1>4. ~disturbed' => alone[i]
  BY <1>1, OnlyOne
<1>5. QED
  BY <1>1, <1>3, <1>4, BackoffKept DEF Writing

LEMMA BackoffWriteBack ==
    ASSUME ConfigTypes, BackoffInv, NEW i \in Invocations, WriteBack(i)
    PROVE  BackoffInv'
<1>1. /\ step[i] = "write" /\ file' = copy[i]
      /\ streak' = streak /\ sinceFailure' = sinceFailure
      /\ disturbed' = (disturbed /\ ~(alone[i] /\ ~failing[i] /\ Len(todo[i]) = 1))
  BY DEF WriteBack
<1> DEFINE keys == Tail(todo[i])
<1>2. /\ \A j \in Invocations \ {i} :
            step'[j] = step[j] /\ opts'[j] = opts[j] /\ alone'[j] = alone[j]
      /\ todo'[i] = keys
      /\ keys = <<>> => step'[i] = "idle" /\ alone'[i] = FALSE
      /\ keys # <<>> => /\ step'[i] = "load" /\ opts'[i] = opts[i]
                        /\ failing'[i] = failing[i] /\ alone'[i] = alone[i]
  BY DEF WriteBack, GoOn, ConfigTypes
<1>3. Len(todo[i]) = 1 => keys = <<>>
  BY <1>1, ShorterList DEF ConfigTypes, Writing
<1>4. RightAt(i) /\ Source(i) = copy[i] /\ Left(i) = keys
  BY <1>1 DEF BackoffInv, Source, Left
<1>5. ~Listed("retries", <<>>) /\ ~Listed("at", <<>>)
  BY DEF Listed
<1> HIDE DEF keys
<1>6. ~disturbed => alone[i]
  BY <1>1, OnlyOne
<1>7. ~disturbed' => Sure(i)
  BY <1>1, <1>6 DEF Sure
<1>8. Sure(i) => /\ opts[i].retries = streak /\ opts[i].at = sinceFailure
                 /\ Listed("retries", keys) \/ copy[i].retries = streak
                 /\ Listed("at", keys) \/ copy[i].at = sinceFailure
  BY <1>1, <1>4 DEF RightAt, Writing
<1>9. RightAt(i)'
  <2>1. CASE keys = <<>>
    BY <1>2, <2>1 DEF RightAt, Sure
  <2>2. CASE keys # <<>>
    <3>1. Source(i)' = copy[i] /\ Left(i)' = keys
      BY <1>1, <1>2, <2>2 DEF Source, Left
    <3>2. Sure(i)' => Sure(i)
      BY <1>1, <1>2, <1>3, <2>2 DEF Sure
    <3>3. QED
      BY <1>1, <1>2, <1>8, <2>2, <3>1, <3>2 DEF RightAt, Early
  <2>3. QED
    BY <2>1, <2>2
<1>10. ~disturbed' /\ step'[i] \notin Writing => FileRight'
  <2>1. step'[i] \notin Writing => keys = <<>>
    BY <1>2 DEF Writing
  <2>2. QED
    BY <1>1, <1>5, <1>7, <1>8, <2>1 DEF FileRight
<1>11. ~disturbed' /\ step'[i] # "idle" => alone'[i]
  BY <1>2, <1>7 DEF Sure
<1>12. QED
  BY <1>1, <1>2, <1>7, <1>9, <1>10, <1>11, BackoffKept DEF Sure

LEMMA BackoffCut ==
    ASSUME ConfigTypes, BackoffInv, NEW i \in Invocations, NEW keys \in Lists, Cut(i, keys),
           keys = <<>> \/ failing[i]
    PROVE  BackoffInv'
<1>1. step[i] # "idle" /\ disturbed' = TRUE
  BY DEF Cut, Mishap, Writing
<1>2. /\ \A j \in Invocations \ {i} :
            step'[j] = step[j] /\ opts'[j] = opts[j] /\ alone'[j] = alone[j]
      /\ keys = <<>> => step'[i] = "idle" /\ alone'[i] = FALSE
      /\ keys # <<>> => step'[i] = "load" /\ failing'[i] = failing[i] /\ alone'[i] = alone[i]
  BY DEF Cut, GoOn, ConfigTypes
<1>3. RightAt(i)'
  BY <1>1, <1>2 DEF RightAt, Sure, Early
<1>4. QED
  BY <1>1, <1>2, <1>3, BackoffKept

LEMMA BackoffInit == ConfigInit => BackoffInv
BY DEF ConfigInit, BackoffInv, RightAt, FileRight, Running, Blank, Writing, Early

LEMMA BackoffNext == ConfigTypes /\ BackoffInv /\ [ConfigNext]_configVars => BackoffInv'
<1> SUFFICES ASSUME ConfigTypes, BackoffInv, [ConfigNext]_configVars
             PROVE  BackoffInv'
  OBVIOUS
<1>1. CASE UNCHANGED configVars
  BY <1>1 DEF configVars, BackoffInv, RightAt, FileRight, Running, OthersRun, Sure, Source, Left
<1>2. CASE Tick
  BY <1>2, BackoffTick
<1>3. ASSUME NEW i \in Invocations, Begin(i) \/ Proceed(i)
      PROVE  BackoffInv'
  BY <1>3, BackoffBegin, BackoffDecide, BackoffHeldBack, BackoffPosted, BackoffFailedPost,
     BackoffLoad, BackoffTruncate, BackoffWriteBack DEF Proceed
<1>4. ASSUME NEW i \in Invocations, Killed(i) \/ WriteFails(i)
      PROVE  BackoffInv'
  <2>1. \E keys \in {<<>>, <<"mark">>} : Cut(i, keys) /\ (keys = <<>> \/ failing[i])
    BY <1>4 DEF Killed, WriteFails
  <2>2. <<>> \in Lists /\ <<"mark">> \in Lists
    BY DEF Lists, Written
  <2>3. QED
    BY <2>1, <2>2, BackoffCut
<1>5. QED
  BY <1>1, <1>2, <1>3, <1>4 DEF ConfigNext

\* Only its own decision takes an invocation from there.
LEMMA LeavesByDecide ==
    ASSUME ConfigTypes, NEW i \in Invocations, ConfigNext,
           step[i] = "decide", step'[i] # "decide"
    PROVE  Decide(i)
<1>1. ASSUME NEW j \in Invocations,
             Begin(j) \/ Proceed(j) \/ Killed(j) \/ WriteFails(j)
      PROVE  j = i
  <2>1. j # i => step'[i] = step[i]
    BY <1>1 DEF ConfigTypes, Begin, Proceed, Decide, HeldBack, Posted, FailedPost, Then, GoOn,
                Load, Truncate, WriteBack, Killed, WriteFails, Cut
  <2>2. QED
    BY <2>1
<1>2. ~Tick
  BY DEF Tick
<1>3. Begin(i) \/ Proceed(i) \/ Killed(i) \/ WriteFails(i)
  BY <1>1, <1>2 DEF ConfigNext
<1>4. QED
  BY <1>3 DEF Begin, Proceed, HeldBack, Posted, FailedPost, Load, Truncate, WriteBack,
              Killed, WriteFails, Cut, Writing

LEMMA DecidesAsFailed ==
    ASSUME ConfigTypes, BackoffInv, NEW i \in Invocations, Decide(i), ~disturbed
    PROVE  step'[i] = "held" <=> InBackoff
<1>1. step[i] = "decide" /\ (step'[i] = "held" <=> ShouldBackoff(opts[i].retries, opts[i].at))
  BY DEF Decide, ConfigTypes
<1>2. alone[i] /\ \A j \in Invocations : step[j] \notin Writing
  BY <1>1, OnlyOne DEF Writing
<1>3. opts[i].retries = streak /\ opts[i].at = sinceFailure
  BY <1>1, <1>2 DEF BackoffInv, RightAt, FileRight, Early
<1>4. streak \in Nat /\ Factor \in Nat /\ sinceFailure \in Nat \cup {Never}
  BY BackoffAssumption DEF ConfigTypes, Ages
<1>5. BackoffWindow(streak) \in Int
  BY <1>4 DEF BackoffWindow
<1>6. ShouldBackoff(streak, sinceFailure) <=> InBackoff
  BY <1>4, <1>5 DEF ShouldBackoff, InBackoff, Never
<1>7. QED
  BY <1>1, <1>3, <1>6

\* For any window, maximum, ages and number of failures: unless invocations
\* overlap or are cut, an invocation queues its heartbeats for backoff exactly
\* while the window of the failures since the last success is open.  The two
\* keys that are written one after the other, each with the whole file, always
\* tell what the posts did.
THEOREM BackoffAsFailedAlways == ConfigSpec => BackoffAsFailed
<1>1. ConfigInit => ConfigTypes /\ BackoffInv
  BY TypesInit, BackoffInit
<1>2. ConfigTypes /\ BackoffInv /\ [ConfigNext]_configVars => (ConfigTypes /\ BackoffInv)'
  BY TypesNext, BackoffNext
<1>3. ConfigTypes /\ BackoffInv /\ [ConfigNext]_configVars
        => [\A i \in Invocations :
               ~disturbed /\ step[i] = "decide" /\ step'[i] # "decide"
                 => (step'[i] = "held" <=> InBackoff)]_configVars
  BY LeavesByDecide, DecidesAsFailed
<1>4. QED
  BY <1>1, <1>2, <1>3, PTL DEF ConfigSpec, BackoffAsFailed

-----------------------------------------------------------------------------
(* Rate limits: types and the inductive invariant *)

Requests == [key : LimitKeys, time : Times]
Numbers == Nat \ {0}

LimitTypes ==
    /\ clock \in Times
    /\ pending \in [Calls -> Requests \cup {NoAsk}]
    /\ kept \in [Limiters -> [LimitKeys -> SUBSET Numbers]]
    /\ admitted \in [Limiters -> [LimitKeys -> Seq(Times)]]
    /\ refusal \in [Limiters -> [LimitKeys -> [at : Times \cup {-1}, until : Int]]]
    /\ lastSweep \in Times \cup {-SweepInterval}
    /\ excused \subseteq Limiters \X LimitKeys
    /\ latest \in [Limiters -> Times]
    /\ askedSoFar \in 0 .. MaxCalls

\* What a limiter keeps are requests it admitted, no more than the limit.
KeptAdmitted(l, k) ==
    /\ kept[l][k] \subseteq DOMAIN admitted[l][k]
    /\ Cardinality(kept[l][k]) <= LimitOf[k]

\* The requests were admitted in the order of their times, none of them after
\* the latest time asked for, and those in the window that ends there are kept.
Remembered(l, k) ==
    <<l, k>> \notin excused =>
        \A i \in DOMAIN admitted[l][k] :
            /\ admitted[l][k][i] <= latest[l]
            /\ \A j \in 1 .. i : admitted[l][k][j] <= admitted[l][k][i]
            /\ admitted[l][k][i] > latest[l] - WindowOf[k] => i \in kept[l][k]

\* After a refusal, there is room or a kept request leaves the window at the
\* time the refusal named.
RefusalEnds(l, k) ==
    refusal[l][k] # NoRefusal =>
        \/ Cardinality(kept[l][k]) < LimitOf[k]
        \/ \E i \in kept[l][k] : admitted[l][k][i] + WindowOf[k] <= refusal[l][k].until

\* The requests of a key in the window that ends with the i-th.
WindowOfRequest(l, k, i) ==
    {j \in DOMAIN admitted[l][k] :
        /\ admitted[l][k][j] <= admitted[l][k][i]
        /\ admitted[l][k][j] > admitted[l][k][i] - WindowOf[k]}

WindowLimited(l, k) ==
    <<l, k>> \notin excused =>
        \A i \in DOMAIN admitted[l][k] : Cardinality(WindowOfRequest(l, k, i)) <= LimitOf[k]

KeyInv(l, k) == KeptAdmitted(l, k) /\ Remembered(l, k) /\ RefusalEnds(l, k) /\ WindowLimited(l, k)

LimitInv ==
    /\ LimitTypes
    /\ \A l \in Limiters, k \in LimitKeys : KeyInv(l, k)
    /\ IsFiniteSet(Known(kept["memory"])) /\ MemoryBounded

-----------------------------------------------------------------------------
(* The numbers and times of requests *)

LEMMA LimitsAre ==
    ASSUME NEW k \in LimitKeys
    PROVE  LimitOf[k] \in Nat \ {0} /\ WindowOf[k] \in Nat \ {0}
BY LimitsOfAssumption

LEMMA TimesOf ==
    ASSUME NEW s, s \in Seq(Times)
    PROVE  /\ Len(s) \in Nat /\ DOMAIN s = 1 .. Len(s)
           /\ \A i \in DOMAIN s : s[i] \in Times /\ s[i] \in Nat
<1>1. Times \subseteq Nat
    BY DEF Times
<1>2. Len(s) \in Nat /\ DOMAIN s = 1 .. Len(s)
    OBVIOUS
<1>3. \A i \in DOMAIN s : s[i] \in Times
    BY <1>2
<1> QED
    BY <1>1, <1>2, <1>3

\* A set of requests of a key is finite, and so is every subset of it.
LEMMA NumbersFinite ==
    ASSUME NEW s \in Seq(Times), NEW set, set \subseteq DOMAIN s
    PROVE  IsFiniteSet(set) /\ Cardinality(set) \in Nat
<1>1. DOMAIN s = 1 .. Len(s) /\ Len(s) \in Nat
    OBVIOUS
<1>2. IsFiniteSet(1 .. Len(s))
    BY <1>1, FS_Interval
<1> QED
    BY <1>1, <1>2, FS_Subset, FS_CardinalityType

\* A set of numbers that is not empty has a least one.
LEMMA LeastNumber ==
    ASSUME NEW set, set \subseteq Nat, set # {}
    PROVE  Min(set) \in set
<1> DEFINE R == {ss \in Nat \X Nat : ss[1] < ss[2]}
<1>1. IsWellFoundedOn(R, Nat)
    BY NatLessThanWellFounded DEF OpToRel
<1>2. \A x, y \in Nat : x < y => <<x, y>> \in R
    OBVIOUS
<1> HIDE DEF R
<1>3. PICK x \in set : \A y \in set : ~(<<y, x>> \in R)
    BY <1>1, WFMin
<1>4. \A y \in set : y \in Nat /\ x \in Nat /\ ~(y < x)
    BY <1>2, <1>3
<1>5. \A y \in set : x <= y
    BY <1>4
<1> QED
    BY <1>5 DEF Min

\* What Retry-After counts from is the time of one of the requests.
LEMMA OldestIsKept ==
    ASSUME NEW l \in Limiters, NEW k \in LimitKeys, admitted[l][k] \in Seq(Times),
           NEW set, set \subseteq DOMAIN admitted[l][k], set # {}
    PROVE  \E i \in set : Oldest(l, k, set) = admitted[l][k][i]
<1> DEFINE times == {admitted[l][k][i] : i \in set}
<1>1. set \subseteq Nat
    BY TimesOf
<1>2. times \subseteq Nat /\ times # {}
    BY TimesOf
<1>3. Min(set) \in set
    BY <1>1, LeastNumber
<1>4. Min(times) \in times
    <2> HIDE DEF times
    <2> QED
        BY <1>2, LeastNumber
<1> QED
    BY <1>3, <1>4 DEF Oldest

-----------------------------------------------------------------------------
(* What a step of one limiter does to the requests of each key *)

LEMMA LimitInitOK == LimitInit => LimitInv
<1> SUFFICES ASSUME LimitInit PROVE LimitInv
    OBVIOUS
<1>1. kept \in [Limiters -> [LimitKeys -> SUBSET Numbers]]
      /\ \A l \in Limiters, k \in LimitKeys : kept[l][k] = {}
    BY DEF LimitInit, OfEach
<1>2. \A l \in Limiters, k \in LimitKeys : admitted[l][k] = << >> /\ refusal[l][k] = NoRefusal
    BY DEF LimitInit, OfEach
<1>3. LimitTypes
    <2>1. << >> \in Seq(Times) /\ NoRefusal \in [at : Times \cup {-1}, until : Int]
        BY DEF NoRefusal
    <2>2. 0 \in Times /\ 0 \in 0 .. MaxCalls
        BY LimitsOfAssumption DEF Times
    <2>3. admitted \in [Limiters -> [LimitKeys -> Seq(Times)]]
        BY <2>1 DEF LimitInit, OfEach
    <2>4. refusal \in [Limiters -> [LimitKeys -> [at : Times \cup {-1}, until : Int]]]
        BY <2>1 DEF LimitInit, OfEach
    <2> QED
        BY <1>1, <2>2, <2>3, <2>4 DEF LimitTypes, LimitInit
<1>4. ASSUME NEW l \in Limiters, NEW k \in LimitKeys
      PROVE  KeyInv(l, k)
    <2>1. Cardinality({}) = 0
        BY FS_EmptySet
    <2>2. LimitOf[k] \in Nat
        BY LimitsAre
    <2>3. kept[l][k] = {} /\ admitted[l][k] = << >> /\ DOMAIN << >> = {} /\ refusal[l][k] = NoRefusal
        BY <1>1, <1>2
    <2> QED
        BY <2>1, <2>2, <2>3 DEF KeyInv, KeptAdmitted, Remembered, RefusalEnds, WindowLimited
<1>5. Known(kept["memory"]) = {}
    BY <1>1 DEF Known, Limiters
<1>6. IsFiniteSet({}) /\ Cardinality({}) = 0
    BY FS_EmptySet
<1> QED
    BY <1>3, <1>4, <1>5, <1>6, LimitsOfAssumption DEF LimitInv, MemoryBounded

\* A key of which nothing changed.
LEMMA KeySame ==
    ASSUME LimitTypes, NEW l \in Limiters, NEW k \in LimitKeys, KeyInv(l, k),
           kept'[l][k] = kept[l][k], admitted'[l][k] = admitted[l][k],
           refusal'[l][k] = refusal[l][k], latest'[l] = latest[l], excused \subseteq excused'
    PROVE  KeyInv(l, k)'
BY DEF KeyInv, KeptAdmitted, Remembered, RefusalEnds, WindowLimited, WindowOfRequest

\* A key of which another key's request dropped some requests: it is excused
\* if one of them was in the window.
LEMMA OtherKey ==
    ASSUME LimitTypes, NEW l \in Limiters, NEW k \in LimitKeys, KeyInv(l, k), NEW t \in Times,
           kept'[l][k] \subseteq kept[l][k], admitted'[l][k] = admitted[l][k],
           refusal'[l][k] = refusal[l][k], latest'[l] = IF t > latest[l] THEN t ELSE latest[l],
           excused \subseteq excused',
           <<l, k>> \notin excused' =>
                Active(l, k, kept[l][k], t - WindowOf[k]) \subseteq kept'[l][k]
    PROVE  KeyInv(l, k)'
<1> DEFINE times == admitted[l][k]
           old == kept[l][k]
           new == kept'[l][k]
<1>1. times \in Seq(Times) /\ latest[l] \in Times /\ old \subseteq DOMAIN times
    BY DEF LimitTypes, KeyInv, KeptAdmitted
<1>2. WindowOf[k] \in Nat /\ LimitOf[k] \in Nat
    BY LimitsAre
<1>3. IsFiniteSet(old) /\ Cardinality(old) \in Nat
    BY <1>1, NumbersFinite
<1>4. /\ Cardinality(new) \in Nat /\ Cardinality(new) <= Cardinality(old)
      /\ new # old => Cardinality(new) < Cardinality(old)
    BY <1>3, FS_Subset, FS_CardinalityType
<1>5. Cardinality(old) <= LimitOf[k]
    BY DEF KeyInv, KeptAdmitted
<1>6. KeptAdmitted(l, k)'
    BY <1>1, <1>2, <1>3, <1>4, <1>5 DEF KeptAdmitted
<1>7. Remembered(l, k)'
    <2> SUFFICES ASSUME <<l, k>> \notin excused', NEW i \in DOMAIN times
                 PROVE  /\ times[i] <= latest'[l]
                        /\ \A j \in 1 .. i : times[j] <= times[i]
                        /\ times[i] > latest'[l] - WindowOf[k] => i \in new
        BY DEF Remembered
    <2>1. /\ times[i] <= latest[l]
          /\ \A j \in 1 .. i : times[j] <= times[i]
          /\ times[i] > latest[l] - WindowOf[k] => i \in old
        BY DEF KeyInv, Remembered
    <2>2. times[i] \in Int /\ t \in Int /\ latest[l] \in Int
        BY <1>1, TimesOf DEF Times
    <2>3. latest'[l] >= t /\ latest'[l] >= latest[l] /\ latest'[l] \in Int
        <3>1. latest'[l] = IF t > latest[l] THEN t ELSE latest[l]
            OBVIOUS
        <3>2. PICK old_, new_ \in Int : old_ = latest[l] /\ new_ = latest'[l]
            BY <2>2, <3>1
        <3> QED
            BY <2>2, <3>1, <3>2
    <2>4. times[i] <= latest'[l]
        BY <2>1, <2>2, <2>3
    <2>5. ASSUME times[i] > latest'[l] - WindowOf[k]
          PROVE  i \in new
        <3>1. times[i] > latest[l] - WindowOf[k] /\ times[i] > t - WindowOf[k]
            BY <2>5, <2>2, <2>3, <1>2
        <3> QED
            BY <3>1, <2>1 DEF Active
    <2> QED
        BY <2>1, <2>4, <2>5
<1>8. RefusalEnds(l, k)'
    <2>1. CASE new = old
        BY <2>1 DEF RefusalEnds, KeyInv
    <2>2. CASE new # old
        BY <2>2, <1>2, <1>3, <1>4, <1>5 DEF RefusalEnds
    <2> QED
        BY <2>1, <2>2
<1>9. WindowLimited(l, k)'
    <2>1. <<l, k>> \notin excused' => <<l, k>> \notin excused
        OBVIOUS
    <2>2. WindowLimited(l, k)
        BY DEF KeyInv
    <2> QED
        BY <2>1, <2>2 DEF WindowLimited, WindowOfRequest
<1> QED
    BY <1>6, <1>7, <1>8, <1>9 DEF KeyInv

\* What the limiter finds of the key that is asked for: the requests in its
\* window, no more than it kept.
LEMMA Found ==
    ASSUME LimitTypes, NEW l \in Limiters, NEW k \in LimitKeys, KeyInv(l, k), NEW t \in Times,
           NEW set, set \subseteq kept[l][k]
    PROVE  LET active == Active(l, k, set, t - WindowOf[k])
           IN /\ active \subseteq DOMAIN admitted[l][k] /\ active \subseteq kept[l][k]
              /\ IsFiniteSet(active) /\ Cardinality(active) \in Nat
              /\ Cardinality(active) <= LimitOf[k]
              /\ \A i \in kept[l][k] : i \notin active => Cardinality(active) < LimitOf[k]
<1> DEFINE active == Active(l, k, set, t - WindowOf[k])
           old == kept[l][k]
<1>1. admitted[l][k] \in Seq(Times) /\ old \subseteq DOMAIN admitted[l][k]
      /\ Cardinality(old) <= LimitOf[k]
    BY DEF LimitTypes, KeyInv, KeptAdmitted
<1>2. active \subseteq old
    BY DEF Active
<1>3. LimitOf[k] \in Nat
    BY LimitsAre
<1> HIDE DEF active, old
<1>4. IsFiniteSet(old) /\ Cardinality(old) \in Nat
    BY <1>1, NumbersFinite
<1>5. IsFiniteSet(active) /\ Cardinality(active) <= Cardinality(old) /\ Cardinality(active) \in Nat
      /\ (active # old => Cardinality(active) < Cardinality(old))
    BY <1>2, <1>4, FS_Subset, FS_CardinalityType
<1>6. Cardinality(active) <= LimitOf[k]
    BY <1>1, <1>3, <1>4, <1>5
<1>7. \A i \in old : i \notin active => Cardinality(active) < LimitOf[k]
    BY <1>1, <1>3, <1>4, <1>5
<1> QED
    BY <1>1, <1>2, <1>5, <1>6, <1>7 DEF active, old

\* A request that is refused leaves the requests in its window.
LEMMA KeyRefused ==
    ASSUME LimitTypes, NEW l \in Limiters, NEW k \in LimitKeys, KeyInv(l, k), NEW t \in Times,
           NEW set, set \subseteq kept[l][k],
           Active(l, k, kept[l][k], t - WindowOf[k]) \subseteq set,
           Full(Active(l, k, set, t - WindowOf[k]), k),
           kept'[l][k] = Active(l, k, set, t - WindowOf[k]),
           admitted'[l][k] = admitted[l][k],
           LET end == Oldest(l, k, Active(l, k, set, t - WindowOf[k])) + WindowOf[k]
           IN refusal'[l][k] = [at |-> t, until |-> IF end - t < 1 THEN t + 1 ELSE end],
           latest'[l] = IF t > latest[l] THEN t ELSE latest[l],
           excused \subseteq excused', latest[l] > t => <<l, k>> \in excused'
    PROVE  KeyInv(l, k)' /\ refusal'[l][k] \in [at : Times \cup {-1}, until : Int]
<1> DEFINE times == admitted[l][k]
           active == Active(l, k, set, t - WindowOf[k])
           end == Oldest(l, k, active) + WindowOf[k]
<1>1. times \in Seq(Times) /\ latest[l] \in Nat /\ t \in Nat
    BY DEF LimitTypes, Times
<1>2. /\ active \subseteq DOMAIN times /\ active \subseteq kept[l][k]
      /\ IsFiniteSet(active) /\ Cardinality(active) \in Nat
      /\ Cardinality(active) <= LimitOf[k]
    BY Found
<1>3. WindowOf[k] \in Nat /\ LimitOf[k] \in Nat \ {0}
    BY LimitsAre
<1>4. PICK i \in active : Oldest(l, k, active) = times[i]
    <2>1. active # {}
        BY <1>2, <1>3, FS_EmptySet DEF Full
    <2> QED
        BY <1>1, <1>2, <2>1, OldestIsKept
<1>5. times[i] \in Nat
    BY <1>1, <1>2, TimesOf
<1>6. end = times[i] + WindowOf[k] /\ end \in Nat
    BY <1>3, <1>4, <1>5
<1>7. refusal'[l][k] = [at |-> t, until |-> IF end - t < 1 THEN t + 1 ELSE end]
    OBVIOUS
<1>8. /\ refusal'[l][k].until \in Int /\ times[i] + WindowOf[k] <= refusal'[l][k].until
      /\ refusal'[l][k] \in [at : Times \cup {-1}, until : Int]
    <2> HIDE DEF active, end, times
    <2> QED
        BY <1>1, <1>6, <1>7
<1>9. KeptAdmitted(l, k)'
    BY <1>2 DEF KeptAdmitted
<1>10. Remembered(l, k)'
    <2> SUFFICES ASSUME <<l, k>> \notin excused', NEW j \in DOMAIN times
                 PROVE  /\ times[j] <= latest'[l]
                        /\ \A h \in 1 .. j : times[h] <= times[j]
                        /\ times[j] > latest'[l] - WindowOf[k] => j \in active
        BY DEF Remembered
    <2>1. /\ times[j] <= latest[l]
          /\ \A h \in 1 .. j : times[h] <= times[j]
          /\ times[j] > latest[l] - WindowOf[k] => j \in kept[l][k]
        BY DEF KeyInv, Remembered
    <2>2. times[j] \in Nat
        BY <1>1, TimesOf
    <2>3. latest[l] <= t /\ latest'[l] = t
        BY <1>1
    <2>4. times[j] <= t
        BY <1>1, <2>1, <2>2, <2>3
    <2>5. ASSUME times[j] > t - WindowOf[k]
          PROVE  j \in active
        <3>1. times[j] > latest[l] - WindowOf[k]
            BY <2>5, <2>2, <2>3, <1>1, <1>3
        <3>2. j \in kept[l][k]
            BY <3>1, <2>1
        <3> QED
            BY <2>5, <3>2 DEF Active
    <2> QED
        BY <2>1, <2>3, <2>4, <2>5
<1>11. RefusalEnds(l, k)'
    BY <1>4, <1>8 DEF RefusalEnds
<1>12. WindowLimited(l, k)'
    <2>1. <<l, k>> \notin excused' => <<l, k>> \notin excused
        OBVIOUS
    <2>2. WindowLimited(l, k)
        BY DEF KeyInv
    <2> QED
        BY <2>1, <2>2 DEF WindowLimited, WindowOfRequest
<1> QED
    BY <1>8, <1>9, <1>10, <1>11, <1>12 DEF KeyInv

\* A request that is admitted is kept with those in its window.
LEMMA KeyAdmitted ==
    ASSUME LimitTypes, NEW l \in Limiters, NEW k \in LimitKeys, KeyInv(l, k), NEW t \in Times,
           NEW set, set \subseteq kept[l][k],
           Active(l, k, kept[l][k], t - WindowOf[k]) \subseteq set,
           ~ Full(Active(l, k, set, t - WindowOf[k]), k),
           kept'[l][k] = Active(l, k, set, t - WindowOf[k]) \cup {Len(admitted[l][k]) + 1},
           admitted'[l][k] = Append(admitted[l][k], t),
           refusal'[l][k] = NoRefusal,
           latest'[l] = IF t > latest[l] THEN t ELSE latest[l],
           excused \subseteq excused', latest[l] > t => <<l, k>> \in excused'
    PROVE  KeyInv(l, k)' /\ admitted'[l][k] \in Seq(Times) /\ kept'[l][k] \subseteq Numbers
<1> DEFINE times == admitted[l][k]
           after == Append(times, t)
           active == Active(l, k, set, t - WindowOf[k])
           n == Len(times) + 1
           new == active \cup {n}
<1>1. times \in Seq(Times) /\ latest[l] \in Nat /\ t \in Nat
    BY DEF LimitTypes, Times
<1>2. /\ active \subseteq DOMAIN times /\ active \subseteq kept[l][k]
      /\ IsFiniteSet(active) /\ Cardinality(active) \in Nat
      /\ Cardinality(active) <= LimitOf[k]
    BY Found
<1>3. WindowOf[k] \in Nat \ {0} /\ LimitOf[k] \in Nat \ {0}
    BY LimitsAre
<1>4. Len(times) \in Nat /\ DOMAIN times = 1 .. Len(times)
      /\ \A i \in DOMAIN times : times[i] \in Nat
    BY <1>1, TimesOf
<1>5. /\ after \in Seq(Times) /\ Len(after) = n /\ DOMAIN after = 1 .. n
      /\ after[n] = t /\ \A i \in 1 .. Len(times) : after[i] = times[i]
    BY <1>1
<1>6. \A i \in 1 .. n : after[i] \in Nat /\ (i # n => i \in DOMAIN times)
    BY <1>1, <1>4, <1>5
<1>7. IsFiniteSet(new) /\ Cardinality(new) \in Nat /\ Cardinality(new) <= LimitOf[k]
    <2>1. n \notin active
        BY <1>2, <1>4
    <2>2. IsFiniteSet(new) /\ Cardinality(new) = Cardinality(active) + 1
        <3> HIDE DEF active, n
        <3> QED
            BY <1>2, <2>1, FS_AddElement
    <2> QED
        BY <1>2, <1>3, <2>2 DEF Full
<1>8. new \subseteq 1 .. n /\ new \subseteq Numbers
    BY <1>2, <1>4 DEF Numbers
<1>9. kept'[l][k] = new /\ admitted'[l][k] = after
    OBVIOUS
<1> HIDE DEF active, n, new, after, times
<1>10. KeptAdmitted(l, k)'
    BY <1>5, <1>7, <1>8, <1>9 DEF KeptAdmitted
<1>11. RefusalEnds(l, k)'
    BY DEF RefusalEnds
\* What was admitted, for a key that is not excused.
<1>12. ASSUME <<l, k>> \notin excused'
       PROVE  /\ latest[l] <= t /\ latest'[l] = t
              /\ \A i \in 1 .. n : after[i] <= t
              /\ \A i \in 1 .. n : \A j \in 1 .. i : after[j] <= after[i]
              /\ \A i \in 1 .. n : after[i] > t - WindowOf[k] => i \in new
    <2>1. latest[l] <= t /\ latest'[l] = t
        BY <1>12, <1>1
    <2>2. ASSUME NEW i \in DOMAIN times
          PROVE  /\ times[i] <= latest[l]
                 /\ \A j \in 1 .. i : times[j] <= times[i]
                 /\ times[i] > latest[l] - WindowOf[k] => i \in kept[l][k]
        BY <1>12 DEF KeyInv, Remembered, times
    <2>3. ASSUME NEW i \in 1 .. n
          PROVE  after[i] <= t
        <3>1. CASE i = n
            BY <3>1, <1>1, <1>5
        <3>2. CASE i # n
            <4>1. i \in DOMAIN times /\ after[i] = times[i] /\ times[i] \in Nat
                BY <1>4, <1>5, <1>6, <3>2
            <4> QED
                BY <4>1, <1>1, <2>1, <2>2
        <3> QED
            BY <3>1, <3>2
    <2>4. ASSUME NEW i \in 1 .. n, NEW j \in 1 .. i
          PROVE  after[j] <= after[i]
        <3>1. j \in 1 .. n
            BY <1>4 DEF n
        <3>2. CASE i = n
            BY <3>1, <3>2, <1>5, <2>3
        <3>3. CASE i # n
            <4>1. i \in DOMAIN times /\ j \in DOMAIN times
                BY <1>4, <1>6, <3>3
            <4>2. after[i] = times[i] /\ after[j] = times[j]
                BY <4>1, <1>4, <1>5
            <4> QED
                BY <4>1, <4>2, <2>2
        <3> QED
            BY <3>2, <3>3
    <2>5. ASSUME NEW i \in 1 .. n, after[i] > t - WindowOf[k]
          PROVE  i \in new
        <3>1. CASE i = n
            BY <3>1 DEF new
        <3>2. CASE i # n
            <4>1. i \in DOMAIN times /\ after[i] = times[i] /\ times[i] \in Nat
                BY <1>4, <1>5, <1>6, <3>2
            <4>2. times[i] > latest[l] - WindowOf[k]
                BY <4>1, <2>1, <2>5, <1>1, <1>3
            <4>3. i \in kept[l][k]
                BY <4>1, <4>2, <2>2
            <4> QED
                BY <4>1, <4>3, <2>5 DEF new, active, Active, times
        <3> QED
            BY <3>1, <3>2
    <2> QED
        BY <2>1, <2>3, <2>4, <2>5
<1>13. Remembered(l, k)'
    BY <1>5, <1>9, <1>12 DEF Remembered
<1>14. WindowLimited(l, k)'
    <2> DEFINE Before(i) == {j \in DOMAIN times : times[j] <= times[i] /\ times[j] > times[i] - WindowOf[k]}
               New(i) == {j \in 1 .. n : after[j] <= after[i] /\ after[j] > after[i] - WindowOf[k]}
    <2> SUFFICES ASSUME <<l, k>> \notin excused', NEW i \in 1 .. n
                 PROVE  Cardinality(New(i)) <= LimitOf[k]
        BY <1>5, <1>9 DEF WindowLimited, WindowOfRequest
    <2>1. CASE after[i] = t
        <3>1. New(i) \subseteq new
            BY <2>1, <1>12
        <3>2. Cardinality(New(i)) <= Cardinality(new) /\ Cardinality(New(i)) \in Nat
            BY <3>1, <1>7, FS_Subset, FS_CardinalityType
        <3> QED
            BY <3>2, <1>3, <1>7
    <2>2. CASE after[i] # t
        <3>1. i \in DOMAIN times /\ after[i] = times[i] /\ after[i] < t
            <4>1. i # n
                BY <2>2, <1>5
            <4> QED
                BY <2>2, <4>1, <1>1, <1>4, <1>5, <1>6, <1>12
        <3>2. n \notin New(i)
            BY <3>1, <1>1, <1>4, <1>5
        <3>3. New(i) \subseteq Before(i)
            <4> SUFFICES ASSUME NEW j \in New(i) PROVE j \in Before(i)
                OBVIOUS
            <4>1. j \in DOMAIN times
                BY <3>2, <1>6
            <4>2. after[j] = times[j]
                BY <4>1, <1>4, <1>5
            <4> QED
                BY <4>1, <4>2, <3>1
        <3>4. Before(i) = WindowOfRequest(l, k, i)
            BY DEF WindowOfRequest, times
        <3>5. IsFiniteSet(Before(i)) /\ Cardinality(Before(i)) \in Nat
            <4>1. Before(i) \subseteq DOMAIN times
                OBVIOUS
            <4> QED
                BY <4>1, <1>1, NumbersFinite DEF times
        <3>6. Cardinality(Before(i)) <= LimitOf[k]
            BY <3>1, <3>4 DEF KeyInv, WindowLimited, times
        <3>7. Cardinality(New(i)) <= Cardinality(Before(i)) /\ Cardinality(New(i)) \in Nat
            BY <3>3, <3>5, FS_Subset, FS_CardinalityType
        <3> QED
            BY <3>5, <3>6, <3>7, <1>3
    <2> QED
        BY <2>1, <2>2
<1> QED
    BY <1>5, <1>8, <1>9, <1>10, <1>11, <1>13, <1>14 DEF KeyInv

-----------------------------------------------------------------------------
(* Each step keeps the invariant *)

\* An answer, when the limiter has dropped some requests of each key before:
\* only of keys it then excuses those in the window, and of the key asked for
\* none of those.
LEMMA AnswerKeeps ==
    ASSUME LimitInv, NEW l \in Limiters, NEW k \in LimitKeys, NEW t \in Times,
           NEW mem, \A o \in LimitKeys : mem[o] \subseteq kept[l][o],
           mem \in [LimitKeys -> SUBSET Numbers],
           Active(l, k, kept[l][k], t - WindowOf[k]) \subseteq mem[k],
           Answer(l, k, t, mem),
           excused \subseteq excused', latest[l] > t => <<l, k>> \in excused',
           \A o \in LimitKeys \ {k} :
                <<l, o>> \in excused' \/ Active(l, o, kept[l][o], t - WindowOf[o]) \subseteq mem[o]
    PROVE  /\ kept' \in [Limiters -> [LimitKeys -> SUBSET Numbers]]
           /\ admitted' \in [Limiters -> [LimitKeys -> Seq(Times)]]
           /\ refusal' \in [Limiters -> [LimitKeys -> [at : Times \cup {-1}, until : Int]]]
           /\ latest' \in [Limiters -> Times]
           /\ \A m \in Limiters, o \in LimitKeys : KeyInv(m, o)'
           /\ \A m \in Limiters : m # l => kept'[m] = kept[m]
           /\ Known(kept'[l]) \subseteq Known(mem) \cup {k}
<1> DEFINE active == Active(l, k, mem[k], t - WindowOf[k])
           n == Len(admitted[l][k]) + 1
           end == Oldest(l, k, active) + WindowOf[k]
           refused == [at |-> t, until |-> IF end - t < 1 THEN t + 1 ELSE end]
<1>1. LimitTypes /\ \A m \in Limiters, o \in LimitKeys : KeyInv(m, o)
    BY DEF LimitInv
<1>2. latest' = [latest EXCEPT ![l] = IF t > @ THEN t ELSE @]
    BY DEF Answer
<1>3. \/ /\ Full(active, k)
         /\ kept' = [kept EXCEPT ![l] = [mem EXCEPT ![k] = active]]
         /\ refusal' = [refusal EXCEPT ![l][k] = refused]
         /\ admitted' = admitted
      \/ /\ ~Full(active, k)
         /\ kept' = [kept EXCEPT ![l] = [mem EXCEPT ![k] = active \cup {n}]]
         /\ refusal' = [refusal EXCEPT ![l][k] = NoRefusal]
         /\ admitted' = [admitted EXCEPT ![l][k] = Append(@, t)]
    BY DEF Answer
<1>4. /\ kept \in [Limiters -> [LimitKeys -> SUBSET Numbers]]
      /\ admitted \in [Limiters -> [LimitKeys -> Seq(Times)]]
      /\ refusal \in [Limiters -> [LimitKeys -> [at : Times \cup {-1}, until : Int]]]
      /\ latest \in [Limiters -> Times]
    BY <1>1 DEF LimitTypes
<1>5. mem[k] \subseteq kept[l][k]
    OBVIOUS
<1>6. /\ latest'[l] = IF t > latest[l] THEN t ELSE latest[l]
      /\ \A m \in Limiters : m # l => latest'[m] = latest[m]
      /\ latest' \in [Limiters -> Times]
    BY <1>2, <1>4
\* The key that is asked for.
<1>7. /\ KeyInv(l, k)'
      /\ kept'[l][k] \subseteq Numbers /\ kept'[l][k] \in {active, active \cup {n}}
      /\ admitted'[l][k] \in Seq(Times)
      /\ refusal'[l][k] \in [at : Times \cup {-1}, until : Int]
    <2>1. CASE Full(active, k)
        <3>1. /\ kept'[l][k] = active /\ admitted'[l][k] = admitted[l][k]
              /\ refusal'[l][k] = refused
            <4> HIDE DEF active, n, refused
            <4> QED
                BY <1>3, <1>4, <2>1
        <3>2. KeyInv(l, k)' /\ refusal'[l][k] \in [at : Times \cup {-1}, until : Int]
            BY <1>1, <1>5, <1>6, <2>1, <3>1, KeyRefused
        <3>3. active \subseteq Numbers
            BY <1>5 DEF Active
        <3> QED
            BY <1>4, <3>1, <3>2, <3>3
    <2>2. CASE ~ Full(active, k)
        <3>1. /\ kept'[l][k] = active \cup {n} /\ admitted'[l][k] = Append(admitted[l][k], t)
              /\ refusal'[l][k] = NoRefusal
            <4> HIDE DEF active, n, refused
            <4> QED
                BY <1>3, <1>4, <2>2
        <3>2. KeyInv(l, k)' /\ admitted'[l][k] \in Seq(Times) /\ kept'[l][k] \subseteq Numbers
            BY <1>1, <1>5, <1>6, <2>2, <3>1, KeyAdmitted
        <3>3. NoRefusal \in [at : Times \cup {-1}, until : Int]
            BY DEF NoRefusal
        <3> QED
            BY <3>1, <3>2, <3>3
    <2> QED
        BY <2>1, <2>2
\* The other keys.
<1>8. ASSUME NEW o \in LimitKeys, o # k
      PROVE  /\ kept'[l][o] = mem[o] /\ admitted'[l][o] = admitted[l][o]
             /\ refusal'[l][o] = refusal[l][o]
    <2> HIDE DEF active, n, refused
    <2> QED
        BY <1>3, <1>4, <1>8
<1>9. ASSUME NEW o \in LimitKeys, o # k
      PROVE  KeyInv(l, o)'
    BY <1>1, <1>6, <1>8, <1>9, OtherKey
\* The other limiter.
<1>10. ASSUME NEW m \in Limiters, m # l
       PROVE  /\ kept'[m] = kept[m] /\ admitted'[m] = admitted[m] /\ refusal'[m] = refusal[m]
              /\ latest'[m] = latest[m]
    <2> HIDE DEF active, n, refused
    <2> QED
        BY <1>3, <1>4, <1>6, <1>10
<1>11. ASSUME NEW m \in Limiters, m # l, NEW o \in LimitKeys
       PROVE  KeyInv(m, o)'
    BY <1>1, <1>10, <1>11, KeySame
<1>12. \A m \in Limiters, o \in LimitKeys : KeyInv(m, o)'
    BY <1>7, <1>9, <1>11
<1>13. Known(kept'[l]) \subseteq Known(mem) \cup {k}
    BY <1>8 DEF Known
<1>14. /\ \E a \in SUBSET Numbers : kept' = [kept EXCEPT ![l] = [mem EXCEPT ![k] = a]]
       /\ \E a \in [at : Times \cup {-1}, until : Int] : refusal' = [refusal EXCEPT ![l][k] = a]
       /\ \E a \in Seq(Times) : admitted' = [admitted EXCEPT ![l][k] = a]
    <2> HIDE DEF active, n, refused
    <2>1. kept' = [kept EXCEPT ![l] = [mem EXCEPT ![k] = kept'[l][k]]]
        BY <1>3, <1>4
    <2>2. refusal' = [refusal EXCEPT ![l][k] = refusal'[l][k]]
        BY <1>3, <1>4
    <2>3. admitted' = [admitted EXCEPT ![l][k] = admitted'[l][k]]
        BY <1>3, <1>4
    <2> QED
        BY <1>7, <2>1, <2>2, <2>3
<1>15. /\ kept' \in [Limiters -> [LimitKeys -> SUBSET Numbers]]
       /\ admitted' \in [Limiters -> [LimitKeys -> Seq(Times)]]
       /\ refusal' \in [Limiters -> [LimitKeys -> [at : Times \cup {-1}, until : Int]]]
    BY <1>4, <1>14
<1> QED
    BY <1>6, <1>10, <1>12, <1>13, <1>15

LEMMA TickKeeps == LimitInv /\ LimitTick => LimitInv'
<1> SUFFICES ASSUME LimitInv, LimitTick PROVE LimitInv'
    OBVIOUS
<1>1. /\ clock' = clock + 1 /\ clock < LastTime
      /\ UNCHANGED <<pending, kept, lastSweep, admitted, refusal, excused, latest, askedSoFar>>
    BY DEF LimitTick
<1>2. clock' \in Times
    BY <1>1, LimitsOfAssumption DEF LimitInv, LimitTypes, Times
<1>3. LimitTypes'
    BY <1>1, <1>2 DEF LimitInv, LimitTypes
<1>4. \A l \in Limiters, k \in LimitKeys : KeyInv(l, k)'
    BY <1>1, KeySame DEF LimitInv
<1> QED
    BY <1>1, <1>3, <1>4 DEF LimitInv, MemoryBounded

LEMMA AskKeeps == LimitInv /\ (\E c \in Calls : Ask(c)) => LimitInv'
<1> SUFFICES ASSUME LimitInv, NEW c \in Calls, Ask(c) PROVE LimitInv'
    OBVIOUS
<1>1. /\ askedSoFar < MaxCalls /\ askedSoFar' = askedSoFar + 1
      /\ UNCHANGED <<clock, kept, lastSweep, admitted, refusal, excused, latest>>
    BY DEF Ask
<1>2. PICK k \in LimitKeys : pending' = [pending EXCEPT ![c] = [key |-> k, time |-> clock]]
    BY DEF Ask
<1>3. askedSoFar' \in 0 .. MaxCalls /\ pending' \in [Calls -> Requests \cup {NoAsk}]
    <2>1. [key |-> k, time |-> clock] \in Requests
        BY DEF LimitInv, LimitTypes, Requests
    <2>2. askedSoFar' \in 0 .. MaxCalls
        BY <1>1, LimitsOfAssumption DEF LimitInv, LimitTypes
    <2> QED
        BY <1>2, <2>1, <2>2 DEF LimitInv, LimitTypes
<1>4. LimitTypes'
    BY <1>1, <1>3 DEF LimitInv, LimitTypes
<1>5. \A l \in Limiters, o \in LimitKeys : KeyInv(l, o)'
    BY <1>1, KeySame DEF LimitInv
<1> QED
    BY <1>1, <1>4, <1>5 DEF LimitInv, MemoryBounded

\* The request a limiter answers.
LEMMA AskedFor ==
    ASSUME LimitTypes, NEW c \in Calls, pending[c] # NoAsk
    PROVE  pending[c].key \in LimitKeys /\ pending[c].time \in Times
BY DEF LimitTypes, Requests

LEMMA RedisKeeps == LimitInv /\ (\E c \in Calls : AllowRedis(c)) => LimitInv'
<1> SUFFICES ASSUME LimitInv, NEW c \in Calls, AllowRedis(c) PROVE LimitInv'
    OBVIOUS
<1>1. PICK k, t, mem : k = pending[c].key /\ t = pending[c].time /\ mem = kept["redis"]
    OBVIOUS
<1>2. LimitTypes /\ "redis" \in Limiters /\ "memory" \in Limiters
    BY DEF LimitInv, Limiters
<1>3. k \in LimitKeys /\ t \in Times
    BY <1>1, <1>2, AskedFor DEF AllowRedis
<1>4. /\ Answer("redis", k, t, mem)
      /\ excused' = IF latest["redis"] > t THEN excused \cup {<<"redis", k>>} ELSE excused
      /\ pending' = [pending EXCEPT ![c] = NoAsk]
      /\ UNCHANGED <<clock, lastSweep, askedSoFar>>
    BY <1>1 DEF AllowRedis
<1>5. mem \in [LimitKeys -> SUBSET Numbers]
    BY <1>1, <1>2 DEF LimitTypes
<1>6. /\ \A o \in LimitKeys : mem[o] \subseteq kept["redis"][o]
      /\ \A o \in LimitKeys : Active("redis", o, kept["redis"][o], t - WindowOf[o]) \subseteq mem[o]
    BY <1>1 DEF Active
<1>7. excused \subseteq excused' /\ (latest["redis"] > t => <<"redis", k>> \in excused')
    BY <1>4
<1>8. /\ kept' \in [Limiters -> [LimitKeys -> SUBSET Numbers]]
      /\ admitted' \in [Limiters -> [LimitKeys -> Seq(Times)]]
      /\ refusal' \in [Limiters -> [LimitKeys -> [at : Times \cup {-1}, until : Int]]]
      /\ latest' \in [Limiters -> Times]
      /\ \A m \in Limiters, o \in LimitKeys : KeyInv(m, o)'
      /\ \A m \in Limiters : m # "redis" => kept'[m] = kept[m]
    BY <1>2, <1>3, <1>4, <1>5, <1>6, <1>7, AnswerKeeps
<1>9. LimitTypes'
    <2>1. excused' \subseteq Limiters \X LimitKeys
        BY <1>2, <1>3, <1>4 DEF LimitTypes
    <2>2. pending' \in [Calls -> Requests \cup {NoAsk}]
        BY <1>2, <1>4 DEF LimitTypes
    <2> QED
        BY <1>2, <1>4, <1>8, <2>1, <2>2 DEF LimitTypes
<1>10. kept'["memory"] = kept["memory"]
    BY <1>2, <1>8
<1> QED
    BY <1>8, <1>9, <1>10 DEF LimitInv, MemoryBounded

\* What is left of each key when the server's memory was swept.
LEMMA SweptIs ==
    ASSUME LimitTypes, NEW cutoff \in Int
    PROVE  /\ Swept(kept["memory"], cutoff) \in [LimitKeys -> SUBSET Numbers]
           /\ \A o \in LimitKeys :
                Swept(kept["memory"], cutoff)[o] = Active("memory", o, kept["memory"][o], cutoff)
<1>1. kept["memory"] \in [LimitKeys -> SUBSET Numbers]
    BY DEF LimitTypes, Limiters
<1> QED
    BY <1>1 DEF Swept, Active

\* Room is made by forgetting keys other than the one asked for.
LEMMA RoomIs ==
    ASSUME NEW mem \in [LimitKeys -> SUBSET Numbers], NEW k \in LimitKeys,
           NEW room \in RoomFor(mem, k),
           IsFiniteSet(Known(mem)), Cardinality(Known(mem)) <= MaxLimited
    PROVE  /\ room \in [LimitKeys -> SUBSET Numbers] /\ room[k] = mem[k]
           /\ \A o \in LimitKeys : room[o] \subseteq mem[o]
           /\ IsFiniteSet(Known(room) \cup {k}) /\ Cardinality(Known(room) \cup {k}) <= MaxLimited
<1>1. MaxLimited \in Nat \ {0} /\ Cardinality(Known(mem)) \in Nat
    BY LimitsOfAssumption, FS_CardinalityType
<1>2. CASE k \in Known(mem)
    <2>1. room = mem /\ Known(room) \cup {k} = Known(mem)
        BY <1>2 DEF RoomFor
    <2> QED
        BY <2>1
<1>3. CASE k \notin Known(mem) /\ Cardinality(Known(mem)) < MaxLimited
    <2>1. room = mem
        BY <1>3 DEF RoomFor
    <2>2. IsFiniteSet(Known(mem) \cup {k}) /\ Cardinality(Known(mem) \cup {k}) = Cardinality(Known(mem)) + 1
        BY <1>3, FS_AddElement
    <2> QED
        BY <1>1, <1>3, <2>1, <2>2
<1>4. CASE k \notin Known(mem) /\ ~ (Cardinality(Known(mem)) < MaxLimited)
    <2>1. PICK o \in Known(mem) : room = [mem EXCEPT ![o] = {}]
        BY <1>4 DEF RoomFor
    <2>2. o \in LimitKeys /\ o # k
        BY <1>4 DEF Known
    <2>3. /\ room \in [LimitKeys -> SUBSET Numbers] /\ room[k] = mem[k]
          /\ \A p \in LimitKeys : room[p] \subseteq mem[p]
        BY <2>1, <2>2
    <2>4. Known(room) = Known(mem) \ {o}
        BY <2>1, <2>2 DEF Known
    <2>5. /\ IsFiniteSet(Known(mem) \ {o})
          /\ Cardinality(Known(mem) \ {o}) = Cardinality(Known(mem)) - 1
        BY FS_RemoveElement
    <2>6. k \notin Known(mem) \ {o}
        BY <1>4
    <2>7. /\ IsFiniteSet((Known(mem) \ {o}) \cup {k})
          /\ Cardinality((Known(mem) \ {o}) \cup {k}) = Cardinality(Known(mem) \ {o}) + 1
        BY <2>5, <2>6, FS_AddElement
    <2> QED
        BY <1>1, <2>3, <2>4, <2>5, <2>7
<1> QED
    BY <1>2, <1>3, <1>4

\* The memory as a request of key k at time t finds it, swept or not.
SweptFor(k, t) ==
    IF t - lastSweep >= SweepInterval THEN Swept(kept["memory"], t - WindowOf[k]) ELSE kept["memory"]

LEMMA SweptForIs ==
    ASSUME LimitInv, NEW k \in LimitKeys, NEW t \in Times
    PROVE  /\ SweptFor(k, t) \in [LimitKeys -> SUBSET Numbers]
           /\ \A o \in LimitKeys : SweptFor(k, t)[o] \subseteq kept["memory"][o]
           /\ Active("memory", k, kept["memory"][k], t - WindowOf[k]) \subseteq SweptFor(k, t)[k]
           /\ IsFiniteSet(Known(SweptFor(k, t))) /\ Cardinality(Known(SweptFor(k, t))) <= MaxLimited
<1> DEFINE mem == SweptFor(k, t)
           cutoff == t - WindowOf[k]
<1>1. LimitTypes /\ kept["memory"] \in [LimitKeys -> SUBSET Numbers]
    BY DEF LimitInv, LimitTypes, Limiters
<1>2. cutoff \in Int
    BY LimitsAre DEF Times
<1>3. /\ mem \in [LimitKeys -> SUBSET Numbers]
      /\ \A o \in LimitKeys : mem[o] \subseteq kept["memory"][o]
      /\ Active("memory", k, kept["memory"][k], cutoff) \subseteq mem[k]
    <2>1. CASE t - lastSweep >= SweepInterval
        <3>1. mem = Swept(kept["memory"], cutoff)
            BY <2>1 DEF SweptFor
        <3>2. /\ mem \in [LimitKeys -> SUBSET Numbers]
              /\ \A o \in LimitKeys : mem[o] = Active("memory", o, kept["memory"][o], cutoff)
            <4> HIDE DEF mem, cutoff
            <4> QED
                BY <1>1, <1>2, <3>1, SweptIs
        <3> QED
            BY <3>2 DEF Active
    <2>2. CASE ~ (t - lastSweep >= SweepInterval)
        <3>1. mem = kept["memory"]
            BY <2>2 DEF SweptFor
        <3> QED
            BY <1>1, <3>1 DEF Active
    <2> QED
        BY <2>1, <2>2
<1>4. Known(mem) \subseteq Known(kept["memory"])
    <2> HIDE DEF mem
    <2> QED
        BY <1>3 DEF Known
<1>5. IsFiniteSet(Known(kept["memory"])) /\ Cardinality(Known(kept["memory"])) <= MaxLimited
    BY DEF LimitInv, MemoryBounded
<1>6. MaxLimited \in Nat
    BY LimitsOfAssumption
<1>7. /\ IsFiniteSet(Known(mem)) /\ Cardinality(Known(mem)) <= Cardinality(Known(kept["memory"]))
      /\ Cardinality(Known(mem)) \in Nat /\ Cardinality(Known(kept["memory"])) \in Nat
    BY <1>4, <1>5, FS_Subset, FS_CardinalityType
<1> QED
    BY <1>3, <1>5, <1>6, <1>7

LEMMA MemoryKeeps == LimitInv /\ (\E c \in Calls : AllowMemory(c)) => LimitInv'
<1> SUFFICES ASSUME LimitInv, NEW c \in Calls, AllowMemory(c) PROVE LimitInv'
    OBVIOUS
<1>1. PICK k, t : k = pending[c].key /\ t = pending[c].time
    OBVIOUS
<1>2. LimitTypes /\ "redis" \in Limiters /\ "memory" \in Limiters
    BY DEF LimitInv, Limiters
<1>3. k \in LimitKeys /\ t \in Times
    BY <1>1, <1>2, AskedFor DEF AllowMemory
<1>4. PICK mem : mem = SweptFor(k, t)
    OBVIOUS
<1>5. PICK room \in RoomFor(mem, k) :
        /\ Answer("memory", k, t, room)
        /\ excused' = excused \cup
             {<<"memory", o>> : o \in
                {o \in LimitKeys :
                    \/ o # k /\ ~(Active("memory", o, kept["memory"][o], t - WindowOf[o]) \subseteq room[o])
                    \/ o = k /\ latest["memory"] > t}}
    BY <1>1, <1>4 DEF AllowMemory, SweptFor
<1>6. /\ lastSweep' = IF t - lastSweep >= SweepInterval THEN t ELSE lastSweep
      /\ pending' = [pending EXCEPT ![c] = NoAsk]
      /\ UNCHANGED <<clock, askedSoFar>>
    BY <1>1 DEF AllowMemory
<1>7. /\ mem \in [LimitKeys -> SUBSET Numbers]
      /\ \A o \in LimitKeys : mem[o] \subseteq kept["memory"][o]
      /\ Active("memory", k, kept["memory"][k], t - WindowOf[k]) \subseteq mem[k]
      /\ IsFiniteSet(Known(mem)) /\ Cardinality(Known(mem)) <= MaxLimited
    BY <1>3, <1>4, SweptForIs
<1>8. /\ room \in [LimitKeys -> SUBSET Numbers] /\ room[k] = mem[k]
      /\ \A o \in LimitKeys : room[o] \subseteq mem[o]
      /\ IsFiniteSet(Known(room) \cup {k}) /\ Cardinality(Known(room) \cup {k}) <= MaxLimited
    BY <1>3, <1>7, RoomIs
<1>9. /\ \A o \in LimitKeys : room[o] \subseteq kept["memory"][o]
      /\ Active("memory", k, kept["memory"][k], t - WindowOf[k]) \subseteq room[k]
    BY <1>7, <1>8
<1>10. /\ excused \subseteq excused' /\ (latest["memory"] > t => <<"memory", k>> \in excused')
       /\ \A o \in LimitKeys \ {k} :
            \/ <<"memory", o>> \in excused'
            \/ Active("memory", o, kept["memory"][o], t - WindowOf[o]) \subseteq room[o]
       /\ excused' \subseteq Limiters \X LimitKeys
    BY <1>2, <1>3, <1>5 DEF LimitTypes
<1>11. /\ kept' \in [Limiters -> [LimitKeys -> SUBSET Numbers]]
       /\ admitted' \in [Limiters -> [LimitKeys -> Seq(Times)]]
       /\ refusal' \in [Limiters -> [LimitKeys -> [at : Times \cup {-1}, until : Int]]]
       /\ latest' \in [Limiters -> Times]
       /\ \A m \in Limiters, o \in LimitKeys : KeyInv(m, o)'
       /\ Known(kept'["memory"]) \subseteq Known(room) \cup {k}
    BY <1>2, <1>3, <1>5, <1>8, <1>9, <1>10, AnswerKeeps
<1>12. LimitTypes'
    <2>1. lastSweep' \in Times \cup {-SweepInterval} /\ pending' \in [Calls -> Requests \cup {NoAsk}]
        BY <1>2, <1>3, <1>6 DEF LimitTypes
    <2> QED
        BY <1>2, <1>6, <1>10, <1>11, <2>1 DEF LimitTypes
<1>13. IsFiniteSet(Known(kept'["memory"])) /\ Cardinality(Known(kept'["memory"])) <= MaxLimited
    <2>1. MaxLimited \in Nat
        BY LimitsOfAssumption
    <2>2. /\ IsFiniteSet(Known(kept'["memory"]))
          /\ Cardinality(Known(kept'["memory"])) <= Cardinality(Known(room) \cup {k})
          /\ Cardinality(Known(kept'["memory"])) \in Nat /\ Cardinality(Known(room) \cup {k}) \in Nat
        BY <1>8, <1>11, FS_Subset, FS_CardinalityType
    <2> QED
        BY <1>8, <2>1, <2>2
<1> QED
    BY <1>11, <1>12, <1>13 DEF LimitInv, MemoryBounded

LEMMA LimitInvStep == LimitInv /\ [LimitNext]_limitVars => LimitInv'
<1> SUFFICES ASSUME LimitInv, [LimitNext]_limitVars PROVE LimitInv'
    OBVIOUS
<1>1. CASE UNCHANGED limitVars
    <2>1. \A l \in Limiters, k \in LimitKeys : KeyInv(l, k)'
        BY <1>1, KeySame DEF LimitInv, limitVars
    <2> QED
        BY <1>1, <2>1 DEF LimitInv, LimitTypes, MemoryBounded, limitVars
<1>2. CASE LimitTick
    BY <1>2, TickKeeps
<1>3. CASE \E c \in Calls : Ask(c)
    BY <1>3, AskKeeps
<1>4. CASE \E c \in Calls : AllowRedis(c)
    BY <1>4, RedisKeeps
<1>5. CASE \E c \in Calls : AllowMemory(c)
    BY <1>5, MemoryKeeps
<1> QED
    BY <1>1, <1>2, <1>3, <1>4, <1>5 DEF LimitNext

THEOREM LimitInvariant == LimitSpec => []LimitInv
<1>1. LimitInit => LimitInv
    BY LimitInitOK
<1>2. LimitInv /\ [LimitNext]_limitVars => LimitInv'
    BY LimitInvStep
<1> QED
    BY <1>1, <1>2, PTL DEF LimitSpec

LEMMA LimitInvHolds == LimitInv => LimitsHold
<1> SUFFICES ASSUME LimitInv PROVE LimitsHold
    OBVIOUS
<1>1. LimitTypes /\ (\A l \in Limiters, k \in LimitKeys : KeyInv(l, k)) /\ MemoryBounded
    BY DEF LimitInv
<1>2. ASSUME NEW l \in Limiters, NEW k \in LimitKeys
      PROVE  /\ admitted[l][k] \in Seq(Times)
             /\ kept[l][k] \subseteq DOMAIN admitted[l][k]
             /\ Cardinality(kept[l][k]) <= LimitOf[k]
             /\ refusal[l][k].at \in Times \cup {-1} /\ refusal[l][k].until \in Int
    <2>1. admitted[l][k] \in Seq(Times) /\ refusal[l][k] \in [at : Times \cup {-1}, until : Int]
        BY <1>1 DEF LimitTypes
    <2> QED
        BY <1>1, <2>1 DEF KeyInv, KeptAdmitted
<1>3. LimitTypeOK
    BY <1>1, <1>2 DEF LimitTypeOK, LimitTypes, Requests
<1>4. WindowRespected
    BY <1>1 DEF KeyInv, WindowLimited, WindowRespected, WindowOfRequest
<1> QED
    BY <1>1, <1>3, <1>4 DEF LimitsHold

\* No limiter admits more requests of a key in a window than the limit, and
\* the server's memory holds a bounded number of keys.
THEOREM LimitsAreHeld == LimitSpec => []LimitsHold
BY LimitInvariant, LimitInvHolds, PTL

\* An answer that refuses a key comes before the time its last refusal named.
LEMMA AnswerWaits ==
    ASSUME LimitTypes, NEW l \in Limiters, NEW k \in LimitKeys, KeyInv(l, k), NEW t \in Times,
           NEW set, set \subseteq kept[l][k], refusal[l][k] # NoRefusal,
           Full(Active(l, k, set, t - WindowOf[k]), k)
    PROVE  t < refusal[l][k].until
<1> DEFINE active == Active(l, k, set, t - WindowOf[k])
<1>1. /\ active \subseteq kept[l][k] /\ Cardinality(active) \in Nat
      /\ \A i \in kept[l][k] : i \notin active => Cardinality(active) < LimitOf[k]
    BY Found
<1>2. LimitOf[k] \in Nat /\ WindowOf[k] \in Nat
    BY LimitsAre
<1>3. Cardinality(active) >= LimitOf[k]
    BY DEF Full
<1>4. \A i \in kept[l][k] : i \in active
    <2> HIDE DEF active
    <2> QED
        BY <1>1, <1>2, <1>3
<1>5. kept[l][k] = active
    BY <1>1, <1>4
<1>6. PICK i \in active : admitted[l][k][i] + WindowOf[k] <= refusal[l][k].until
    <2>1. ~ (Cardinality(kept[l][k]) < LimitOf[k])
        BY <1>1, <1>2, <1>3, <1>5
    <2>2. RefusalEnds(l, k)
        BY DEF KeyInv
    <2> QED
        BY <1>5, <2>1, <2>2 DEF RefusalEnds
<1>7. /\ admitted[l][k][i] > t - WindowOf[k] /\ admitted[l][k][i] \in Nat
      /\ refusal[l][k].until \in Int /\ t \in Nat
    <2>1. admitted[l][k] \in Seq(Times) /\ i \in DOMAIN admitted[l][k]
        BY <1>1, <1>6 DEF LimitTypes, KeyInv, KeptAdmitted
    <2>2. refusal[l][k] \in [at : Times \cup {-1}, until : Int]
        BY DEF LimitTypes
    <2> QED
        BY <1>6, <2>1, <2>2, TimesOf DEF Active, Times
<1>8. PICK a, u, w \in Int : a = admitted[l][k][i] /\ u = refusal[l][k].until /\ w = WindowOf[k]
    BY <1>2, <1>7
<1> QED
    BY <1>6, <1>7, <1>8

\* What an answer to a key says of the last refusals of all keys.
LEMMA AnswerOfAll ==
    ASSUME LimitInv, NEW l \in Limiters, NEW k \in LimitKeys, NEW t \in Times,
           NEW mem, mem[k] \subseteq kept[l][k], Answer(l, k, t, mem),
           NEW m \in Limiters, NEW o \in LimitKeys, refusal[m][o] # NoRefusal,
           refusal'[m][o] \notin {refusal[m][o], NoRefusal}
    PROVE  refusal'[m][o].at < refusal[m][o].until
<1> DEFINE active == Active(l, k, mem[k], t - WindowOf[k])
           end == Oldest(l, k, active) + WindowOf[k]
           refused == [at |-> t, until |-> IF end - t < 1 THEN t + 1 ELSE end]
<1>1. LimitTypes /\ KeyInv(l, k)
      /\ refusal \in [Limiters -> [LimitKeys -> [at : Times \cup {-1}, until : Int]]]
    BY DEF LimitInv, LimitTypes
<1>2. \/ Full(active, k) /\ refusal' = [refusal EXCEPT ![l][k] = refused]
      \/ refusal' = [refusal EXCEPT ![l][k] = NoRefusal]
    BY DEF Answer
<1>3. m = l /\ o = k /\ Full(active, k) /\ refusal'[m][o] = refused
    <2> HIDE DEF active, refused
    <2>1. CASE refusal' = [refusal EXCEPT ![l][k] = NoRefusal]
        BY <1>1, <2>1
    <2>2. CASE Full(active, k) /\ refusal' = [refusal EXCEPT ![l][k] = refused]
        BY <1>1, <2>2
    <2> QED
        BY <1>2, <2>1, <2>2
<1>4. refusal'[m][o].at = t
    BY <1>3
<1>5. t < refusal[l][k].until
    BY <1>1, <1>3, AnswerWaits
<1> QED
    BY <1>3, <1>4, <1>5

LEMMA RetryStep ==
    ASSUME LimitInv, [LimitNext]_limitVars,
           NEW m \in Limiters, NEW o \in LimitKeys, refusal[m][o] # NoRefusal,
           refusal'[m][o] \notin {refusal[m][o], NoRefusal}
    PROVE  refusal'[m][o].at < refusal[m][o].until
<1>1. CASE UNCHANGED limitVars \/ LimitTick \/ \E c \in Calls : Ask(c)
    <2>1. refusal' = refusal
        BY <1>1 DEF limitVars, LimitTick, Ask
    <2> QED
        BY <2>1
<1>2. ASSUME NEW c \in Calls, AllowRedis(c)
      PROVE  refusal'[m][o].at < refusal[m][o].until
    <2>1. PICK k, t, mem : k = pending[c].key /\ t = pending[c].time /\ mem = kept["redis"]
        OBVIOUS
    <2>2. LimitTypes /\ "redis" \in Limiters
        BY DEF LimitInv, Limiters
    <2>3. k \in LimitKeys /\ t \in Times
        BY <1>2, <2>1, <2>2, AskedFor DEF AllowRedis
    <2>4. Answer("redis", k, t, mem) /\ mem[k] \subseteq kept["redis"][k]
        BY <1>2, <2>1 DEF AllowRedis
    <2> QED
        BY <2>2, <2>3, <2>4, AnswerOfAll
<1>3. ASSUME NEW c \in Calls, AllowMemory(c)
      PROVE  refusal'[m][o].at < refusal[m][o].until
    <2>1. PICK k, t : k = pending[c].key /\ t = pending[c].time
        OBVIOUS
    <2>2. LimitTypes /\ "memory" \in Limiters
        BY DEF LimitInv, Limiters
    <2>3. k \in LimitKeys /\ t \in Times
        BY <1>3, <2>1, <2>2, AskedFor DEF AllowMemory
    <2>4. PICK mem : mem = SweptFor(k, t)
        OBVIOUS
    <2>5. PICK room \in RoomFor(mem, k) : Answer("memory", k, t, room)
        BY <1>3, <2>1, <2>4 DEF AllowMemory, SweptFor
    <2>6. /\ mem \in [LimitKeys -> SUBSET Numbers] /\ mem[k] \subseteq kept["memory"][k]
          /\ IsFiniteSet(Known(mem)) /\ Cardinality(Known(mem)) <= MaxLimited
        BY <2>3, <2>4, SweptForIs
    <2>7. room[k] \subseteq kept["memory"][k]
        BY <2>3, <2>5, <2>6, RoomIs
    <2> QED
        BY <2>2, <2>3, <2>5, <2>7, AnswerOfAll
<1> QED
    BY <1>1, <1>2, <1>3 DEF LimitNext

\* A client that waits as long as Retry-After says, while nobody else uses the
\* key, is not refused again by the same limiter.
THEOREM RetryAfterHolds == LimitSpec => RetryAfterSuffices
<1>1. LimitInv /\ [LimitNext]_limitVars =>
        [\A l \in Limiters, k \in LimitKeys :
            LET before == refusal[l][k]
                after == refusal'[l][k]
            IN before # NoRefusal /\ after \notin {before, NoRefusal} => after.at < before.until]_limitVars
    BY RetryStep
<1> QED
    BY <1>1, LimitInvariant, PTL DEF LimitSpec, RetryAfterSuffices
=============================================================================
