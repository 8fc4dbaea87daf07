--------------------------- MODULE InternalConfig ---------------------------
(***************************************************************************)
(* The command line tool's internal configuration file                     *)
(* (internal/stintcli: backoff.go, options.go, config.go): how long ago a   *)
(* heartbeat was posted, how often in a row posting failed and when, and    *)
(* how far the AI transcripts were read.  Every invocation reads the file   *)
(* when it starts and decides by it whether to post or to queue; afterwards *)
(* it records the outcome key by key, each time by reading the whole file   *)
(* again, changing one key and writing all of it back, without a lock:      *)
(* os.WriteFile truncates the file first.                                   *)
(*                                                                          *)
(* A time is an age, which grows as the clock ticks, up to Old.             *)
(***************************************************************************)
EXTENDS Integers, Sequences

CONSTANTS
    Invocations, \* numbered slots for invocations running at the same time
    Factor,      \* backoffFactorSeconds
    BackoffMax,  \* backoffMaxSeconds
    RateLimit,   \* heartbeat_rate_limit_seconds
    Old,         \* ages are counted up to here: past every window
    Many,        \* failures are counted up to here: more than ever back off
    MaxMishaps   \* bound on the crashes, failing writes and starts of an
                 \* invocation while another runs in a behaviour

ASSUME BackoffAssumption ==
    /\ Factor \in Nat \ {0} /\ BackoffMax \in Nat /\ RateLimit \in Nat \ {0}
    /\ Old \in Nat /\ Old >= BackoffMax /\ Many \in Nat
    /\ Factor * 2 ^ Many > BackoffMax
    /\ MaxMishaps \in Nat
    /\ Invocations \subseteq Nat

VARIABLES
    file,      \* the file: backoff_retries, backoff_at, heartbeats_last_sent_at, the AI mark
    step,      \* what each invocation does next
    opts,      \* the retries, failure time and last post of its Options; Blank when idle
    todo,      \* the keys it still has to write
    failing,   \* whether they record a failed post
    copy,      \* the file's new contents, between the read and the write
    streak,    \* history: recorded failures since the last success
    sinceFailure, \* history: the age of the last of them
    disturbed, \* history: an invocation overlapped another or was cut, and no
               \* invocation has since run and succeeded alone
    torn,      \* history: the write of a key overlapped another or was cut
    alone,     \* history: no other invocation ran since this one started
    marked,    \* history: an AI mark was written
    mishaps    \* the crashes, failing writes and overlapping starts so far

configVars == <<file, step, opts, todo, failing, copy, streak, sinceFailure, disturbed,
                torn, alone, marked, mishaps>>

Never == -1     \* the age of what never happened: an empty value
Ages == {Never} \cup 0 .. Old
Configs == [retries : 0 .. Many, at : Ages, sent : {Never} \cup 0 .. RateLimit - 1, mark : BOOLEAN]
Blank == [retries |-> 0, at |-> Never, sent |-> Never, mark |-> FALSE]
Writing == {"load", "truncate", "write"}
Written == {"sent", "retries", "at", "mark"}

ConfigTypeOK ==
    /\ file \in Configs
    /\ step \in [Invocations -> {"idle", "decide", "held", "limited", "post"} \cup Writing]
    /\ opts \in [Invocations -> Configs]
    /\ \A i \in Invocations : todo[i] \in Seq(Written) /\ Len(todo[i]) <= 4
    /\ failing \in [Invocations -> BOOLEAN]
    /\ copy \in [Invocations -> Configs]
    /\ streak \in 0 .. Many /\ sinceFailure \in Ages
    /\ alone \in [Invocations -> BOOLEAN]
    /\ disturbed \in BOOLEAN /\ torn \in BOOLEAN /\ marked \in BOOLEAN
    /\ mishaps \in 0 .. MaxMishaps

ConfigInit ==
    /\ file = Blank
    /\ step = [i \in Invocations |-> "idle"]
    /\ opts = [i \in Invocations |-> Blank]
    /\ todo = [i \in Invocations |-> <<>>]
    /\ failing = [i \in Invocations |-> FALSE]
    /\ copy = [i \in Invocations |-> Blank]
    /\ streak = 0 /\ sinceFailure = Never
    /\ alone = [i \in Invocations |-> FALSE]
    /\ disturbed = FALSE /\ torn = FALSE /\ marked = FALSE
    /\ mishaps = 0

Older(a) == IF a = Never \/ a = Old THEN a ELSE a + 1

\* The contents c a tick later; a post that is RateLimit ago, which is no
\* longer told from none, is dropped.
Aged(c) == [c EXCEPT !.at = Older(@),
                     !.sent = IF Older(@) >= RateLimit THEN Never ELSE Older(@)]
Running(i) == step[i] # "idle"
OthersRun(i) == \E j \in Invocations \ {i} : Running(j)
Mishap == mishaps < MaxMishaps /\ mishaps' = mishaps + 1 /\ disturbed' = TRUE
OthersWrite(i) == \E j \in Invocations \ {i} : step[j] \in {"truncate", "write"}

\* How long r failures hold posts back; more than BackoffMax is not at all.
BackoffWindow(r) == Factor * 2 ^ r

\* shouldBackoffNow.
ShouldBackoff(r, at) ==
    r >= 1 /\ at # Never /\ BackoffWindow(r) <= BackoffMax /\ at < BackoffWindow(r)

\* shouldQueueForRateLimit.
RateLimited(c) == c.sent # Never

-----------------------------------------------------------------------------

Tick ==
    /\ file' = Aged(file)
    /\ opts' = [i \in Invocations |-> Aged(opts[i])]
    /\ copy' = [i \in Invocations |-> Aged(copy[i])]
    /\ sinceFailure' = Older(sinceFailure)
    /\ <<file', opts', copy', sinceFailure'>> # <<file, opts, copy, sinceFailure>>
    /\ UNCHANGED <<step, todo, failing, streak, disturbed, torn, alone, marked, mishaps>>

\* An invocation starts, in the first free slot, and reads the file; a file
\* that is being rewritten reads as an empty one.
Begin(i) ==
    /\ step[i] = "idle"
    /\ opts' = [opts EXCEPT ![i] = [file EXCEPT !.mark = FALSE]]
    /\ step' = [step EXCEPT ![i] = "decide"]
    /\ \A j \in Invocations : j < i => Running(j)
    /\ \/ ~OthersRun(i) /\ UNCHANGED <<disturbed, mishaps>>
       \/ OthersRun(i) /\ Mishap
    /\ alone' = [j \in Invocations |-> j = i /\ ~OthersRun(i)]
    /\ UNCHANGED <<file, todo, failing, copy, streak, sinceFailure, torn, marked>>

\* sendHeartbeats: the heartbeats are queued while the failures hold posts
\* back; then, unless --disable-offline, while the last post is recent.
Decide(i) ==
    /\ step[i] = "decide"
    /\ \E queues \in BOOLEAN :
          step' = [step EXCEPT ![i] =
                     IF ShouldBackoff(opts[i].retries, opts[i].at) THEN "held"
                     ELSE IF queues /\ RateLimited(opts[i]) THEN "limited" ELSE "post"]
    /\ UNCHANGED <<file, opts, todo, failing, copy, streak, sinceFailure, disturbed, torn,
                   alone, marked, mishaps>>

\* Invocation i goes on to write the keys, with the Options o, or ends.
GoOn(i, keys, o, fails) ==
    LET ends == keys = <<>>
    IN /\ todo' = [todo EXCEPT ![i] = keys]
       /\ step' = [step EXCEPT ![i] = IF ends THEN "idle" ELSE "load"]
       /\ opts' = [opts EXCEPT ![i] = IF ends THEN Blank ELSE o]
       /\ failing' = [failing EXCEPT ![i] = fails /\ ~ends]
       /\ alone' = [alone EXCEPT ![i] = @ /\ ~ends]

\* The same, with the AI mark last when transcripts were read.
Then(i, keys, o, fails) ==
    \E ai \in BOOLEAN : GoOn(i, IF ai THEN Append(keys, "mark") ELSE keys, o, fails)

\* Mutant: an invocation that is held back counts as one more failure.
HeldCounts(i) ==
    /\ step[i] \in {"held", "limited"}
    /\ Then(i, <<"at">>, [opts[i] EXCEPT !.at = 0], TRUE)
    /\ UNCHANGED <<file, copy, streak, sinceFailure, disturbed, torn, marked, mishaps>>

\* The heartbeats were queued and nothing is recorded but the AI mark.
HeldBack(i) ==
    /\ step[i] \in {"held", "limited"}
    /\ Then(i, <<>>, opts[i], TRUE)
    /\ UNCHANGED <<file, copy, streak, sinceFailure, disturbed, torn, marked, mishaps>>

NoFailures(o) == [o EXCEPT !.retries = 0, !.at = Never]

\* Mutant: a post that succeeds leaves the failures recorded.
PostedNoReset(i) ==
    /\ step[i] = "post"
    /\ streak' = 0 /\ sinceFailure' = Never
    /\ Then(i, <<"sent">>, NoFailures(opts[i]), FALSE)
    /\ UNCHANGED <<file, copy, disturbed, torn, marked, mishaps>>

\* The post succeeds: recordLastSent, then resetBackoff if the Options read
\* any failure.
Posted(i) ==
    /\ step[i] = "post"
    /\ streak' = 0 /\ sinceFailure' = Never
    /\ Then(i, IF opts[i].retries < 1 /\ opts[i].at = Never
                 THEN <<"sent">> ELSE <<"sent", "retries", "at">>,
            NoFailures(opts[i]), FALSE)
    /\ UNCHANGED <<file, copy, disturbed, torn, marked, mishaps>>

OneMore(n) == IF n = Many THEN Many ELSE n + 1

\* The post fails: the heartbeats are queued and recordBackoffFailure counts
\* from what the Options read; with --disable-offline nothing is recorded.
FailedPost(i) ==
    /\ step[i] = "post"
    /\ \/ /\ streak' = OneMore(streak)
          /\ sinceFailure' = 0
          /\ Then(i, <<"retries", "at">>,
                  [opts[i] EXCEPT !.retries = OneMore(@), !.at = 0], TRUE)
       \/ GoOn(i, <<>>, opts[i], TRUE) /\ UNCHANGED <<streak, sinceFailure>>
    /\ UNCHANGED <<file, copy, disturbed, torn, marked, mishaps>>

\* Whether the key is still to be written.
ToWrite(i, key) == \E n \in 1 .. Len(todo[i]) : todo[i][n] = key

\* The value of a key, set in the contents c.
WithKey(i, key, c) ==
    CASE key = "sent" -> [c EXCEPT !.sent = 0]
      [] key = "retries" -> [c EXCEPT !.retries = opts[i].retries]
      [] key = "at" -> [c EXCEPT !.at = opts[i].at]
      [] key = "mark" -> [c EXCEPT !.mark = TRUE]

\* Mutant: the other keys are not read before the file is written.
LoadFresh(i) ==
    /\ step[i] = "load"
    /\ copy' = [copy EXCEPT ![i] = WithKey(i, Head(todo[i]), [Blank EXCEPT !.sent = file.sent])]
    /\ step' = [step EXCEPT ![i] = "truncate"]
    /\ torn' = (torn \/ OthersWrite(i))
    /\ UNCHANGED <<file, opts, todo, failing, streak, sinceFailure, disturbed, alone, marked, mishaps>>

\* WriteConfigValues reads the file and sets the key in memory.
Load(i) ==
    /\ step[i] = "load"
    /\ copy' = [copy EXCEPT ![i] = WithKey(i, Head(todo[i]), file)]
    /\ step' = [step EXCEPT ![i] = "truncate"]
    /\ torn' = (torn \/ OthersWrite(i))
    /\ UNCHANGED <<file, opts, todo, failing, streak, sinceFailure, disturbed, alone, marked, mishaps>>

\* os.WriteFile opens the file, which empties it.
Truncate(i) ==
    /\ step[i] = "truncate"
    /\ file' = Blank
    /\ step' = [step EXCEPT ![i] = "write"]
    /\ UNCHANGED <<opts, todo, failing, copy, streak, sinceFailure, disturbed, torn, alone, marked, mishaps>>

WriteBack(i) ==
    /\ step[i] = "write"
    /\ file' = copy[i]
    /\ copy' = [copy EXCEPT ![i] = Blank]
    /\ GoOn(i, Tail(todo[i]), opts[i], failing[i])
    /\ marked' = (marked \/ Head(todo[i]) = "mark")
    /\ disturbed' = (disturbed /\ ~(alone[i] /\ ~failing[i] /\ Len(todo[i]) = 1))
    /\ UNCHANGED <<streak, sinceFailure, torn, mishaps>>

\* The invocation is cut while it writes, and goes on with the keys.
Cut(i, keys) ==
    /\ step[i] \in Writing
    /\ Mishap
    /\ GoOn(i, keys, opts[i], failing[i])
    /\ copy' = [copy EXCEPT ![i] = Blank]
    /\ torn' = (torn \/ step[i] = "write")
    /\ UNCHANGED <<file, streak, sinceFailure, marked>>

\* It is killed.
Killed(i) == Cut(i, <<>>)

\* A read or write of the file returns an error.  recordLastSent and
\* resetBackoff end the invocation by it; the error of recordBackoffFailure is
\* ignored, so the AI mark is written all the same.
WriteFails(i) ==
    Cut(i, IF failing[i] /\ Head(todo[i]) # "mark" /\ ToWrite(i, "mark")
             THEN <<"mark">> ELSE <<>>)

Proceed(i) ==
    \/ Decide(i) \/ HeldBack(i) \/ Posted(i) \/ FailedPost(i)
    \/ Load(i) \/ Truncate(i) \/ WriteBack(i)

ConfigNext ==
    \/ Tick
    \/ \E i \in Invocations : Begin(i) \/ Proceed(i) \/ Killed(i) \/ WriteFails(i)

\* The clock goes on, an invocation that runs goes on, and the editor starts
\* the tool again.
ConfigFairness ==
    /\ WF_configVars(Tick)
    /\ \A i \in Invocations : SF_configVars(Begin(i)) /\ WF_configVars(Proceed(i))

ConfigSpec == ConfigInit /\ [][ConfigNext]_configVars /\ ConfigFairness

-----------------------------------------------------------------------------

\* The window of the failures since the last success is open: it is not longer
\* than BackoffMax, and the last of them is not as long ago.
InBackoff ==
    /\ streak >= 1 /\ BackoffWindow(streak) <= BackoffMax
    /\ sinceFailure \in 0 .. BackoffWindow(streak) - 1

\* Posts are held back exactly as the failures so far ask for: when an
\* invocation decides, it queues its heartbeats for backoff if and only if the
\* window of the failures since the last success is open at that moment, as
\* long as invocations did not overlap and were not cut.  What it decides by is
\* a file that earlier invocations wrote key by key (backoff.go:28, 44, 51).
BackoffAsFailed ==
    [][\A i \in Invocations :
          ~disturbed /\ step[i] = "decide" /\ step'[i] # "decide"
            => (step'[i] = "held" <=> InBackoff)]_configVars

\* The AI mark, once written, stays in the file, whatever other keys
\* invocations write, as long as no write of a key overlapped another and none
\* was cut in half (config.go:178, ai_sync.go:151).
MarkKeptUnlessTorn ==
    marked /\ ~torn /\ (\A i \in Invocations : step[i] # "write") => file.mark

\* However often posting fails, and whatever is lost of the file, neither the
\* backoff nor the rate limit holds posts back for ever: after every decision
\* of an invocation a heartbeat post is tried again, by this one or a later one
\* (heartbeat_send.go:144, 163).
PostsTriedAgain ==
    (\E i \in Invocations : step[i] = "decide") ~> (\E i \in Invocations : step[i] = "post")
=============================================================================
