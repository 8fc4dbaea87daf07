----------------------------- MODULE UsageReports -----------------------------
(***************************************************************************)
(* What stint reports of the AI usage events that it stores: the summary    *)
(* and the five-hour blocks (internal/usagestats, internal/api), the cost   *)
(* engine behind both (internal/pricing), the rates it shows, and the AI    *)
(* costs baked into statistics (internal/services/aicost.go,                *)
(* internal/aicostbake).                                                    *)
(*                                                                          *)
(* Each takes the stored events through code of its own: the database sums  *)
(* them by group, blocks take them one by one, the bake takes another       *)
(* window and other prices.  The state is what they read; the properties    *)
(* relate their results.                                                    *)
(*                                                                          *)
(* A range of days ends with the day that ends at tick Days * Day of the    *)
(* server; the user's days begin Zone ticks later.  Amounts of money are    *)
(* integers, Cent of which make a cent.                                     *)
(***************************************************************************)
EXTENDS Integers, Sequences, FiniteSets, SequencesExt, FiniteSetsExt

CONSTANTS
    Hour, BlockDuration, Day, Zone, \* ticks
    Days,                           \* days of a range
    Cent,
    Table, Fallback,                \* prices by model, of LiteLLM and OpenRouter
    Aliases,                        \* a set of <<model, canonical model>>
    CustomPrice,                    \* the price of a user's own
    CustomModels,                   \* models a user may price
    Usages,                         \* what an event is of, but for its time
    MaxRows                         \* bound on stored rows

ASSUME UsageReportsAssumption ==
    /\ \A n \in {Hour, BlockDuration, Day, Days, Cent, MaxRows} : n \in Nat \ {0}
    /\ BlockDuration % Hour = 0 /\ Zone \in 0 .. Day - 1

VARIABLES
    usage,   \* usage_events
    custom,  \* custom_pricing: models with a price of the user's own
    prefs    \* billing_prefs: billing types by agent

reportVars == <<usage, custom, prefs>>

Instants == 0 .. Zone + Days * Day - 1
BillingTypes == {"api", "subscription"}
Agents == {u.agent : u \in Usages}
PriceModes == {"auto", "calculate", "display"}

StoredEvent(u, t) == [of |-> u, time |-> t]

UsageRows == Cardinality(usage) + Cardinality(custom) + Cardinality(DOMAIN prefs)

ReportsTypeOK ==
    /\ usage \subseteq {StoredEvent(u, t) : u \in Usages, t \in Instants}
    /\ UsageRows <= MaxRows
    /\ custom \subseteq CustomModels
    /\ \E those \in SUBSET Agents : prefs \in [those -> BillingTypes]

Sum(f(_), S) == MapThenSumSet(f, S)

-----------------------------------------------------------------------------
(* Prices.                                                                  *)

\* A model is a name without its prefixes and date, the prefix of a region, if
\* it bears one, and whether it bears a date.
Normalize(model) == [model EXCEPT !.region = "none"]
WithoutDate(model) == [model EXCEPT !.dated = FALSE]

\* The keys that are looked up in the table, in their order.
PriceKeys(model) ==
    LET aliased(m) == SetToSeq({alias[2] : alias \in {a \in Aliases : a[1] = m}})
        norm == Normalize(model)
        stripped == WithoutDate(norm)
    IN  <<model, norm>> \o aliased(norm)
            \o (IF stripped = norm THEN <<>> ELSE <<stripped>> \o aliased(stripped))

\* The price of the first of the keys that hit, or of others.
FirstOr(hits, others) == IF hits = <<>> THEN others ELSE {Table[hits[1]]}

\* The price of a model: none, or one.
Lookup(model, own) ==
    IF Normalize(model) \in {Normalize(m) : m \in own} THEN {CustomPrice}
    ELSE FirstOr(SelectSeq(PriceKeys(model), LAMBDA key : key \in DOMAIN Table),
                 {Fallback[key] : key \in (DOMAIN Fallback) \cap {Normalize(model)}})

\* Output tokens stand for those of reasoning too.
Calculate(price, tokens) ==
    LET cache1h == IF price.cache1h = 0 /\ price.cache5m > 0 THEN 2 * price.input ELSE price.cache1h
    IN  tokens.input * price.input + tokens.output * price.output + tokens.cache5m * price.cache5m
            + tokens.cache1h * cache1h + tokens.read * price.read

\* What a usage costs: as its provider says, or by its tokens, or nothing that
\* is known.  A subscription costs nothing more.
PriceAt(of, billing, mode, prices) ==
    LET usd == CASE of.provided # {} /\ mode # "calculate" -> Sum(LAMBDA c : c, of.provided)
                 [] (of.provided = {} \/ mode = "calculate") /\ mode # "display" ->
                        Sum(LAMBDA p : Calculate(p, of.tokens), prices)
                 [] OTHER -> 0
    IN  [usd |-> usd, marginal |-> IF billing = "subscription" THEN 0 ELSE usd,
         resolved |-> prices # {}]

Price(of, billing, mode, own) == PriceAt(of, billing, mode, Lookup(of.model, own))

\* The rates that are shown: the table, and what only the fallback has.
Entries ==
    {[model |-> m, price |-> Table[m], source |-> "litellm"] : m \in DOMAIN Table}
        \cup {[model |-> m, price |-> Fallback[m], source |-> "openrouter"] : m \in (DOMAIN Fallback) \ DOMAIN Table}

OverriddenEntry(entry) == Normalize(entry.model) \in {Normalize(m) : m \in custom}

-----------------------------------------------------------------------------
(* The summary.                                                             *)

\* What a request may ask for: a range of the server's days.
WindowOf(days) == [from |-> (Days - days) * Day, to |-> Days * Day]
Between(window) == {e \in usage : window.from <= e.time /\ e.time < window.to}

\* The user's day of an instant; the day before the first is -1.
UserDay(t) == (t - Zone + Day) \div Day - 1

AddedTokens(those) ==
    LET total(f(_)) == Sum(LAMBDA e : f(e.of.tokens), those)
    IN  [input |-> total(LAMBDA t : t.input), output |-> total(LAMBDA t : t.output),
         cache5m |-> total(LAMBDA t : t.cache5m), cache1h |-> total(LAMBDA t : t.cache1h),
         read |-> total(LAMBDA t : t.read)]

TokensIn(t) == t.input + t.output + t.cache5m + t.cache1h + t.read

\* Mutant: events are grouped by what the summary shows.
GroupKeyOfRows(e) == <<e.of.agent, e.of.model, e.of.project, UserDay(e.time)>>

GroupKey(e) ==
    <<e.of.agent, e.of.model, e.of.project, UserDay(e.time), e.of.billing, e.of.provided # {}>>

\* Groups of events, each summed up in an event of its own.
UsageAggregates(events) ==
    {LET those == {e \in events : GroupKey(e) = key}
         one == CHOOSE e \in those : TRUE
         provided == {e \in those : e.of.provided # {}}
     IN  [of |-> [one.of EXCEPT !.tokens = AddedTokens(those),
                                !.provided = IF provided = {} THEN {}
                                             ELSE {Sum(LAMBDA e : Sum(LAMBDA c : c, e.of.provided), provided)}],
          day |-> UserDay(one.time), count |-> Cardinality(those)]
        : key \in {GroupKey(e) : e \in events}}

EffectiveBilling(of) == IF of.agent \in DOMAIN prefs THEN prefs[of.agent] ELSE of.billing

\* The sums over some groups.
SumsOf(groups, mode) ==
    LET price(g) == Price(g.of, EffectiveBilling(g.of), mode, custom)
    IN  [cost |-> Sum(LAMBDA g : price(g).usd, groups),
         marginal |-> Sum(LAMBDA g : price(g).marginal, groups),
         tokens |-> Sum(LAMBDA g : TokensIn(g.of.tokens), groups),
         count |-> Sum(LAMBDA g : g.count, groups)]

\* How an agent is billed, as the groups that say so agree.
BillingLabel(groups) ==
    LET said == {IF g.of.agent \in DOMAIN prefs THEN prefs[g.of.agent] ELSE g.of.billing : g \in groups} \ {"unknown"}
    IN  CASE said = {} -> "unknown"
          [] Cardinality(said) = 1 -> CHOOSE billing \in said : TRUE
          [] OTHER -> "mixed"

\* Some programs do not name the model that they used.
Unnamed(model) == model.base = ""

SummarizeAggregates(groups, mode) ==
    LET by(key(_)) == [k \in {key(g) : g \in groups} |-> SumsOf({g \in groups : key(g) = k}, mode)]
    IN  [total |-> SumsOf(groups, mode),
         byAgent |-> by(LAMBDA g : g.of.agent),
         byModel |-> by(LAMBDA g : g.of.model),
         byProject |-> by(LAMBDA g : g.of.project),
         byDay |-> by(LAMBDA g : g.day),
         billing |-> [agent \in {g.of.agent : g \in groups} |->
                         BillingLabel({g \in groups : g.of.agent = agent})],
         unpriced |-> {g.of.model : g \in {h \in groups : /\ ~Price(h.of, h.of.billing, mode, custom).resolved
                                                          /\ ~Unnamed(h.of.model)}}]

UsageEventsSummary(days, mode) == SummarizeAggregates(UsageAggregates(Between(WindowOf(days))), mode)

-----------------------------------------------------------------------------
(* Blocks.                                                                  *)

\* An event that is not in the block starts a new one.
StartsNew(block, t) == t - block.start >= BlockDuration \/ t - block.last >= BlockDuration

BlockStart(blocks, t) == (t \div Hour) * Hour

BuildUsageBlocks(events) ==
    FoldLeft(LAMBDA blocks, e :
                IF blocks = <<>> \/ StartsNew(Last(blocks), e.time)
                THEN Append(blocks, [start |-> BlockStart(blocks, e.time), events |-> {e}, last |-> e.time])
                ELSE Append(Front(blocks), [Last(blocks) EXCEPT !.events = @ \cup {e}, !.last = e.time]),
             <<>>, SetToSortSeq(events, LAMBDA d, e : d.time < e.time))

BlockCost(block, mode) == Sum(LAMBDA e : Price(e.of, EffectiveBilling(e.of), mode, custom).usd, block.events)

\* Several blocks: the last is taken.
ActiveBlocks(blocks, now) ==
    {block \in ToSet(blocks) : /\ block.start <= now /\ now < block.start + BlockDuration
                               /\ now - block.last < BlockDuration}

-----------------------------------------------------------------------------
(* The costs of statistics.  They are of list prices, in the user's days.   *)

AICostWindow(days) == [from |-> Zone + (Days - days) * Day, to |-> Zone + Days * Day]

PriceGroups(groups) == {[group |-> g, usd |-> Price(g.of, g.of.billing, "calculate", {}).usd] : g \in groups}

ToCents(costs) == (2 * Sum(LAMBDA c : c.usd, costs) + Cent) \div (2 * Cent)

\* The last days of a window.
InPeriod(cost, days) == cost.group.day >= Days - days

\* The keys are those of the costs: their tools, or their agents.
BucketCents(costs, key) ==
    LET keys == {key[c] : c \in costs}
    IN  [total |-> ToCents(costs),
         byKey |-> [k \in keys |-> ToCents({c \in costs : key[c] = k})],
         byDay |-> [d \in {c.group.day : c \in costs} |-> ToCents({c \in costs : c.group.day = d})],
         periods |-> [k \in keys |->
                         [days \in 1 .. Days |-> ToCents({c \in costs : key[c] = k /\ InPeriod(c, days)})]]]

HeartbeatAgentForModel(model) == IF model.base = "claude" THEN "anthropic" ELSE "gpt"

\* Rows that have no usage event keep the estimate from heartbeats.
Baked(row, estimate, cents) == IF row \in DOMAIN cents THEN cents[row] ELSE estimate

\* The AI costs, with an estimate of each row; of one project, or of all.
ApplyUsageEventCosts(days, projects, estimate) ==
    LET costs == PriceGroups(UsageAggregates({e \in Between(AICostWindow(days)) : e.of.project \in projects}))
        byTool == BucketCents(costs, [c \in costs |-> c.group.of.agent])
        byAgent == BucketCents(costs, [c \in costs |-> HeartbeatAgentForModel(c.group.of.model)])
    IN  [estimated |-> IF costs = {} THEN estimate ELSE byTool.total,
         agents |-> [a \in {"anthropic", "gpt", "openai"} |-> Baked(a, estimate, byAgent.byKey)],
         days |-> [k \in Days - days .. Days - 1 |-> Baked(k, estimate, byTool.byDay)],
         tools |-> byTool.byKey,
         periods |-> byAgent.periods]

-----------------------------------------------------------------------------
ReportsInit ==
    /\ usage = {} /\ custom = {}
    /\ prefs = [agent \in {} |-> "api"]

\* An event without ids of its provider, if it is sent again, is the same row.
InsertUsageEvent(e) ==
    /\ UsageRows < MaxRows \/ e \in usage
    /\ usage' = usage \cup {e}
    /\ UNCHANGED <<custom, prefs>>

\* One with an id is sent again with other tokens, and replaces its row.
ReplaceUsageEvent(e, of) ==
    /\ of # e.of /\ of.agent = e.of.agent /\ of.model = e.of.model
    /\ usage' = (usage \ {e}) \cup {[e EXCEPT !.of = of]}
    /\ UNCHANGED <<custom, prefs>>

UpsertCustomPricing(model) ==
    /\ UsageRows < MaxRows \/ model \in custom
    /\ custom' = custom \cup {model}
    /\ UNCHANGED <<usage, prefs>>

DeleteCustomPricing(model) ==
    /\ custom' = custom \ {model}
    /\ UNCHANGED <<usage, prefs>>

UpsertBillingPref(agent, billing) ==
    /\ UsageRows < MaxRows \/ agent \in DOMAIN prefs
    /\ prefs' = [a \in (DOMAIN prefs) \cup {agent} |-> IF a = agent THEN billing ELSE prefs[a]]
    /\ UNCHANGED <<usage, custom>>

DeleteBillingPref(agent) ==
    /\ prefs' = [a \in (DOMAIN prefs) \ {agent} |-> prefs[a]]
    /\ UNCHANGED <<usage, custom>>

ReportsNext ==
    \/ \E u \in Usages, t \in Instants : InsertUsageEvent(StoredEvent(u, t))
    \/ \E e \in usage, u \in Usages : ReplaceUsageEvent(e, u)
    \/ \E m \in CustomModels : UpsertCustomPricing(m) \/ DeleteCustomPricing(m)
    \/ \E a \in Agents, b \in BillingTypes : UpsertBillingPref(a, b)
    \/ \E a \in DOMAIN prefs : DeleteBillingPref(a)

ReportsSpec == ReportsInit /\ [][ReportsNext]_reportVars

-----------------------------------------------------------------------------
(* Properties.                                                              *)

EventCost(e, mode) == Price(e.of, EffectiveBilling(e.of), mode, custom)

\* The summary is that of its events, priced one by one, however the database
\* groups them, and each of its breakdowns adds up to its total.  It has no day
\* outside the range but one: the range begins with a day of the server, which
\* is of two days of the user.
SummaryIsSum(summary, events, mode) ==
    LET rows(by) == Sum(LAMBDA k : by[k].cost, DOMAIN by)
    IN  /\ summary.total.cost = Sum(LAMBDA e : EventCost(e, mode).usd, events)
        /\ summary.total.marginal = Sum(LAMBDA e : EventCost(e, mode).marginal, events)
        /\ summary.total.tokens = Sum(LAMBDA e : TokensIn(e.of.tokens), events)
        /\ summary.total.count = Cardinality(events)
        /\ rows(summary.byAgent) = summary.total.cost /\ rows(summary.byModel) = summary.total.cost
        /\ rows(summary.byProject) = summary.total.cost /\ rows(summary.byDay) = summary.total.cost
        /\ DOMAIN summary.byDay \subseteq -1 .. Days - 1
        /\ (Zone = 0) => -1 \notin DOMAIN summary.byDay

\* What an agent is said to be billed as tells what it costs: nothing more with
\* a subscription, everything otherwise, unless some of its events do not say
\* and those are counted in full under the label of the others.
LabelsTellMarginal(summary, events) ==
    LET says(agent) == \A e \in events : e.of.agent = agent => EffectiveBilling(e.of) # "unknown"
    IN  \A agent \in DOMAIN summary.billing :
            LET label == summary.billing[agent]
                row == summary.byAgent[agent]
            IN  /\ (label = "subscription" /\ says(agent)) => row.marginal = 0
                /\ (label \in {"api", "unknown"}) => row.marginal = row.cost
                /\ (agent \in DOMAIN prefs) => label = prefs[agent]

\* Usage that is not counted is listed: a model whose tokens have no price, and
\* only those, whatever the mode, and whether or not the provider gave a cost;
\* but that of a model without a name is listed nowhere.
UnpricedAreListed(summary, events) ==
    summary.unpriced = {m \in {e.of.model : e \in events} : Lookup(m, custom) = {} /\ m.base # ""}

\* Blocks take each event of the window once, lie apart and hold their events;
\* no more than one of them is active.
BlocksPartition(blocks, events) ==
    /\ UNION {blocks[i].events : i \in DOMAIN blocks} = events
    /\ \A i \in DOMAIN blocks :
        /\ \A e \in blocks[i].events : blocks[i].start <= e.time /\ e.time < blocks[i].start + BlockDuration
        /\ \A j \in DOMAIN blocks : i < j => blocks[i].start + BlockDuration <= blocks[j].start
    /\ \A now \in Instants : Cardinality(ActiveBlocks(blocks, now)) <= 1

\* Together the blocks cost what the summary of the same events says.
BlocksCostSummary(blocks, summary, mode) ==
    Sum(LAMBDA i : BlockCost(blocks[i], mode), DOMAIN blocks) = summary.total.cost

\* A shorter window shows the blocks of the longer one, unless it begins within
\* a block: after an event less than the length of a block before.
WindowKeepsBlocks ==
    \A days \in 1 .. Days :
        LET window == WindowOf(days)
            cut == \E e \in usage : e.time < window.from /\ window.from < e.time + BlockDuration
        IN  ~cut => ToSet(BuildUsageBlocks(Between(window))) \subseteq ToSet(BuildUsageBlocks(Between(WindowOf(Days))))

\* The costs of statistics are those of the summary at list prices, if no event
\* lies in the part of a day by which their windows differ.  Their breakdowns
\* differ from them by the rounding of each row, except for rows that keep an
\* estimate; the periods grow with their days, to the whole cost of an agent,
\* and the shortest is today's.
BakeAgrees ==
    \A all \in {{e.of.project : e \in usage}}, events \in {Between(AICostWindow(Days))} :
    \A bake \in {ApplyUsageEventCosts(Days, all, 0)} :
    LET cents(by) == Sum(LAMBDA k : by[k], DOMAIN by)
        near(m, n) == m - n <= Cardinality(events) /\ n - m <= Cardinality(events)
    IN  /\ (events = Between(WindowOf(Days)) /\ custom = {}) =>
            \A summary \in {UsageEventsSummary(Days, "calculate").total.cost} :
                2 * Cent * bake.estimated \in 2 * summary - Cent .. 2 * summary + Cent
        /\ near(cents(bake.agents), bake.estimated) /\ near(cents(bake.days), bake.estimated)
        /\ near(cents(bake.tools), bake.estimated)
        /\ near(Sum(LAMBDA p : ApplyUsageEventCosts(Days, {p}, 0).estimated, all), bake.estimated)
        /\ \A agent \in DOMAIN bake.periods :
            /\ bake.periods[agent][Days] = bake.agents[agent]
            /\ \A days \in 1 .. Days - 1 : bake.periods[agent][days] <= bake.periods[agent][days + 1]
        /\ near(Sum(LAMBDA a : bake.periods[a][1], DOMAIN bake.periods), bake.days[Days - 1])

\* A rate that is shown is the one that is applied, or is marked as overridden;
\* but one of the fallback is not applied if its model has an alias, or, without
\* its date, a price in the table.
RatesShownApply ==
    \A entry \in Entries :
        /\ OverriddenEntry(entry) => Lookup(entry.model, custom) = {CustomPrice}
        /\ ~OverriddenEntry(entry) =>
            \/ Lookup(entry.model, custom) = {entry.price}
            \/ entry.source = "openrouter" /\ \E i \in DOMAIN PriceKeys(entry.model) : PriceKeys(entry.model)[i] \in DOMAIN Table

\* The reports of the same events agree: summary, blocks, statistics and the
\* list of prices.
ReportsAgree ==
    /\ ReportsTypeOK
    /\ \A events \in {Between(WindowOf(Days))} : \A blocks \in {BuildUsageBlocks(events)} :
        /\ BlocksPartition(blocks, events)
        /\ \A mode \in PriceModes : \A summary \in {UsageEventsSummary(Days, mode)} :
            /\ SummaryIsSum(summary, events, mode)
            /\ UnpricedAreListed(summary, events)
            /\ BlocksCostSummary(blocks, summary, mode)
            /\ mode = "auto" => LabelsTellMarginal(summary, events)
    /\ WindowKeepsBlocks
    /\ BakeAgrees /\ RatesShownApply
=============================================================================
