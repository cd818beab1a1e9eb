------------------------------ MODULE ApiServer ------------------------------
(***************************************************************************)
(* The HTTP API of diaspor-api-server: a request passes the auth layer, the    *)
(* per-key token bucket, the per-key daily counter and then its handler; the      *)
(* image handler asks the providers of diaspor-imagegen in the order of a policy.  *)
(* Requests run as tasks of their own; the bucket and the counter are each locked   *)
(* for one step, the day is read before the counter is locked.                     *)
(*                                                                         *)
(* A tick is TickSeconds seconds and a second has SecondParts parts, in one of which *)
(* the time of day is read.  Tokens are counted in sixtieths, so that the refill of  *)
(* a second (PerMinute sixtieths) is a whole number.                              *)
(***************************************************************************)
EXTENDS Integers, Sequences, FiniteSets, TLC, Maps

CONSTANTS ApiTask,       \* tasks that serve requests
          ApiMix,        \* what may come together: [requests, max], requests being
                         \* [key, vertical, exp, signed, route, policy, valid]
          PerMinute, DailyCap, TickSeconds,
          SecondParts,   \* parts of a second the time of day tells apart
          DayTicks,      \* ticks of a day
          MaxClock

ASSUME ApiAssumption == /\ PerMinute \in Nat /\ DailyCap \in Nat /\ TickSeconds \in Nat \ {0}
                        /\ DayTicks \in Nat \ {0} /\ MaxClock \in Nat /\ SecondParts \in Nat \ {0}

VARIABLES clock,
          mix,            \* the requests that come
          rate_buckets,   \* key -> [tokens, last_refill_at]
          daily_counts,   \* key -> [date, count]
          serving,        \* task -> the request it serves and where it is
          served,         \* requests received
          admitted,       \* history: key -> ticks at which a token was taken
          charged         \* history: <<key, date>> -> requests charged to that date's counter

apiVars == <<clock, mix, rate_buckets, daily_counts, serving, served, admitted, charged>>

NoRequest == [key |-> "none", vertical |-> "none", exp |-> 0, signed |-> FALSE, route |-> "none", policy |-> "none", valid |-> FALSE]
Waiting   == [req |-> NoRequest, pc |-> "idle", seen |-> 0, now |-> 0, part |-> 0, left |-> 0, rank |-> << >>, asked |-> << >>, status |-> 0, retry |-> 0, by |-> "none"]

is_allowed_for_credibility(v) == v \in {"coaching", "sport_judging", "interview_platform", "deposition_recording", "research"}

-----------------------------------------------------------------------------
(* TokenBucket and DailyCounter. *)
Least(a, b) == IF a < b THEN a ELSE b
\* Mutant of refill: the time of the refill is not kept.
refill_forgetful(b, now) == [tokens |-> Least(b.tokens + (now - b.last_refill_at) * TickSeconds * PerMinute, 60 * PerMinute),
                             last_refill_at |-> b.last_refill_at]
refill(b, now) == [tokens |-> Least(b.tokens + (now - b.last_refill_at) * TickSeconds * PerMinute, 60 * PerMinute),
                   last_refill_at |-> now]
Bucket(k) == IF k \in DOMAIN rate_buckets THEN rate_buckets[k] ELSE [tokens |-> 60 * PerMinute, last_refill_at |-> clock]
Clamp(n)  == IF n < 1 THEN 1 ELSE n
RetryAfter(tokens) == IF PerMinute = 0 THEN 2^32 - 1 ELSE Clamp((60 - tokens + PerMinute - 1) \div PerMinute)

Day(t) == t \div DayTicks
Rolled(d, today) == IF today > d.date THEN [date |-> today, count |-> 0] ELSE d
Counter(k, today) == IF k \in DOMAIN daily_counts THEN daily_counts[k] ELSE [date |-> today, count |-> 0]
\* In parts of a second: a time of day, and the midnight after it; whole_seconds() cuts off
\* the parts that are left over.
TimeOfDay(t, part) == (t * TickSeconds) * SecondParts + part
Midnight(t)        == ((Day(t) + 1) * DayTicks * TickSeconds) * SecondParts
seconds_until_utc_midnight(t, part) == Clamp((Midnight(t) - TimeOfDay(t, part)) \div SecondParts)

-----------------------------------------------------------------------------
(* ImageStudio: the offline provider is always registered, first. *)
Profile == [local |-> [quality |-> 25, cost |-> 0], openai |-> [quality |-> 89, cost |-> 40], gemini |-> [quality |-> 90, cost |-> 39]]
Registered == <<"local", "openai", "gemini">>
Policies == [cost |-> [by |-> "cost", max |-> 1000], quality |-> [by |-> "quality", max |-> 1000],
             balanced |-> [by |-> "quality", max |-> 39], broke |-> [by |-> "quality", max |-> -1]]
parse_policy(p) == p \in DOMAIN Policies
Affordable(g, p) == Profile[g].cost <= Policies[p].max
Before(g, h, p) ==
    LET a == Profile[g]
        b == Profile[h]
    IN  IF Policies[p].by = "cost" THEN a.cost < b.cost \/ (a.cost = b.cost /\ a.quality > b.quality)
        ELSE a.quality > b.quality \/ (a.quality = b.quality /\ a.cost < b.cost)
ranked_generators(p) == LET able == SelectSeq(Registered, LAMBDA g : Affordable(g, p))
                        IN  SortSeq(able, LAMBDA g, h : Before(g, h, p))

-----------------------------------------------------------------------------
ApiIs(w, pc)     == serving[w].pc = pc
Req(w)        == serving[w].req
ApiSet(w, r)     == serving' = [serving EXCEPT ![w] = r]
Reply(w, s)   == ApiSet(w, [serving[w] EXCEPT !.pc = "answered", !.status = s])
Refused(w, n) == ApiSet(w, [serving[w] EXCEPT !.pc = "answered", !.status = 429, !.retry = n, !.by = "day"])
ApiQuiet         == UNCHANGED <<clock, mix, served>>
NoGates       == UNCHANGED <<rate_buckets, daily_counts, admitted, charged>>

Tick == clock < MaxClock /\ clock' = clock + 1 /\ UNCHANGED <<mix, rate_buckets, daily_counts, serving, served, admitted, charged>>

\* The router: the health probe is outside both layers.
Receive(w) ==
    /\ ApiIs(w, "idle") /\ served < mix.max /\ served' = served + 1
    /\ \E r \in mix.requests : ApiSet(w, [Waiting EXCEPT !.req = r, !.pc = IF r.route = "health" THEN "answered" ELSE "auth",
                                                    !.status = IF r.route = "health" THEN 200 ELSE 0])
    /\ UNCHANGED <<clock, mix>> /\ NoGates

TokenAccepted(r) == r.signed /\ clock <= r.exp
auth_middleware(w) ==
    /\ ApiIs(w, "auth") /\ ApiQuiet /\ NoGates
    /\ IF TokenAccepted(Req(w)) THEN ApiSet(w, [serving[w] EXCEPT !.pc = "bucket", !.seen = clock]) ELSE Reply(w, 401)

try_consume(w) ==
    /\ ApiIs(w, "bucket") /\ ApiQuiet /\ UNCHANGED <<daily_counts, charged>>
    /\ LET k == Req(w).key
           b == refill(Bucket(k), clock)
       IN  IF b.tokens >= 60
           THEN /\ rate_buckets' = Entered(rate_buckets, k, [b EXCEPT !.tokens = @ - 60])
                /\ ApiSet(w, [serving[w] EXCEPT !.pc = "day"])
                /\ admitted' = [admitted EXCEPT ![k] = Append(@, clock)]
           ELSE /\ rate_buckets' = Entered(rate_buckets, k, b) /\ UNCHANGED admitted
                /\ ApiSet(w, [serving[w] EXCEPT !.pc = "answered", !.status = 429, !.retry = RetryAfter(b.tokens), !.left = b.tokens, !.by = "bucket"])

\* The day is read before the counter's entry is locked.
ReadDay(w) ==
    /\ ApiIs(w, "day") /\ ApiQuiet /\ NoGates
    /\ \E part \in 0 .. SecondParts - 1 : ApiSet(w, [serving[w] EXCEPT !.now = clock, !.part = part, !.pc = "cap"])

try_increment(w) ==
    /\ ApiIs(w, "cap") /\ ApiQuiet /\ UNCHANGED <<rate_buckets, admitted>>
    /\ LET k == Req(w).key
           d == Rolled(Counter(k, Day(serving[w].now)), Day(serving[w].now))
       IN  IF d.count >= DailyCap
           THEN /\ daily_counts' = Entered(daily_counts, k, d) /\ UNCHANGED charged
                /\ Refused(w, seconds_until_utc_midnight(serving[w].now, serving[w].part))
           ELSE /\ daily_counts' = Entered(daily_counts, k, [d EXCEPT !.count = @ + 1])
                /\ charged' = Entered(charged, <<k, d.date>>, 1 + (IF <<k, d.date>> \in DOMAIN charged THEN charged[<<k, d.date>>] ELSE 0))
                /\ ApiSet(w, [serving[w] EXCEPT !.pc = "run", !.now = 0, !.part = 0])

\* The handlers: all but the images are stubs; credibility looks at the vertical first.
vertical_check(v) == is_allowed_for_credibility(v)
RunHandler(w) ==
    /\ ApiIs(w, "run") /\ ApiQuiet /\ NoGates
    /\ CASE Req(w).route = "credibility" -> IF vertical_check(Req(w).vertical) THEN Reply(w, 501) ELSE Reply(w, 403)
         [] Req(w).route = "images" ->
               IF ~parse_policy(Req(w).policy) THEN Reply(w, 400)
               ELSE ApiSet(w, [serving[w] EXCEPT !.pc = "generate", !.rank = ranked_generators(Req(w).policy)])
         [] OTHER -> Reply(w, 501)

\* Every provider validates the request first; the offline one then draws, the
\* others post it and may get an image, an error, or no answer: there is no timeout.
local_generate(r)  == IF r.valid THEN {"image"} ELSE {"error"}
gemini_generate(r) == IF r.valid THEN {"image", "error", "silence"} ELSE {"error"}
openai_generate(r) == IF r.valid THEN {"image", "error", "silence"} ELSE {"error"}
Outcome(g, r) == CASE g = "local" -> local_generate(r) [] g = "gemini" -> gemini_generate(r) [] g = "openai" -> openai_generate(r)

\* One provider after the other.
GenerateNext(w) ==
    /\ ApiIs(w, "generate") /\ ApiQuiet /\ NoGates
    /\ IF serving[w].rank = << >> THEN Reply(w, 500)
       ELSE LET g == Head(serving[w].rank)
            IN  \E o \in Outcome(g, Req(w)) :
                   ApiSet(w, CASE o = "image" -> [serving[w] EXCEPT !.pc = "answered", !.status = 200, !.asked = Append(@, g)]
                               [] o = "error" -> [serving[w] EXCEPT !.rank = Tail(@), !.asked = Append(@, g)]
                               [] OTHER -> [serving[w] EXCEPT !.pc = "silence", !.asked = Append(@, g)])

\* A request that waits for a silent provider ends when its client gives up.
Dispatched(w) == (ApiIs(w, "answered") \/ ApiIs(w, "silence")) /\ ApiSet(w, Waiting) /\ ApiQuiet /\ NoGates

ApiInit == /\ mix \in ApiMix /\ clock = 0 /\ rate_buckets = << >> /\ daily_counts = << >> /\ serving = [w \in ApiTask |-> Waiting] /\ served = 0
           /\ admitted = [k \in {r.key : r \in mix.requests} |-> << >>] /\ charged = << >>
Serve(w) == \/ auth_middleware(w) \/ try_consume(w) \/ ReadDay(w) \/ try_increment(w) \/ RunHandler(w) \/ GenerateNext(w) \/ Dispatched(w)
ApiNext == Tick \/ \E w \in ApiTask : Receive(w) \/ Serve(w)
ApiSpec == ApiInit /\ [][ApiNext]_apiVars

-----------------------------------------------------------------------------
(* Properties *)
Between(k, i, j) == (admitted[k][j] - admitted[k][i]) * TickSeconds * PerMinute

\* However the requests of a key interleave, between any two of its admissions no more
\* requests got a token than a full bucket and the refill of that time pay for, and no
\* more were charged to a day's counter than the cap, also around midnight, when a request
\* that read the old day meets the new day's counter.
QuotasHold ==
    /\ \A k \in DOMAIN admitted : \A j \in DOMAIN admitted[k] : \A i \in 1 .. j :
          60 * (j - i + 1) <= 60 * PerMinute + Between(k, i, j)
    /\ \A c \in DOMAIN charged : charged[c] <= DailyCap

\* A request that was answered by a handler had a token whose expiry had not passed when
\* it was looked at; one that was told to wait would find a token after that time and not a
\* second earlier; one over the daily cap is sent to less than a second before or after
\* the midnight that clears its counter (before, as the parts of a second are cut off: it
\* may be refused once more); credibility answers no refused vertical.
AnswersRight ==
    \A w \in ApiTask : ApiIs(w, "answered") =>
        LET s == serving[w]
        IN  /\ s.by = "bucket" /\ PerMinute > 0 =>
                   s.left + s.retry * PerMinute >= 60 /\ (s.retry > 1 => s.left + (s.retry - 1) * PerMinute < 60)
            /\ s.by = "day" => LET back == TimeOfDay(s.now, s.part) + s.retry * SecondParts
                               IN  Midnight(s.now) - SecondParts < back /\ back < Midnight(s.now) + SecondParts
            /\ s.status \in {200, 400, 403, 500, 501} /\ s.req.route # "health" => s.req.signed /\ s.seen <= s.req.exp
            /\ s.status = 501 /\ s.req.route = "credibility" => s.req.vertical \notin {"forensic", "hiring", "insurance", "law_enforcement", "eu_workplace", "eu_education"}

\* Whatever requests run at once, the limits hold and the answers are right
\* (rate_limit.rs, middleware.rs).
ApiSafe == QuotasHold /\ AnswersRight

\* A well-formed image request gets its image whatever errors the paid providers answer,
\* unless its policy affords no provider; only one that never answers at all keeps it. No
\* provider over the budget is asked, none twice, and one is asked only after every
\* provider its policy prefers answered with an error.
ImagesAnswered ==
    \A w \in ApiTask : Req(w).route = "images" /\ (ApiIs(w, "answered") \/ ApiIs(w, "silence")) =>
        LET s == serving[w]
            gs == {s.asked[i] : i \in DOMAIN s.asked}
            p == s.req.policy
        IN  /\ s.status = 500 => ~s.req.valid \/ \A g \in DOMAIN Profile : Profile[g].cost > Policies[p].max
            /\ ApiIs(w, "silence") => s.asked[Len(s.asked)] \in {"openai", "gemini"}
            /\ s.status = 200 \/ ApiIs(w, "silence") => \A g \in DOMAIN Profile : Profile[g].cost <= Policies[p].max /\ Before(g, s.asked[Len(s.asked)], p) => g \in gs
            /\ \A g \in gs : Profile[g].cost <= Policies[p].max
            /\ Cardinality(gs) = Len(s.asked)
=============================================================================
