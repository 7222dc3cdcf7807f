--------------------------- MODULE PricePageProofs ---------------------------
(***************************************************************************)
(* What the page shows of the prices, proved for any providers, stored     *)
(* books, maximal age and (within their order) durations.                  *)
(*                                                                         *)
(* Good(data) says what an answer is worth by itself: its rows, ages and   *)
(* status belong to one instant.  What the page derives from it later is a *)
(* matter of that instant, of when it came, and of the clock.              *)
(***************************************************************************)
EXTENDS PricePage, FiniteSetTheorems, TLAPS

Pages ==
    [running : BOOLEAN, data : Answers \union {None}, received : Nat,
     price_error : BOOLEAN, presence_error : BOOLEAN,
     startup : Requests \union {None}, price : Requests \union {None},
     timer : Nat \union {None}, strays : SUBSET Nat]

(* The stored rows an answer was made from.                                *)
RowsOf(data) == {[source |-> source.source, at |-> source.at] : source \in data.sources}

Good(data) ==
    /\ data \in Answers
    /\ \A source \in data.sources :
         source = F!SourceResponse([source |-> source.source, at |-> source.at],
                                   data.evaluated_at)
    /\ data.contributing = F!Contributors(RowsOf(data), data.evaluated_at)
    /\ data.status = Reported(F!PriceStatus(RowsOf(data), data.health, data.evaluated_at),
                              data.errors)
    /\ data.http = 503 => data.sources = {}

-----------------------------------------------------------------------------
(* The inductive invariant.                                                *)

ServerInv ==
    /\ clock \in Nat /\ shown \in Nat /\ shown <= clock
    /\ \A s \in DOMAIN quotes : s \in Sources /\ quotes[s] \in Instants
    /\ marks \in Healths

(* What a page holds came within the deadline of its request.              *)
DataFits(p) ==
    p.data # None =>
        /\ Good(p.data)
        /\ p.data.evaluated_at <= p.received
        /\ p.received <= p.data.evaluated_at + PriceTimeout

InTime(request, timeout, now) ==
    request # None =>
        /\ request.since <= now /\ now <= request.since + timeout
        /\ request.answer # None =>
             /\ Good(request.answer)
             /\ request.since <= request.answer.evaluated_at
             /\ request.answer.evaluated_at <= now

(* A hidden page waits for no more than an aborted request; what was asked *)
(* in an earlier period was asked before this one.                         *)
LoopFits(p, now, start) ==
    /\ ~ p.running => /\ p.startup = None /\ p.timer = None
                      /\ p.price # None => ~ p.price.current
    /\ p.startup # None => p.startup.since <= start
    /\ p.running /\ p.price # None /\ ~ p.price.current => p.price.since <= start
    /\ p.timer # None => now <= p.timer /\ p.timer <= now + Cadence

(* The last news: an answer, or the page's being shown again.              *)
Last(p, start) == IF p.received > start THEN p.received ELSE start

(* Without an error, the next question is soon after the last news.        *)
NewsFits(p, start) ==
    p.running /\ ~ p.price_error =>
        /\ p.timer # None => p.timer <= Last(p, start) + PresenceTimeout + Cadence
        /\ p.price # None => p.price.since <= Last(p, start) + PresenceTimeout + Cadence

Fits(p, now, start) ==
    /\ p \in Pages /\ p.received <= now /\ start <= now
    /\ DataFits(p) /\ LoopFits(p, now, start) /\ NewsFits(p, start)
    /\ InTime(p.price, PriceTimeout, now) /\ InTime(p.startup, PresenceTimeout, now)

(* The loop of a page that runs: something of it is always under way.      *)
Alive(p) == p.running => p.startup # None \/ p.price # None \/ p.timer # None

PriceInv == ServerInv /\ Fits(page, clock, shown) /\ Alive(page)

-----------------------------------------------------------------------------
LEMMA Durations ==
    /\ MaxAge \in Nat /\ Cadence \in Nat /\ StartupDelay \in Nat
    /\ PresenceTimeout \in Nat /\ PriceTimeout \in Nat
    /\ StartupDelay <= Cadence
    /\ PresenceTimeout <= PriceTimeout /\ PriceTimeout <= PresenceTimeout + Cadence
<1>1. {MaxAge, Cadence, StartupDelay, PresenceTimeout, PriceTimeout} \subseteq Nat
  BY PageAssumption
<1>2. /\ StartupDelay <= Cadence
      /\ PresenceTimeout <= PriceTimeout /\ PriceTimeout <= PresenceTimeout + Cadence
  BY PageAssumption
<1> QED
  BY <1>1, <1>2

LEMMA Nothing ==
    None \notin Nat /\ None \notin Answers /\ None \notin Requests
  BY PageAssumption

-----------------------------------------------------------------------------
(* What freshness.rs says of one instant.                                  *)

StoredRows == [source : Sources, at : Instants]

LEMMA ResponseShape ==
    ASSUME NEW row \in StoredRows, NEW unix \in Nat
    PROVE  /\ F!SourceResponse(row, unix) \in
                [source : Sources, at : Instants, age : Instants,
                 freshness : {"FRESH", "STALE", "FUTURE", "UNKNOWN"}]
           /\ F!SourceResponse(row, unix).source = row.source
           /\ F!SourceResponse(row, unix).at = row.at
<1>1. row.source \in Sources /\ row.at \in Instants
  BY DEF StoredRows
<1>2. F!Age(row, unix) \in Instants
  BY <1>1 DEF F!Age, Instants
<1>3. F!SourceFreshness(row, unix) \in {"FRESH", "STALE", "FUTURE", "UNKNOWN"}
  BY DEF F!SourceFreshness
<1> QED
  BY <1>1, <1>2, <1>3 DEF F!SourceResponse

(* Contributors are configured; without rows there are none.               *)
LEMMA ContributorsShape ==
    ASSUME NEW rows, NEW unix
    PROVE  /\ F!Contributors(rows, unix) \subseteq Configured
           /\ rows = {} => F!Contributors(rows, unix) = {}
  BY DEF F!Contributors

LEMMA StatusShape ==
    ASSUME NEW rows, NEW health, NEW unix
    PROVE  /\ F!PriceStatus(rows, health, unix) \in {"LIVE", "DEGRADED", "STALE", "UNAVAILABLE"}
           /\ rows = {} => F!PriceStatus(rows, health, unix) = "UNAVAILABLE"
           /\ rows # {} => F!PriceStatus(rows, health, unix) # "UNAVAILABLE"
           /\ F!Contributors(rows, unix) # {} =>
                F!PriceStatus(rows, health, unix) \in {"LIVE", "DEGRADED"}
           /\ F!PriceStatus(rows, health, unix) = "LIVE" <=>
                F!Contributors(rows, unix) = Configured /\ F!AllHealthy(health)
<1>1. Configured # {}
  BY PageAssumption
<1>2. rows = {} => F!Contributors(rows, unix) = {}
  BY ContributorsShape
<1> QED
  BY <1>1, <1>2 DEF F!PriceStatus

LEMMA ReportedShape ==
    ASSUME NEW status \in {"LIVE", "DEGRADED", "STALE", "UNAVAILABLE"}, NEW errors \in BOOLEAN
    PROVE  /\ Reported(status, errors) \in {"LIVE", "DEGRADED", "STALE", "UNAVAILABLE"}
           /\ Reported(status, errors) = "UNAVAILABLE" <=> status = "UNAVAILABLE"
           /\ Reported(status, errors) = "STALE" <=> status = "STALE"
           /\ Reported(status, errors) = "LIVE" <=> status = "LIVE" /\ ~ errors
  BY DEF Reported

(* Every answer of the server is good for the instant it was made.         *)
LEMMA AnswerGood ==
    ASSUME ServerInv, NEW readable \in BOOLEAN, NEW reported \in BOOLEAN
    PROVE  /\ Good(Answer(readable, reported))
           /\ Answer(readable, reported).evaluated_at = clock
<1> DEFINE rows == IF readable THEN Rows ELSE {}
           health == IF readable THEN marks ELSE [p \in {} |-> "SUCCESS"]
           status == F!PriceStatus(rows, health, clock)
           errors == reported /\ status = "LIVE"
           answer == Answer(readable, reported)
<1>1. clock \in Nat
  BY DEF ServerInv
<1>2. rows \subseteq StoredRows
  BY DEF ServerInv, Rows, StoredRows
<1>3. health \in Healths
  <2>1. [p \in {} |-> "SUCCESS"] \in [{} -> {"SUCCESS", "FAILURE"}]
    OBVIOUS
  <2>2. {} \in SUBSET Configured
    OBVIOUS
  <2>3. [p \in {} |-> "SUCCESS"] \in Healths
    BY <2>1, <2>2 DEF Healths
  <2> QED
    BY <2>3 DEF ServerInv
<1> HIDE DEF rows, health
<1>4. status \in {"LIVE", "DEGRADED", "STALE", "UNAVAILABLE"}
  BY StatusShape
<1>5. errors \in BOOLEAN
  OBVIOUS
<1>6. answer = [http |-> IF ~ readable THEN 500 ELSE IF rows = {} THEN 503 ELSE 200,
                status |-> Reported(status, errors),
                sources |-> {F!SourceResponse(row, clock) : row \in rows},
                contributing |-> F!Contributors(rows, clock),
                health |-> health,
                errors |-> errors,
                evaluated_at |-> clock]
  BY DEF Answer, rows, health
<1> HIDE DEF status, errors, answer
<1>7. /\ answer.http = IF ~ readable THEN 500 ELSE IF rows = {} THEN 503 ELSE 200
      /\ answer.status = Reported(status, errors)
      /\ answer.sources = {F!SourceResponse(row, clock) : row \in rows}
      /\ answer.contributing = F!Contributors(rows, clock)
      /\ answer.health = health /\ answer.errors = errors /\ answer.evaluated_at = clock
  BY <1>6
<1>8. answer \in Answers
  <2>1. Reported(status, errors) \in {"LIVE", "DEGRADED", "STALE", "UNAVAILABLE"}
    BY <1>4, <1>5, ReportedShape
  <2>2. {F!SourceResponse(row, clock) : row \in rows} \in
          SUBSET [source : Sources, at : Instants, age : Instants,
                  freshness : {"FRESH", "STALE", "FUTURE", "UNKNOWN"}]
    BY <1>1, <1>2, ResponseShape
  <2>3. F!Contributors(rows, clock) \in SUBSET Configured
    BY ContributorsShape
  <2> QED
    BY <1>1, <1>3, <1>5, <1>6, <2>1, <2>2, <2>3 DEF Answers
<1>9. \A row \in rows :
        /\ F!SourceResponse(row, clock).source = row.source
        /\ F!SourceResponse(row, clock).at = row.at
        /\ row = [source |-> row.source, at |-> row.at]
  BY <1>1, <1>2, ResponseShape DEF StoredRows
<1>10. \A source \in answer.sources : \E row \in rows :
         /\ source = F!SourceResponse(row, clock)
         /\ row = [source |-> source.source, at |-> source.at]
  BY <1>7, <1>9
<1>11. \A row \in rows : \E source \in answer.sources :
         row = [source |-> source.source, at |-> source.at]
  BY <1>7, <1>9
<1>12. RowsOf(answer) = rows
  BY <1>10, <1>11 DEF RowsOf
<1>13. \A source \in answer.sources :
         source = F!SourceResponse([source |-> source.source, at |-> source.at], clock)
  BY <1>10
<1>14. answer.http = 503 => answer.sources = {}
  BY <1>7
<1>15. Good(answer)
  BY <1>7, <1>8, <1>12, <1>13, <1>14 DEF Good, status
<1> QED
  BY <1>7, <1>15 DEF answer

(* The page can read a good answer; a 503 says that there is no price.     *)
LEMMA GoodValid ==
    ASSUME NEW data, Good(data)
    PROVE  /\ Validates(data)
           /\ data.http # 500 => Accepted(data)
<1>1. /\ data \in Answers /\ data.evaluated_at \in Nat /\ data # None
      /\ data.status \in {"LIVE", "DEGRADED", "STALE", "UNAVAILABLE"}
      /\ data.http \in {200, 500, 503} /\ data.contributing \subseteq Configured
      /\ data.errors \in BOOLEAN
  BY Nothing DEF Good, Answers
<1>2. Cardinality(data.contributing) <= Cardinality(Configured)
  BY <1>1, PageAssumption, FS_Subset
<1>3. ASSUME NEW source \in data.sources
      PROVE  /\ source.freshness \in {"FRESH", "STALE", "FUTURE", "UNKNOWN"}
             /\ source.age # None => source.age >= 0
             /\ source.freshness = "FRESH" => source.age # None
  <2> DEFINE row == [source |-> source.source, at |-> source.at]
  <2>1. /\ source.freshness \in {"FRESH", "STALE", "FUTURE", "UNKNOWN"}
        /\ source.age \in Instants /\ source.at \in Instants
    BY <1>1 DEF Answers
  <2>2. source = F!SourceResponse(row, data.evaluated_at)
    BY DEF Good
  <2>3. row.at = source.at /\ row.source = source.source
    OBVIOUS
  <2> HIDE DEF row
  <2>4. /\ source.age = F!Age(row, data.evaluated_at)
        /\ source.freshness = F!SourceFreshness(row, data.evaluated_at)
    BY <2>2 DEF F!SourceResponse
  <2>5. source.age # None => source.age >= 0
    BY <2>1 DEF Instants
  <2>6. source.freshness = "FRESH" =>
          row.at \in Nat /\ ~ (row.at > data.evaluated_at)
    BY <2>1, <2>3, <2>4 DEF F!SourceFreshness, Instants
  <2>7. source.freshness = "FRESH" => source.age \in Nat
    BY <1>1, <2>4, <2>6, Nothing DEF F!Age
  <2> QED
    BY <2>1, <2>5, <2>7, Nothing
<1>4. Validates(data)
  BY <1>1, <1>2, <1>3 DEF Validates
<1>5. data.http = 503 => data.status = "UNAVAILABLE"
  <2> SUFFICES ASSUME data.http = 503 PROVE data.status = "UNAVAILABLE"
    OBVIOUS
  <2>1. RowsOf(data) = {}
    BY DEF Good, RowsOf
  <2>2. F!PriceStatus(RowsOf(data), data.health, data.evaluated_at) = "UNAVAILABLE"
    BY <2>1, StatusShape
  <2> QED
    BY <2>2 DEF Good, Reported
<1> QED
  BY <1>1, <1>4, <1>5 DEF Accepted

-----------------------------------------------------------------------------
(* What render makes of an answer that is good.                            *)

(* A counted quote was fresh at the instant of the answer, and its age     *)
(* with the time since it came is still below the maximal age.             *)
LEMMA CountedFresh ==
    ASSUME PriceInv, page.data # None, NEW source \in Counted
    PROVE  /\ source \in page.data.sources /\ source.source \in Configured
           /\ source.at \in Nat /\ source.at <= page.data.evaluated_at
           /\ page.data.evaluated_at - source.at + (clock - page.received) < MaxAge
<1> DEFINE row == [source |-> source.source, at |-> source.at]
<1>1. /\ source \in page.data.sources /\ source.source \in page.data.contributing
      /\ source.freshness = "FRESH" /\ ~ (source.age + elapsed >= MaxAge)
  BY DEF Counted, Aged
<1>2. /\ Good(page.data) /\ page.data \in Answers
  BY DEF PriceInv, Fits, DataFits, Good
<1>3. /\ page.data.evaluated_at \in Nat /\ page.data.contributing \subseteq Configured
      /\ source.at \in Instants
  BY <1>1, <1>2 DEF Answers
<1>4. source = F!SourceResponse(row, page.data.evaluated_at)
  BY <1>1, <1>2 DEF Good
<1>5. row.at = source.at /\ row.source = source.source
  OBVIOUS
<1> HIDE DEF row
<1>6. /\ source.age = F!Age(row, page.data.evaluated_at)
      /\ source.freshness = F!SourceFreshness(row, page.data.evaluated_at)
  BY <1>4 DEF F!SourceResponse
<1>7. source.at # None /\ ~ (source.at > page.data.evaluated_at)
  BY <1>1, <1>5, <1>6 DEF F!SourceFreshness
<1>8. source.at \in Nat
  BY <1>3, <1>7 DEF Instants
<1>9. source.age = page.data.evaluated_at - source.at
  BY <1>5, <1>6, <1>7 DEF F!Age
<1>10. clock \in Nat /\ page.received \in Nat /\ MaxAge \in Nat
  BY Durations DEF PriceInv, ServerInv, Fits, Pages
<1> QED
  BY <1>1, <1>3, <1>7, <1>8, <1>9, <1>10 DEF elapsed

LEMMA HeldIsRowsOf == Held = RowsOf(page.data)
BY DEF Held, RowsOf

(* The displayed average is made of what the server would still count.     *)
LEMMA CountedContribute ==
    ASSUME PriceInv, page.data # None
    PROVE  {source.source : source \in Counted}
              \subseteq F!Contributors(Held, page.data.evaluated_at + elapsed)
<1> DEFINE then == page.data.evaluated_at + elapsed
<1>1. /\ clock \in Nat /\ page.received \in Nat /\ page.received <= clock
      /\ MaxAge \in Nat
  BY Durations DEF PriceInv, ServerInv, Fits, Pages
<1>2. page.data.evaluated_at \in Nat
  BY DEF PriceInv, Fits, DataFits, Good, Answers
<1> SUFFICES ASSUME NEW source \in Counted
             PROVE  source.source \in F!Contributors(Held, then)
  OBVIOUS
<1> DEFINE row == [source |-> source.source, at |-> source.at]
<1>3. /\ source \in page.data.sources /\ source.source \in Configured
      /\ source.at \in Nat /\ source.at <= page.data.evaluated_at
      /\ page.data.evaluated_at - source.at + (clock - page.received) < MaxAge
  BY CountedFresh
<1>4. row \in Held
  BY <1>3 DEF Held
<1>5. row.at = source.at /\ row.source = source.source
  OBVIOUS
<1>6. then \in Nat /\ ~ (source.at > then) /\ then - source.at < MaxAge
  BY <1>1, <1>2, <1>3 DEF elapsed
<1>7. source.at # None
  BY <1>3, Nothing
<1> HIDE DEF row, then
<1>8. F!SourceFreshness(row, then) = "FRESH"
  BY <1>3, <1>5, <1>6, <1>7 DEF F!SourceFreshness
<1> QED
  BY <1>3, <1>4, <1>5, <1>8 DEF F!Contributors

LEMMA RankShape ==
    /\ Rank("LIVE") = 3 /\ Rank("DEGRADED") = 2 /\ Rank("STALE") = 1
    /\ Rank("UNAVAILABLE") = 0 /\ Rank("OFFLINE") = 0
BY DEF Rank

(* The badge is no better than the status the server would give the same   *)
(* quotes and health at its own clock.                                     *)
LEMMA LabelBounded ==
    ASSUME PriceInv, page.running, page.data # None
    PROVE  Rank(Label) <= Rank(Reported(F!PriceStatus(Held, page.data.health,
                                                      page.data.evaluated_at + elapsed),
                                        page.data.errors))
<1> DEFINE data == page.data
           then == data.evaluated_at + elapsed
           counted == {source.source : source \in Counted}
           count == Cardinality(counted)
           aged == IF data.sources # {} /\ count = 0 THEN "STALE"
                   ELSE IF data.status = "LIVE" /\ count < Cardinality(Configured) THEN "DEGRADED"
                   ELSE data.status
           now == F!PriceStatus(Held, data.health, then)
           first == F!PriceStatus(Held, data.health, data.evaluated_at)
           served == Reported(now, data.errors)
<1>1. Label = IF page.price_error THEN "OFFLINE"
              ELSE IF page.presence_error /\ aged = "LIVE" THEN "DEGRADED"
              ELSE aged
  BY DEF Label
<1>2. counted \subseteq F!Contributors(Held, then)
  BY CountedContribute
<1>3. /\ data.errors \in BOOLEAN
      /\ data.status = Reported(first, data.errors)
      /\ IsFiniteSet(Configured)
  BY HeldIsRowsOf, PageAssumption DEF PriceInv, Fits, DataFits, Good, Answers
<1>4. F!Contributors(Held, then) \subseteq Configured
  BY ContributorsShape
<1>5. /\ IsFiniteSet(counted) /\ count \in Nat /\ Cardinality(Configured) \in Nat
      /\ count = 0 <=> counted = {}
      /\ count < Cardinality(Configured) \/ counted = Configured
  <2>1. counted \subseteq Configured
    BY <1>2, <1>4
  <2> HIDE DEF counted
  <2>2. /\ IsFiniteSet(counted) /\ Cardinality(counted) <= Cardinality(Configured)
        /\ Cardinality(counted) = Cardinality(Configured) => counted = Configured
    BY <1>3, <2>1, FS_Subset
  <2>3. Cardinality(counted) \in Nat /\ Cardinality(Configured) \in Nat
    BY <1>3, <2>2, FS_CardinalityType
  <2>4. Cardinality(counted) = 0 <=> counted = {}
    BY <2>2, FS_EmptySet
  <2> QED
    BY <2>2, <2>3, <2>4
<1>6. Held = {} <=> data.sources = {}
  BY DEF Held
<1> HIDE DEF counted, count
<1>7. /\ now \in {"LIVE", "DEGRADED", "STALE", "UNAVAILABLE"}
      /\ Held # {} => now # "UNAVAILABLE"
      /\ F!Contributors(Held, then) # {} => now \in {"LIVE", "DEGRADED"}
      /\ now = "LIVE" <=> F!Contributors(Held, then) = Configured /\ F!AllHealthy(data.health)
  BY StatusShape
<1>8. /\ first \in {"LIVE", "DEGRADED", "STALE", "UNAVAILABLE"}
      /\ Held = {} => first = "UNAVAILABLE"
      /\ first = "LIVE" <=>
           F!Contributors(Held, data.evaluated_at) = Configured /\ F!AllHealthy(data.health)
  BY StatusShape
<1> HIDE DEF now, first, then, data
<1>9. /\ served \in {"LIVE", "DEGRADED", "STALE", "UNAVAILABLE"}
      /\ served = "UNAVAILABLE" <=> now = "UNAVAILABLE"
      /\ served = "STALE" <=> now = "STALE"
      /\ served = "LIVE" <=> now = "LIVE" /\ ~ data.errors
  BY <1>3, <1>7, ReportedShape
<1>10. /\ data.status \in {"LIVE", "DEGRADED", "STALE", "UNAVAILABLE"}
       /\ data.status = "UNAVAILABLE" <=> first = "UNAVAILABLE"
       /\ data.status = "LIVE" <=> first = "LIVE" /\ ~ data.errors
  BY <1>3, <1>8, ReportedShape
<1> HIDE DEF served
<1>11. CASE data.sources = {}
  <2>1. aged = "UNAVAILABLE"
    BY <1>6, <1>8, <1>10, <1>11
  <2>2. Label \in {"OFFLINE", "UNAVAILABLE"}
    BY <1>1, <2>1
  <2>3. Rank(Label) = 0 /\ Rank(served) \in 0 .. 3
    BY <1>9, <2>2, RankShape
  <2> QED
    BY <2>3 DEF served, now, then, data
<1>12. CASE data.sources # {} /\ counted = {}
  <2>1. aged = "STALE"
    BY <1>5, <1>12
  <2>2. Label \in {"OFFLINE", "STALE"}
    BY <1>1, <2>1
  <2>3. served # "UNAVAILABLE"
    BY <1>6, <1>7, <1>9, <1>12
  <2>4. Rank(Label) \in 0 .. 1 /\ Rank(served) \in 1 .. 3
    BY <1>9, <2>2, <2>3, RankShape
  <2> QED
    BY <2>4 DEF served, now, then, data
<1>13. CASE counted # {} /\ Label # "LIVE"
  <2>1. served \in {"LIVE", "DEGRADED"}
    BY <1>2, <1>7, <1>9, <1>13
  <2>2. Label \in {"OFFLINE", "DEGRADED", "STALE", "UNAVAILABLE"}
    BY <1>1, <1>10, <1>13
  <2>3. Rank(Label) \in 0 .. 2 /\ Rank(served) \in 2 .. 3
    BY <2>1, <2>2, RankShape
  <2> QED
    BY <2>3 DEF served, now, then, data
<1>14. CASE counted # {} /\ Label = "LIVE"
  <2>1. data.status = "LIVE" /\ counted = Configured
    BY <1>1, <1>5, <1>14
  <2>2. F!Contributors(Held, then) = Configured
    BY <1>2, <1>4, <2>1
  <2>3. served = "LIVE"
    BY <1>7, <1>8, <1>9, <1>10, <2>1, <2>2
  <2> QED
    BY <1>14, <2>3, RankShape DEF served, now, then, data
<1> QED
  BY <1>11, <1>12, <1>13, <1>14

-----------------------------------------------------------------------------
(* The page's functions.                                                   *)

LEMMA RequestShape ==
    ASSUME clock \in Nat
    PROVE  /\ Request(clock) \in Requests /\ Request(clock) # None
           /\ Request(clock).since = clock /\ Request(clock).current
           /\ Request(clock).answer = None
<1>1. Request(clock) \in Requests
  BY DEF Request, Requests
<1> QED
  BY <1>1, Nothing DEF Request

(* To forget a request, an answer or a timer, or to note an error, never   *)
(* harms.                                                                  *)
LEMMA Drops ==
    ASSUME NEW now, NEW start, NEW p, Fits(p, now, start), NEW q \in Pages,
           q.running = p.running, q.data = p.data, q.received = p.received,
           q.price_error = p.price_error \/ q.price_error,
           q.price \in {p.price, None}, q.startup \in {p.startup, None},
           q.timer \in {p.timer, None}
    PROVE  Fits(q, now, start)
<1>1. q.received <= now /\ start <= now /\ DataFits(q)
  BY DEF Fits, DataFits
<1>2. LoopFits(q, now, start)
  BY DEF Fits, LoopFits
<1>3. Last(q, start) = Last(p, start)
  BY DEF Last
<1>4. NewsFits(q, start)
  BY <1>3 DEF Fits, NewsFits
<1>5. InTime(q.price, PriceTimeout, now) /\ InTime(q.startup, PresenceTimeout, now)
  BY DEF Fits, InTime
<1> QED
  BY <1>1, <1>2, <1>4, <1>5 DEF Fits

LEMMA LastShape ==
    ASSUME NEW start \in Nat, NEW p \in Pages
    PROVE  /\ Last(p, start) \in Nat
           /\ start <= Last(p, start) /\ p.received <= Last(p, start)
  BY DEF Last, Pages

(* The page asks, unless it is still waiting.                              *)
LEMMA Polls ==
    ASSUME NEW start \in Nat, NEW p, clock \in Nat, Fits(p, clock, start), p.running,
           p.price = None /\ ~ p.price_error =>
               clock <= Last(p, start) + PresenceTimeout + Cadence
    PROVE  Fits(PollPrice(p), clock, start) /\ Alive(PollPrice(p))
<1> DEFINE q == PollPrice(p)
           request == Request(clock)
<1>1. p \in Pages
  BY DEF Fits
<1>2. CASE p.price # None
  BY <1>2 DEF PollPrice, Alive
<1>3. CASE p.price = None
  <2>1. /\ request \in Requests /\ request # None /\ request.since = clock
        /\ request.current /\ request.answer = None
    BY RequestShape
  <2>2. q = [p EXCEPT !.price = request, !.timer = None]
    BY <1>3 DEF PollPrice
  <2> HIDE DEF q, request
  <2>3. /\ q \in Pages /\ q.running /\ q.data = p.data /\ q.received = p.received
        /\ q.price_error = p.price_error /\ q.startup = p.startup
        /\ q.price = request /\ q.timer = None
    BY <1>1, <2>1, <2>2 DEF Pages
  <2>4. q.received <= clock /\ start <= clock /\ DataFits(q)
    BY <2>3 DEF Fits, DataFits
  <2>5. LoopFits(q, clock, start)
    BY <2>1, <2>3 DEF Fits, LoopFits
  <2>6. Last(q, start) = Last(p, start)
    BY <2>3 DEF Last
  <2>7. NewsFits(q, start)
    BY <1>3, <2>1, <2>3, <2>6 DEF NewsFits
  <2>8. InTime(q.price, PriceTimeout, clock) /\ InTime(q.startup, PresenceTimeout, clock)
    BY <2>1, <2>3, Durations DEF Fits, InTime
  <2>9. Fits(q, clock, start)
    BY <2>3, <2>4, <2>5, <2>7, <2>8 DEF Fits
  <2>10. Alive(q)
    BY <2>1, <2>3 DEF Alive
  <2> QED
    BY <2>9, <2>10 DEF q
<1> QED
  BY <1>2, <1>3

(* The page sets its timer.                                                *)
LEMMA Schedules ==
    ASSUME NEW start \in Nat, NEW p, clock \in Nat, Fits(p, clock, start), p.running,
           NEW at \in Nat, clock <= at, at <= clock + Cadence,
           ~ p.price_error => at <= Last(p, start) + PresenceTimeout + Cadence
    PROVE  Fits(Scheduled(p, at), clock, start) /\ Alive(Scheduled(p, at))
<1> DEFINE q == Scheduled(p, at)
           strays == IF p.timer = None THEN p.strays ELSE p.strays \union {p.timer}
<1>1. p \in Pages
  BY DEF Fits
<1>2. strays \in SUBSET Nat
  BY <1>1 DEF Pages
<1>3. q = [p EXCEPT !.timer = at, !.strays = strays]
  BY <1>1 DEF Scheduled, Pages
<1> HIDE DEF q, strays
<1>4. /\ q \in Pages /\ q.running /\ q.data = p.data /\ q.received = p.received
      /\ q.price_error = p.price_error /\ q.startup = p.startup
      /\ q.price = p.price /\ q.timer = at
  BY <1>1, <1>2, <1>3 DEF Pages
<1>5. q.received <= clock /\ start <= clock /\ DataFits(q)
  BY <1>4 DEF Fits, DataFits
<1>6. LoopFits(q, clock, start)
  BY <1>4 DEF Fits, LoopFits
<1>7. Last(q, start) = Last(p, start)
  BY <1>4 DEF Last
<1>8. NewsFits(q, start)
  BY <1>4, <1>7 DEF Fits, NewsFits
<1>9. InTime(q.price, PriceTimeout, clock) /\ InTime(q.startup, PresenceTimeout, clock)
  BY <1>4 DEF Fits
<1>10. Fits(q, clock, start)
  BY <1>4, <1>5, <1>6, <1>8, <1>9 DEF Fits
<1>11. Alive(q)
  BY <1>4, Nothing DEF Alive
<1> QED
  BY <1>10, <1>11 DEF q

(* An answer that came in time is news, or the page says that it is none.  *)
LEMMA Receives ==
    ASSUME NEW start \in Nat, NEW p, clock \in Nat, Fits(p, clock, start),
           NEW data, Good(data),
           data.evaluated_at <= clock, clock <= data.evaluated_at + PriceTimeout
    PROVE  LET q == ReceivePrice(p, data) IN
           /\ Fits(q, clock, start)
           /\ q.running = p.running /\ q.startup = p.startup /\ q.price = p.price
           /\ q.timer = p.timer
           /\ q.price_error \/ q.received = clock
<1> DEFINE q == ReceivePrice(p, data)
<1>1. p \in Pages /\ data \in Answers /\ data # None
  BY Nothing DEF Fits, Good
<1>2. CASE q = [p EXCEPT !.price_error = TRUE]
  <2>1. /\ q \in Pages /\ q.running = p.running /\ q.data = p.data /\ q.received = p.received
        /\ q.price_error /\ q.startup = p.startup /\ q.price = p.price /\ q.timer = p.timer
    BY <1>1, <1>2 DEF Pages
  <2> HIDE DEF q
  <2>2. Fits(q, clock, start)
    BY <2>1, Drops
  <2> QED
    BY <2>1, <2>2 DEF q
<1>3. CASE q = [p EXCEPT !.data = data, !.received = clock, !.price_error = FALSE]
  <2>1. /\ q \in Pages /\ q.running = p.running /\ q.data = data /\ q.received = clock
        /\ q.startup = p.startup /\ q.price = p.price /\ q.timer = p.timer
    BY <1>1, <1>3 DEF Pages
  <2> HIDE DEF q
  <2>2. q.received <= clock /\ start <= clock /\ DataFits(q)
    BY <2>1 DEF Fits, DataFits
  <2>3. LoopFits(q, clock, start)
    BY <2>1 DEF Fits, LoopFits
  <2>4. clock <= Last(q, start) /\ Last(q, start) \in Nat
    BY <2>1, LastShape
  <2>5. q.timer # None => q.timer \in Nat /\ q.timer <= clock + Cadence
    BY <2>1, <2>3 DEF LoopFits, Pages
  <2>6. q.price # None => q.price.since \in Nat /\ q.price.since <= clock
    BY <2>1 DEF Fits, InTime, Pages, Requests
  <2>7. NewsFits(q, start)
    BY <2>4, <2>5, <2>6, Durations DEF NewsFits
  <2>8. InTime(q.price, PriceTimeout, clock) /\ InTime(q.startup, PresenceTimeout, clock)
    BY <2>1 DEF Fits
  <2>9. Fits(q, clock, start)
    BY <2>1, <2>2, <2>3, <2>7, <2>8 DEF Fits
  <2> QED
    BY <2>1, <2>9 DEF q
<1> QED
  BY <1>2, <1>3 DEF ReceivePrice

(* Without an error and a request, the last news is not long ago.          *)
LEMMA Soon ==
    ASSUME NEW start \in Nat, NEW p, clock \in Nat, Fits(p, clock, start), Alive(p),
           p.running, ~ p.price_error, p.price = None
    PROVE  clock <= Last(p, start) + PresenceTimeout + Cadence
<1>1. p \in Pages
  BY DEF Fits
<1>2. Last(p, start) \in Nat /\ start <= Last(p, start)
  BY <1>1, LastShape
<1>3. CASE p.startup # None
  <2>1. p.startup \in Requests
    BY <1>1, <1>3 DEF Pages
  <2>2. /\ p.startup.since \in Nat /\ p.startup.since <= start
        /\ clock <= p.startup.since + PresenceTimeout
    BY <1>3, <2>1 DEF Fits, LoopFits, InTime, Requests
  <2> QED
    BY <1>2, <2>2, Durations
<1>4. CASE p.timer # None
  <2>1. /\ p.timer \in Nat /\ clock <= p.timer
        /\ p.timer <= Last(p, start) + PresenceTimeout + Cadence
    BY <1>1, <1>4 DEF Fits, LoopFits, NewsFits, Pages
  <2> QED
    BY <1>2, <2>1, Durations
<1> QED
  BY <1>3, <1>4 DEF Alive

-----------------------------------------------------------------------------
(* The actions.                                                            *)

LEMMA Begins ==
    Init => PriceInv
<1> SUFFICES ASSUME Init PROVE PriceInv
  OBVIOUS
<1> DEFINE request == Request(clock)
<1>1. /\ clock = 0 /\ shown = 0 /\ clock \in Nat /\ quotes \in FirstBooks
      /\ marks = [p \in DOMAIN quotes \intersect Configured |-> "SUCCESS"]
      /\ page = [Blank EXCEPT !.running = TRUE, !.startup = request]
  BY DEF Init
<1>2. /\ request \in Requests /\ request # None /\ request.since = 0
      /\ request.answer = None
  BY <1>1, RequestShape
<1> HIDE DEF request
<1>3. page = [running |-> TRUE, data |-> None, received |-> 0, price_error |-> FALSE,
              presence_error |-> FALSE, startup |-> request, price |-> None, timer |-> None,
              strays |-> {}]
  BY <1>1 DEF Blank
<1>4. /\ page \in Pages /\ page.running /\ page.data = None /\ page.received = 0
      /\ page.startup = request /\ page.price = None /\ page.timer = None
  BY <1>2, <1>3 DEF Pages
<1>5. ServerInv
  <2>1. \A s \in DOMAIN quotes : s \in Sources /\ quotes[s] \in Instants
    BY <1>1, PageAssumption DEF Sources
  <2>2. marks \in Healths
    <3> DEFINE some == DOMAIN quotes \intersect Configured
    <3>1. some \in SUBSET Configured /\ marks \in [some -> {"SUCCESS", "FAILURE"}]
      BY <1>1
    <3> HIDE DEF some
    <3> QED
      BY <3>1 DEF Healths
  <2> QED
    BY <1>1, <2>1, <2>2 DEF ServerInv
<1>6. DataFits(page) /\ LoopFits(page, clock, shown) /\ NewsFits(page, shown)
  BY <1>1, <1>2, <1>4 DEF DataFits, LoopFits, NewsFits
<1>7. InTime(page.price, PriceTimeout, clock) /\ InTime(page.startup, PresenceTimeout, clock)
  BY <1>1, <1>2, <1>4, Durations DEF InTime
<1>8. Fits(page, clock, shown)
  BY <1>1, <1>4, <1>6, <1>7 DEF Fits
<1>9. Alive(page)
  BY <1>2, <1>4 DEF Alive
<1> QED
  BY <1>5, <1>8, <1>9 DEF PriceInv

(* What a step of the page alone has to show.                              *)
LEMMA PageStep ==
    ASSUME PriceInv, UNCHANGED <<clock, server>>, shown' \in {shown, clock},
           Fits(page', clock, shown'), Alive(page')
    PROVE  PriceInv'
<1>1. clock' = clock /\ quotes' = quotes /\ marks' = marks
  BY DEF server
<1>2. ServerInv'
  BY <1>1 DEF PriceInv, ServerInv
<1>3. Fits(page, clock, shown)'
  BY <1>1
<1>4. Alive(page)'
  OBVIOUS
<1> QED
  BY <1>2, <1>3, <1>4 DEF PriceInv

LEMMA RefreshKeeps ==
    ASSUME PriceInv, Refresh
    PROVE  PriceInv'
<1>1. /\ clock \in Nat /\ page' = page /\ shown' = shown
      /\ marks \in Healths
      /\ \A s \in DOMAIN quotes : s \in Sources /\ quotes[s] \in Instants
      /\ shown \in Nat /\ shown <= clock
  BY DEF PriceInv, ServerInv, Refresh
<1>2. PICK good \in SUBSET Configured, bad \in SUBSET Configured :
        /\ quotes' = [p \in DOMAIN quotes \union good |->
                         IF p \in good THEN clock ELSE quotes[p]]
        /\ Book!Batch(good, bad)
  BY DEF Refresh
<1>3. /\ clock' = clock
      /\ marks' = [p \in DOMAIN marks \union good \union bad |->
                      IF p \in good THEN "SUCCESS"
                      ELSE IF p \in bad THEN "FAILURE"
                      ELSE marks[p]]
  BY <1>2 DEF Book!Batch
<1>4. \A s \in DOMAIN quotes' : s \in Sources /\ quotes'[s] \in Instants
  BY <1>1, <1>2 DEF Sources, Instants
<1>5. marks' \in Healths
  <2>1. PICK some \in SUBSET Configured : marks \in [some -> {"SUCCESS", "FAILURE"}]
    BY <1>1 DEF Healths
  <2> DEFINE more == some \union good \union bad
  <2>2. more \in SUBSET Configured /\ marks' \in [more -> {"SUCCESS", "FAILURE"}]
    BY <1>3, <2>1
  <2> HIDE DEF more
  <2> QED
    BY <2>2 DEF Healths
<1>6. ServerInv'
  BY <1>1, <1>3, <1>4, <1>5 DEF ServerInv
<1>7. Fits(page, clock, shown)' /\ Alive(page)'
  BY <1>1, <1>3 DEF PriceInv
<1> QED
  BY <1>6, <1>7 DEF PriceInv

(* The facts every step of the page starts from.                           *)
LEMMA Known ==
    ASSUME PriceInv
    PROVE  /\ clock \in Nat /\ shown \in Nat /\ shown <= clock
           /\ page \in Pages /\ Fits(page, clock, shown) /\ Alive(page)
           /\ Last(page, shown) \in Nat
  BY LastShape DEF PriceInv, ServerInv, Fits

LEMMA Answered ==
    ASSUME PriceInv, NEW request \in Requests, NEW timeout, InTime(request, timeout, clock),
           NEW readable \in BOOLEAN, NEW reported \in BOOLEAN, NEW q,
           q = [request EXCEPT !.answer = Answer(readable, reported)]
    PROVE  /\ q \in Requests /\ q # None /\ InTime(q, timeout, clock)
           /\ q.since = request.since /\ q.current = request.current
<1> DEFINE answer == Answer(readable, reported)
<1>1. Good(answer) /\ answer.evaluated_at = clock
  BY AnswerGood DEF PriceInv
<1>2. answer \in Answers
  BY <1>1 DEF Good
<1> HIDE DEF answer
<1>3. /\ q \in Requests /\ q.since = request.since /\ q.current = request.current
      /\ q.answer = answer
  BY <1>2 DEF answer, Requests
<1>4. q # None /\ request # None /\ clock \in Nat
  BY <1>3, Nothing, Known
<1>5. InTime(q, timeout, clock)
  BY <1>1, <1>3, <1>4 DEF InTime
<1> QED
  BY <1>3, <1>4, <1>5

LEMMA PriceAnswerKeeps ==
    ASSUME PriceInv, ServerAnswers("price")
    PROVE  PriceInv'
<1>1. /\ clock \in Nat /\ page \in Pages /\ Fits(page, clock, shown) /\ Alive(page)
  BY Known
<1>2. PICK readable \in BOOLEAN, reported \in BOOLEAN :
        page' = [page EXCEPT !["price"].answer = Answer(readable, reported)]
  BY DEF ServerAnswers
<1>3. /\ page.price # None /\ page.price \in Requests
      /\ shown' = shown /\ UNCHANGED <<clock, server>>
  BY <1>1 DEF ServerAnswers, Pages
<1> DEFINE q == [page.price EXCEPT !.answer = Answer(readable, reported)]
<1>4. page' = [page EXCEPT !.price = q]
  BY <1>2
<1>5. InTime(page.price, PriceTimeout, clock)
  BY <1>1 DEF Fits
<1>6. /\ q \in Requests /\ q # None /\ InTime(q, PriceTimeout, clock)
      /\ q.since = page.price.since /\ q.current = page.price.current
  BY <1>3, <1>5, Answered
<1> HIDE DEF q
<1>7. /\ page' \in Pages /\ page'.running = page.running /\ page'.data = page.data
      /\ page'.received = page.received /\ page'.price_error = page.price_error
      /\ page'.startup = page.startup /\ page'.price = q /\ page'.timer = page.timer
  BY <1>1, <1>4, <1>6 DEF Pages
<1>8. DataFits(page') /\ LoopFits(page', clock, shown) /\ NewsFits(page', shown)
  BY <1>1, <1>3, <1>6, <1>7 DEF Fits, DataFits, LoopFits, NewsFits, Last
<1>9. Fits(page', clock, shown) /\ Alive(page')
  BY <1>1, <1>6, <1>7, <1>8 DEF Fits, Alive
<1> QED
  BY <1>3, <1>9, PageStep

LEMMA StartupAnswerKeeps ==
    ASSUME PriceInv, ServerAnswers("startup")
    PROVE  PriceInv'
<1>1. /\ clock \in Nat /\ page \in Pages /\ Fits(page, clock, shown) /\ Alive(page)
  BY Known
<1>2. PICK readable \in BOOLEAN, reported \in BOOLEAN :
        page' = [page EXCEPT !["startup"].answer = Answer(readable, reported)]
  BY DEF ServerAnswers
<1>3. /\ page.startup # None /\ page.startup \in Requests
      /\ shown' = shown /\ UNCHANGED <<clock, server>>
  BY <1>1 DEF ServerAnswers, Pages
<1> DEFINE q == [page.startup EXCEPT !.answer = Answer(readable, reported)]
<1>4. page' = [page EXCEPT !.startup = q]
  BY <1>2
<1>5. InTime(page.startup, PresenceTimeout, clock)
  BY <1>1 DEF Fits
<1>6. /\ q \in Requests /\ q # None /\ InTime(q, PresenceTimeout, clock)
      /\ q.since = page.startup.since /\ q.current = page.startup.current
  BY <1>3, <1>5, Answered
<1> HIDE DEF q
<1>7. /\ page' \in Pages /\ page'.running = page.running /\ page'.data = page.data
      /\ page'.received = page.received /\ page'.price_error = page.price_error
      /\ page'.startup = q /\ page'.price = page.price /\ page'.timer = page.timer
  BY <1>1, <1>4, <1>6 DEF Pages
<1>8. DataFits(page') /\ LoopFits(page', clock, shown) /\ NewsFits(page', shown)
  BY <1>1, <1>3, <1>6, <1>7 DEF Fits, DataFits, LoopFits, NewsFits, Last
<1>9. Fits(page', clock, shown) /\ Alive(page')
  BY <1>1, <1>6, <1>7, <1>8 DEF Fits, Alive
<1> QED
  BY <1>3, <1>9, PageStep

(* An answer of the request under way came in time for either deadline.    *)
LEMMA CameInTime ==
    ASSUME clock \in Nat, NEW request \in Requests, request # None, request.answer # None,
           NEW timeout \in Nat, timeout <= PriceTimeout, InTime(request, timeout, clock)
    PROVE  /\ Good(request.answer)
           /\ request.answer.evaluated_at <= clock
           /\ clock <= request.answer.evaluated_at + PriceTimeout
<1>1. Good(request.answer) /\ request.answer.evaluated_at \in Nat /\ request.since \in Nat
  BY DEF InTime, Good, Answers, Requests
<1> QED
  BY <1>1, Durations DEF InTime

LEMMA SettlePriceKeeps ==
    ASSUME PriceInv, SettlePrice
    PROVE  PriceInv'
<1>1. /\ clock \in Nat /\ shown \in Nat /\ page \in Pages /\ Fits(page, clock, shown)
  BY Known
<1>2. PICK ok \in BOOLEAN :
        /\ ok => page.price.answer # None
        /\ page' = PriceSettled(page, ok)
  BY DEF SettlePrice
<1>3. /\ page.price # None /\ page.price \in Requests
      /\ shown' = shown /\ UNCHANGED <<clock, server>>
  BY <1>1 DEF SettlePrice, Pages
<1> DEFINE idle == [page EXCEPT !.price = None]
<1>4. /\ idle \in Pages /\ idle.running = page.running /\ idle.data = page.data
      /\ idle.received = page.received /\ idle.price_error = page.price_error
      /\ idle.startup = page.startup /\ idle.price = None /\ idle.timer = page.timer
  BY <1>1 DEF Pages
<1>5. page' = IF ~ page.price.current
              THEN IF page.running THEN Scheduled(idle, clock) ELSE idle
              ELSE LET read == IF ok /\ Accepted(page.price.answer)
                               THEN ReceivePrice(idle, page.price.answer)
                               ELSE [idle EXCEPT !.price_error = TRUE]
                   IN  Scheduled(read, clock + Cadence)
  BY <1>2 DEF PriceSettled
<1> HIDE DEF idle
<1>6. Fits(idle, clock, shown) /\ Last(idle, shown) \in Nat /\ shown <= Last(idle, shown)
  BY <1>1, <1>4, Drops, LastShape
<1>7. CASE ~ page.price.current /\ page.running
  <2>1. /\ page.price.since \in Nat /\ page.price.since <= shown
        /\ clock <= page.price.since + PriceTimeout
    BY <1>1, <1>3, <1>7 DEF Fits, LoopFits, InTime, Requests
  <2>2. clock <= Last(idle, shown) + PresenceTimeout + Cadence /\ clock <= clock + Cadence
    BY <1>1, <1>6, <2>1, Durations
  <2>3. idle.running /\ clock <= clock
    BY <1>1, <1>4, <1>7
  <2>4. Fits(Scheduled(idle, clock), clock, shown) /\ Alive(Scheduled(idle, clock))
    BY <1>1, <1>6, <2>2, <2>3, Schedules
  <2> QED
    BY <1>3, <1>5, <1>7, <2>4, PageStep
<1>8. CASE ~ page.price.current /\ ~ page.running
  <2>1. page' = idle /\ Alive(idle)
    BY <1>4, <1>5, <1>8 DEF Alive
  <2> QED
    BY <1>3, <1>6, <2>1, PageStep
<1>9. CASE page.price.current
  <2> DEFINE read == IF ok /\ Accepted(page.price.answer)
                     THEN ReceivePrice(idle, page.price.answer)
                     ELSE [idle EXCEPT !.price_error = TRUE]
  <2>1. page.running
    BY <1>1, <1>3, <1>9 DEF Fits, LoopFits
  <2>2. /\ Fits(read, clock, shown) /\ read.running = idle.running
        /\ read.price_error \/ read.received = clock
    <3>1. CASE ok /\ Accepted(page.price.answer)
      <4>1. InTime(page.price, PriceTimeout, clock) /\ page.price.answer # None
        BY <1>1, <1>2, <3>1 DEF Fits
      <4>2. /\ Good(page.price.answer) /\ page.price.answer.evaluated_at <= clock
            /\ clock <= page.price.answer.evaluated_at + PriceTimeout
        BY <1>1, <1>3, <4>1, Durations, CameInTime
      <4> QED
        BY <1>1, <1>6, <3>1, <4>2, Receives
    <3>2. CASE ~ (ok /\ Accepted(page.price.answer))
      <4>1. /\ read \in Pages /\ read.running = idle.running /\ read.data = idle.data
            /\ read.received = idle.received /\ read.price_error
            /\ read.startup = idle.startup /\ read.price = idle.price
            /\ read.timer = idle.timer
        BY <1>4, <3>2 DEF Pages
      <4> HIDE DEF read
      <4> QED
        BY <1>6, <4>1, Drops
    <3> QED
      BY <3>1, <3>2
  <2>3. page' = Scheduled(read, clock + Cadence)
    BY <1>5, <1>9
  <2> HIDE DEF read
  <2>4. read \in Pages /\ Last(read, shown) \in Nat /\ read.received <= Last(read, shown)
    BY <1>1, <2>2, LastShape DEF Fits
  <2>5. /\ clock + Cadence \in Nat /\ clock <= clock + Cadence
        /\ ~ read.price_error =>
             clock + Cadence <= Last(read, shown) + PresenceTimeout + Cadence
    BY <1>1, <2>2, <2>4, Durations
  <2>6. read.running
    BY <1>4, <2>1, <2>2
  <2>7. Fits(page', clock, shown) /\ Alive(page')
    BY <1>1, <2>2, <2>3, <2>5, <2>6, Schedules
  <2> QED
    BY <1>3, <2>7, PageStep
<1> QED
  BY <1>7, <1>8, <1>9

LEMMA SettleStartupKeeps ==
    ASSUME PriceInv, SettleStartup
    PROVE  PriceInv'
<1>1. /\ clock \in Nat /\ shown \in Nat /\ page \in Pages /\ Fits(page, clock, shown)
      /\ Alive(page)
  BY Known
<1> DEFINE idle == [page EXCEPT !.startup = None]
           failed == [idle EXCEPT !.presence_error = TRUE]
           ok == [idle EXCEPT !.presence_error = FALSE]
           answer == page.startup.answer
           After(p, delay) == IF p.timer # None THEN p
                              ELSE IF delay = None THEN PollPrice(p)
                              ELSE Scheduled(p, clock + delay)
<1>2. /\ page.startup # None /\ page.startup \in Requests
      /\ shown' = shown /\ UNCHANGED <<clock, server>>
  BY <1>1 DEF SettleStartup, Pages
<1>3. \/ page' = After(failed, None)
      \/ /\ answer # None
         /\ Validates(answer)
         /\ \E delay \in {StartupDelay, Cadence} :
                page' = After(ReceivePrice(ok, answer), delay)
      \/ page' = After([ok EXCEPT !.price_error = TRUE], None)
  BY DEF SettleStartup
<1>4. page.running
  BY <1>1, <1>2 DEF Fits, LoopFits
<1>5. ASSUME NEW p \in Pages,
             p.running = page.running, p.data = page.data, p.received = page.received,
             p.price_error = page.price_error \/ p.price_error,
             p.price = page.price, p.startup = None, p.timer = page.timer
      PROVE  Fits(p, clock, shown)
  BY <1>1, <1>5, Drops
<1>6. ASSUME NEW p \in Pages,
             p.running = page.running, p.data = page.data, p.received = page.received,
             p.price_error = page.price_error \/ p.price_error,
             p.price = page.price, p.startup = None, p.timer = page.timer,
             page' = After(p, None)
      PROVE  PriceInv'
  <2>1. Fits(p, clock, shown)
    BY <1>5, <1>6
  <2>2. Last(p, shown) = Last(page, shown)
    BY <1>6 DEF Last
  <2>3. p.price = None /\ ~ p.price_error =>
          clock <= Last(p, shown) + PresenceTimeout + Cadence
    BY <1>1, <1>4, <1>6, <2>2, Soon
  <2>4. CASE p.timer # None
    <3>1. page' = p /\ Alive(p)
      BY <1>6, <2>4 DEF Alive
    <3> QED
      BY <1>2, <2>1, <3>1, PageStep
  <2>5. CASE p.timer = None
    <3>1. page' = PollPrice(p)
      BY <1>6, <2>5
    <3>2. Fits(page', clock, shown) /\ Alive(page')
      BY <1>1, <1>4, <1>6, <2>1, <2>3, <3>1, Polls
    <3> QED
      BY <1>2, <3>2, PageStep
  <2> QED
    BY <2>4, <2>5
<1>7. /\ failed \in Pages /\ failed.running = page.running /\ failed.data = page.data
      /\ failed.received = page.received /\ failed.price_error = page.price_error
      /\ failed.price = page.price /\ failed.startup = None /\ failed.timer = page.timer
  BY <1>1 DEF Pages
<1>8. /\ ok \in Pages /\ ok.running = page.running /\ ok.data = page.data
      /\ ok.received = page.received /\ ok.price_error = page.price_error
      /\ ok.price = page.price /\ ok.startup = None /\ ok.timer = page.timer
  BY <1>1 DEF Pages
<1> DEFINE bad == [ok EXCEPT !.price_error = TRUE]
<1> HIDE DEF failed, ok
<1>9. /\ bad \in Pages /\ bad.running = page.running /\ bad.data = page.data
      /\ bad.received = page.received /\ bad.price_error
      /\ bad.price = page.price /\ bad.startup = None /\ bad.timer = page.timer
  BY <1>8 DEF Pages
<1> HIDE DEF bad
<1>10. ASSUME page' = After(failed, None) PROVE PriceInv'
  BY <1>6, <1>7, <1>10
<1>11. ASSUME page' = After(bad, None) PROVE PriceInv'
  BY <1>6, <1>9, <1>11
<1>12. ASSUME answer # None, NEW delay \in {StartupDelay, Cadence},
              page' = After(ReceivePrice(ok, answer), delay)
       PROVE  PriceInv'
  <2> DEFINE p == ReceivePrice(ok, answer)
  <2>1. InTime(page.startup, PresenceTimeout, clock)
    BY <1>1 DEF Fits
  <2>2. /\ Good(answer) /\ answer.evaluated_at <= clock
        /\ clock <= answer.evaluated_at + PriceTimeout
    BY <1>1, <1>2, <1>12, <2>1, Durations, CameInTime
  <2>3. Fits(ok, clock, shown)
    BY <1>5, <1>8
  <2>4. /\ Fits(p, clock, shown) /\ p.running = page.running /\ p.timer = page.timer
        /\ p.price_error \/ p.received = clock
    BY <1>1, <1>8, <2>2, <2>3, Receives
  <2>5. delay \in Nat /\ delay <= Cadence /\ delay # None
    BY Durations, Nothing
  <2> HIDE DEF p
  <2>6. CASE p.timer # None
    <3>1. page' = p /\ Alive(p)
      BY <1>12, <2>6 DEF Alive, p
    <3> QED
      BY <1>2, <2>4, <3>1, PageStep
  <2>7. CASE p.timer = None
    <3>1. page' = Scheduled(p, clock + delay)
      BY <1>12, <2>5, <2>7 DEF p
    <3>2. p \in Pages /\ Last(p, shown) \in Nat /\ p.received <= Last(p, shown)
      BY <1>1, <2>4, LastShape DEF Fits
    <3>3. /\ clock + delay \in Nat /\ clock <= clock + delay
          /\ clock + delay <= clock + Cadence
          /\ ~ p.price_error =>
               clock + delay <= Last(p, shown) + PresenceTimeout + Cadence
      BY <1>1, <2>4, <2>5, <3>2, Durations
    <3>4. Fits(page', clock, shown) /\ Alive(page')
      BY <1>1, <1>4, <2>4, <3>1, <3>3, Schedules
    <3> QED
      BY <1>2, <3>4, PageStep
  <2> QED
    BY <2>6, <2>7
<1> HIDE DEF After, answer
<1> QED
  BY <1>3, <1>10, <1>11, <1>12 DEF bad

LEMMA HeartbeatKeeps ==
    ASSUME PriceInv, SettleHeartbeat
    PROVE  PriceInv'
<1>1. /\ clock \in Nat /\ page \in Pages /\ Fits(page, clock, shown) /\ Alive(page)
  BY Known
<1>2. /\ shown' = shown /\ UNCHANGED <<clock, server>>
      /\ page' = [page EXCEPT !.presence_error = ~ @]
  BY DEF SettleHeartbeat
<1>3. /\ page' \in Pages /\ page'.running = page.running /\ page'.data = page.data
      /\ page'.received = page.received /\ page'.price_error = page.price_error
      /\ page'.startup = page.startup /\ page'.price = page.price
      /\ page'.timer = page.timer
  BY <1>1, <1>2 DEF Pages
<1>4. Fits(page', clock, shown) /\ Alive(page')
  BY <1>1, <1>3, Drops DEF Alive
<1> QED
  BY <1>2, <1>4, PageStep

LEMMA TimerKeeps ==
    ASSUME PriceInv, TimerFires
    PROVE  PriceInv'
<1>1. /\ clock \in Nat /\ shown \in Nat /\ page \in Pages /\ Fits(page, clock, shown)
      /\ Alive(page)
  BY Known
<1> DEFINE p == [page EXCEPT !.timer = None]
<1>2. /\ page.timer # None /\ page' = PollPrice(p)
      /\ shown' = shown /\ UNCHANGED <<clock, server>>
  BY DEF TimerFires
<1>3. page.running
  BY <1>1, <1>2 DEF Fits, LoopFits
<1>4. /\ p \in Pages /\ p.running = page.running /\ p.data = page.data
      /\ p.received = page.received /\ p.price_error = page.price_error
      /\ p.startup = page.startup /\ p.price = page.price /\ p.timer = None
  BY <1>1 DEF Pages
<1> HIDE DEF p
<1>5. Fits(p, clock, shown) /\ p.running
  BY <1>1, <1>3, <1>4, Drops
<1>6. Last(p, shown) = Last(page, shown)
  BY <1>4 DEF Last
<1>7. p.price = None /\ ~ p.price_error =>
        clock <= Last(p, shown) + PresenceTimeout + Cadence
  BY <1>1, <1>3, <1>4, <1>6, Soon
<1>8. Fits(page', clock, shown) /\ Alive(page')
  BY <1>1, <1>2, <1>5, <1>7, Polls
<1> QED
  BY <1>2, <1>8, PageStep

LEMMA StrayKeeps ==
    ASSUME PriceInv, StrayFires
    PROVE  PriceInv'
<1>1. /\ clock \in Nat /\ shown \in Nat /\ page \in Pages /\ Fits(page, clock, shown)
      /\ Alive(page)
  BY Known
<1>2. PICK at \in page.strays :
        page' = LET rest == [page EXCEPT !.strays = @ \ {at}]
                IN  IF page.running THEN PollPrice(rest) ELSE rest
  BY DEF StrayFires
<1>3. shown' = shown /\ UNCHANGED <<clock, server>>
  BY DEF StrayFires
<1> DEFINE p == [page EXCEPT !.strays = @ \ {at}]
<1>4. /\ p \in Pages /\ p.running = page.running /\ p.data = page.data
      /\ p.received = page.received /\ p.price_error = page.price_error
      /\ p.startup = page.startup /\ p.price = page.price /\ p.timer = page.timer
  BY <1>1 DEF Pages
<1>5. page' = IF page.running THEN PollPrice(p) ELSE p
  BY <1>2
<1> HIDE DEF p
<1>6. Fits(p, clock, shown)
  BY <1>1, <1>4, Drops
<1>7. CASE page.running
  <2>1. p.running
    BY <1>4, <1>7
  <2>2. Last(p, shown) = Last(page, shown)
    BY <1>4 DEF Last
  <2>3. p.price = None /\ ~ p.price_error =>
          clock <= Last(p, shown) + PresenceTimeout + Cadence
    BY <1>1, <1>4, <1>7, <2>2, Soon
  <2>4. Fits(page', clock, shown) /\ Alive(page')
    BY <1>1, <1>5, <1>6, <1>7, <2>1, <2>3, Polls
  <2> QED
    BY <1>3, <2>4, PageStep
<1>8. CASE ~ page.running
  <2>1. page' = p /\ Alive(p)
    BY <1>4, <1>5, <1>8 DEF Alive
  <2> QED
    BY <1>3, <1>6, <2>1, PageStep
<1> QED
  BY <1>7, <1>8

LEMMA HideKeeps ==
    ASSUME PriceInv, Hide
    PROVE  PriceInv'
<1>1. /\ clock \in Nat /\ page \in Pages /\ Fits(page, clock, shown)
  BY Known
<1> DEFINE request == IF page.price = None THEN None
                      ELSE [page.price EXCEPT !.current = FALSE, !.answer = None]
<1>2. /\ shown' = shown /\ UNCHANGED <<clock, server>>
      /\ page' = [page EXCEPT !.running = FALSE, !.timer = None, !.startup = None,
                              !.price = request]
  BY <1>1 DEF Hide, Pages
<1>3. /\ request \in Requests \union {None}
      /\ request # None => /\ page.price # None /\ request.since = page.price.since
                           /\ ~ request.current /\ request.answer = None
  BY <1>1 DEF Pages, Requests
<1> HIDE DEF request
<1>4. /\ page' \in Pages /\ ~ page'.running /\ page'.data = page.data
      /\ page'.received = page.received
      /\ page'.startup = None /\ page'.price = request /\ page'.timer = None
  BY <1>1, <1>2, <1>3 DEF Pages
<1>5. DataFits(page') /\ LoopFits(page', clock, shown) /\ NewsFits(page', shown)
  BY <1>1, <1>3, <1>4 DEF Fits, DataFits, LoopFits, NewsFits
<1>6. InTime(page'.price, PriceTimeout, clock) /\ InTime(page'.startup, PresenceTimeout, clock)
  BY <1>1, <1>3, <1>4 DEF Fits, InTime
<1>7. Fits(page', clock, shown) /\ Alive(page')
  BY <1>1, <1>4, <1>5, <1>6 DEF Fits, Alive
<1> QED
  BY <1>2, <1>7, PageStep

LEMMA ShowKeeps ==
    ASSUME PriceInv, Show
    PROVE  PriceInv'
<1>1. /\ clock \in Nat /\ shown \in Nat /\ shown <= clock /\ page \in Pages
      /\ Fits(page, clock, shown)
  BY Known
<1>2. /\ ~ page.running /\ page' \in Starts(page) /\ shown' = clock
      /\ UNCHANGED <<clock, server>>
  BY DEF Show
<1>3. /\ page.startup = None /\ page.timer = None
      /\ page.price # None => ~ page.price.current
  BY <1>1, <1>2 DEF Fits, LoopFits
<1> DEFINE p == [page EXCEPT !.running = TRUE]
           asked == [p EXCEPT !.startup = Request(clock)]
<1>4. /\ p \in Pages /\ p.running /\ p.data = page.data /\ p.received = page.received
      /\ p.price_error = page.price_error
      /\ p.startup = None /\ p.price = page.price /\ p.timer = None
  BY <1>1, <1>3 DEF Pages
<1>5. page' = asked \/ page' = PollPrice(p)
  BY <1>2 DEF Starts
<1> HIDE DEF p
<1>6. clock <= Last(p, clock) /\ Last(p, clock) \in Nat
  BY <1>1, <1>4, LastShape
<1>7. p.price # None => p.price.since \in Nat /\ p.price.since <= clock
  BY <1>1, <1>4 DEF Fits, InTime, Pages, Requests
<1>8. Fits(p, clock, clock)
  <2>1. p.received <= clock /\ clock <= clock /\ DataFits(p)
    BY <1>1, <1>4 DEF Fits, DataFits
  <2>2. LoopFits(p, clock, clock)
    BY <1>3, <1>4, <1>7 DEF LoopFits
  <2>3. NewsFits(p, clock)
    BY <1>1, <1>4, <1>6, <1>7, Durations DEF NewsFits
  <2>4. InTime(p.price, PriceTimeout, clock) /\ InTime(p.startup, PresenceTimeout, clock)
    BY <1>1, <1>4 DEF Fits, InTime
  <2> QED
    BY <1>4, <2>1, <2>2, <2>3, <2>4 DEF Fits
<1>9. CASE page' = PollPrice(p)
  <2>1. clock <= Last(p, clock) + PresenceTimeout + Cadence
    BY <1>1, <1>6, Durations
  <2>2. Fits(page', clock, clock) /\ Alive(page')
    BY <1>1, <1>4, <1>8, <1>9, <2>1, Polls
  <2> QED
    BY <1>2, <2>2, PageStep
<1>10. CASE page' = asked
  <2> DEFINE request == Request(clock)
  <2>1. /\ request \in Requests /\ request # None /\ request.since = clock
        /\ request.answer = None
    BY <1>1, RequestShape
  <2>2. page' = [p EXCEPT !.startup = request]
    BY <1>10
  <2> HIDE DEF request
  <2>3. /\ page' \in Pages /\ page'.running /\ page'.data = p.data
        /\ page'.received = p.received /\ page'.price_error = p.price_error
        /\ page'.startup = request /\ page'.price = p.price /\ page'.timer = None
    BY <1>4, <2>1, <2>2 DEF Pages
  <2>4. page'.received <= clock /\ clock <= clock /\ DataFits(page')
    BY <1>8, <2>3 DEF Fits, DataFits
  <2>5. LoopFits(page', clock, clock)
    BY <1>1, <1>4, <1>7, <2>1, <2>3 DEF LoopFits
  <2>6. Last(page', clock) = Last(p, clock)
    BY <2>3 DEF Last
  <2>7. NewsFits(page', clock)
    BY <1>4, <1>8, <2>3, <2>6 DEF Fits, NewsFits
  <2>8. /\ InTime(page'.price, PriceTimeout, clock)
        /\ InTime(page'.startup, PresenceTimeout, clock)
    BY <1>1, <1>8, <2>1, <2>3, Durations DEF Fits, InTime
  <2>9. Fits(page', clock, clock) /\ Alive(page')
    BY <2>1, <2>3, <2>4, <2>5, <2>7, <2>8 DEF Fits, Alive
  <2> QED
    BY <1>2, <2>9, PageStep
<1> QED
  BY <1>5, <1>9, <1>10

(* No deadline passes, of a request or of a timer.                         *)
LEMMA TickKeeps ==
    ASSUME PriceInv, Tick
    PROVE  PriceInv'
<1>1. /\ clock \in Nat /\ shown \in Nat /\ shown <= clock /\ page \in Pages
      /\ Fits(page, clock, shown) /\ Alive(page)
  BY Known
<1>2. /\ clock' = clock + 1 /\ page' = page /\ shown' = shown
      /\ quotes' = quotes /\ marks' = marks
      /\ page.timer # None => clock < page.timer
      /\ page.price # None => clock < page.price.since + PriceTimeout
      /\ page.startup # None => clock < page.startup.since + PresenceTimeout
  BY DEF Tick, server
<1> DEFINE now == clock + 1
<1>3. page.received \in Nat /\ page.timer \in Nat \union {None}
  BY <1>1 DEF Pages
<1>4. page.received <= now /\ shown <= now /\ DataFits(page) /\ NewsFits(page, shown)
  BY <1>1, <1>3 DEF Fits
<1>5. LoopFits(page, now, shown)
  BY <1>1, <1>2, <1>3, Durations DEF Fits, LoopFits
<1>6. ASSUME NEW request \in Requests, NEW timeout \in Nat,
             InTime(request, timeout, clock),
             request # None => clock < request.since + timeout
      PROVE  InTime(request, timeout, now)
  <2>1. request.since \in Nat
    BY DEF Requests
  <2>2. request.answer # None => request.answer.evaluated_at \in Nat
    BY DEF Requests, Answers
  <2> QED
    BY <1>1, <1>6, <2>1, <2>2 DEF InTime
<1>7. InTime(page.price, PriceTimeout, now)
  <2>1. page.price = None => InTime(page.price, PriceTimeout, now)
    BY DEF InTime
  <2>2. page.price # None => page.price \in Requests
    BY <1>1 DEF Pages
  <2> QED
    BY <1>1, <1>2, <1>6, <2>1, <2>2, Durations DEF Fits
<1>8. InTime(page.startup, PresenceTimeout, now)
  <2>1. page.startup = None => InTime(page.startup, PresenceTimeout, now)
    BY DEF InTime
  <2>2. page.startup # None => page.startup \in Requests
    BY <1>1 DEF Pages
  <2> QED
    BY <1>1, <1>2, <1>6, <2>1, <2>2, Durations DEF Fits
<1>9. Fits(page, now, shown)
  BY <1>1, <1>4, <1>5, <1>7, <1>8 DEF Fits
<1>10. Fits(page, clock, shown)' /\ Alive(page)'
  BY <1>1, <1>2, <1>9
<1>11. ServerInv'
  BY <1>1, <1>2 DEF PriceInv, ServerInv
<1> QED
  BY <1>10, <1>11 DEF PriceInv

LEMMA StutterKeeps ==
    ASSUME PriceInv, UNCHANGED vars
    PROVE  PriceInv'
<1>1. /\ shown' = shown /\ page' = page /\ UNCHANGED <<clock, server>>
  BY DEF vars
<1> QED
  BY <1>1, Known, PageStep

-----------------------------------------------------------------------------
(* The theorems.                                                           *)

(* PriceInv holds of every reachable state.                                *)
THEOREM PriceInvariant ==
    Spec => []PriceInv
<1>1. Init => PriceInv
  BY Begins
<1>2. PriceInv /\ [Next]_vars => PriceInv'
  <2> SUFFICES ASSUME PriceInv, [Next]_vars PROVE PriceInv'
    OBVIOUS
  <2>1. CASE Refresh
    BY <2>1, RefreshKeeps
  <2>2. CASE ServerAnswers("price")
    BY <2>2, PriceAnswerKeeps
  <2>3. CASE ServerAnswers("startup")
    BY <2>3, StartupAnswerKeeps
  <2>4. CASE SettlePrice
    BY <2>4, SettlePriceKeeps
  <2>5. CASE SettleStartup
    BY <2>5, SettleStartupKeeps
  <2>6. CASE SettleHeartbeat
    BY <2>6, HeartbeatKeeps
  <2>7. CASE TimerFires
    BY <2>7, TimerKeeps
  <2>8. CASE StrayFires
    BY <2>8, StrayKeeps
  <2>9. CASE Hide
    BY <2>9, HideKeeps
  <2>10. CASE Show
    BY <2>10, ShowKeeps
  <2>11. CASE Tick
    BY <2>11, TickKeeps
  <2>12. CASE UNCHANGED vars
    BY <2>12, StutterKeeps
  <2> QED
    BY <2>1, <2>2, <2>3, <2>4, <2>5, <2>6, <2>7, <2>8, <2>9, <2>10, <2>11, <2>12 DEF Next
<1> QED
  BY <1>1, <1>2, PTL DEF Spec

(* Every answer under way is one the page can read, whatever is stored:    *)
(* quotes of unknown sources, without a time, or from the future.          *)
THEOREM Readable ==
    Spec => []AnswersValid
<1>1. PriceInv => AnswersValid
  <2> SUFFICES ASSUME PriceInv, NEW k \in {"price", "startup"},
                      page[k] # None, page[k].answer # None
               PROVE  /\ Validates(page[k].answer)
                      /\ page[k].answer.http # 500 => Accepted(page[k].answer)
    BY DEF AnswersValid
  <2>1. Good(page.price.answer) \/ k = "startup"
    BY DEF PriceInv, Fits, InTime
  <2>2. Good(page.startup.answer) \/ k = "price"
    BY DEF PriceInv, Fits, InTime
  <2> QED
    BY <2>1, <2>2, GoodValid
<1> QED
  BY <1>1, PriceInvariant, PTL

(* Between two answers the page's own ageing of what it holds never beats  *)
(* the server's: neither the badge nor the quotes of the average.          *)
THEOREM NeverBetter ==
    Spec => []LabelNeverBetter
<1>1. PriceInv => LabelNeverBetter
  BY LabelBounded, CountedContribute DEF LabelNeverBetter
<1> QED
  BY <1>1, PriceInvariant, PTL

(* No quote in the displayed average is older than the maximal age and the *)
(* time an answer may take.                                                *)
THEOREM AverageIsRecent ==
    Spec => []ShownQuotesAreRecent
<1>1. PriceInv => ShownQuotesAreRecent
  <2> SUFFICES ASSUME PriceInv, page.data # None, NEW source \in Counted
               PROVE  clock - source.at < MaxAge + PriceTimeout
    BY DEF ShownQuotesAreRecent
  <2>1. /\ source.at \in Nat
        /\ page.data.evaluated_at - source.at + (clock - page.received) < MaxAge
    BY CountedFresh
  <2>2. /\ page.data.evaluated_at \in Nat /\ page.received \in Nat /\ clock \in Nat
        /\ page.received <= page.data.evaluated_at + PriceTimeout
    BY DEF PriceInv, ServerInv, Fits, DataFits, Good, Answers, Pages
  <2> QED
    BY <2>1, <2>2, Durations
<1> QED
  BY <1>1, PriceInvariant, PTL

(* A visible page that has had no news for the time of a heartbeat, a      *)
(* pause and a request shows OFFLINE, however the network behaves.         *)
THEOREM SilenceIsShown ==
    Spec => []SilenceShows
<1>1. PriceInv => SilenceShows
  <2> DEFINE last == Last(page, shown)
  <2> SUFFICES ASSUME PriceInv, page.running,
                      clock > last + PresenceTimeout + Cadence + PriceTimeout
               PROVE  Label = "OFFLINE"
    BY DEF SilenceShows, Last
  <2>1. /\ clock \in Nat /\ shown \in Nat /\ page \in Pages /\ Fits(page, clock, shown)
        /\ Alive(page) /\ last \in Nat
    BY Known
  <2> HIDE DEF last
  <2>2. ASSUME ~ page.price_error PROVE FALSE
    <3>1. CASE page.price = None
      <4>1. clock <= last + PresenceTimeout + Cadence
        BY <2>1, <2>2, <3>1, Soon DEF last
      <4> QED
        BY <2>1, <4>1, Durations
    <3>2. CASE page.price # None
      <4>1. page.price.since \in Nat
        BY <2>1, <3>2 DEF Pages, Requests
      <4>2. /\ page.price.since <= last + PresenceTimeout + Cadence
            /\ clock <= page.price.since + PriceTimeout
        BY <2>1, <2>2, <3>2 DEF Fits, NewsFits, InTime, last
      <4> QED
        BY <2>1, <4>1, <4>2, Durations
    <3> QED
      BY <3>1, <3>2
  <2> QED
    BY <2>2 DEF Label
<1> QED
  BY <1>1, PriceInvariant, PTL
=============================================================================
