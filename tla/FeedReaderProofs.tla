-------------------------- MODULE FeedReaderProofs --------------------------
(***************************************************************************)
(* The news cache and the page that reads it, proved for any intervals,    *)
(* delays and deadlines: one fetch at a time, a page that says the truth   *)
(* about its headlines, and headlines that arrive.                         *)
(*                                                                         *)
(* The invariant bounds the instant of the page's next question: it comes  *)
(* when it was planned, or as much later as the wall clock was set back    *)
(* since, or soon after the page came back; and it bounds the plan by what *)
(* the page shows and by when the server got something newer.              *)
(***************************************************************************)
EXTENDS FeedReader, FiniteSetTheorems, TLAPS

Replies == [xml : Nat \union {None}, stale : BOOLEAN, refreshing : BOOLEAN]
Requests == [owner : Nat, since : Nat, reply : Replies \union {None}]
Notices == {"current", "refreshing", "stale", "failed"}

Readers ==
    [running : BOOLEAN, hidden : BOOLEAN, generation : Nat,
     request : Requests \union {None}, next_check : Nat, timer : Nat \union {None}]

(* The delay the page was told to wait.                                    *)
Delay == IF notice = "refreshing" THEN RetrySoon ELSE RetryDelay

(* The latest instant of its next question, as its wall clock was set.     *)
Latest == planned + behind

LEMMA Constants ==
    /\ RetryDelay \in Nat /\ RetrySoon \in Nat /\ ReaderTimeout \in Nat
    /\ RetryDelay > 0 /\ RetrySoon > 0 /\ ReaderTimeout > 0
    /\ RetrySoon <= RetryDelay
    /\ RefreshInterval \in Nat /\ RefreshInterval > 0
    /\ MaxGeneration \in Nat /\ MaxGeneration > 0 /\ MaxSkew \in Nat
    /\ None \notin Nat /\ None \notin Replies /\ None \notin Requests
<1>1. {RetryDelay, RetrySoon, ReaderTimeout, MaxGeneration} \subseteq Nat \ {0}
  BY ReaderAssumption
<1>2. None \notin Replies /\ None \notin Requests
  BY ReaderAssumption DEF Replies, Requests
<1>3. RetrySoon <= RetryDelay /\ MaxSkew \in Nat
  BY ReaderAssumption
<1>4. RefreshInterval \in Nat \ {0} /\ None \notin Nat
  BY FeedAssumption
<1> QED
  BY <1>1, <1>2, <1>3, <1>4

-----------------------------------------------------------------------------
(* The inductive invariant.                                                *)

(* The cache: one fetch, and a feed without mark is that of the last check. *)
CacheInv ==
    /\ TypeOK /\ now \in Nat
    /\ \A f, g \in Fetches : Running(f) /\ Running(g) => f = g
    /\ refreshing <=> \E f \in Fetches : Running(f)
    /\ ~ stale /\ checked_at # None => xml = checked_at

(* The page's wall clock, and the next check, which is an instant of it.   *)
ClockInv ==
    /\ skew \in 0 .. MaxSkew /\ behind \in 0 .. MaxSkew /\ planned \in Nat
    /\ reader.next_check <= Latest + skew
    /\ reader.next_check <= planned + MaxSkew

(* The page's timer and request: while it runs it has one of them, and     *)
(* neither is later than its plan or its return allows.                    *)
PageInv ==
    /\ reader \in Readers
    /\ reader.running => ~ reader.hidden
    /\ reader.generation <= MaxGeneration /\ (reader.running => reader.generation >= 1)
    /\ reader.timer # None => reader.running /\ reader.request = None
    /\ reader.running => reader.timer # None \/ reader.request # None
    /\ smooth \in 0 .. now

TimerInv ==
    reader.timer # None =>
        /\ now <= reader.timer
        /\ \/ reader.timer <= Latest
           \/ reader.timer <= now /\ reader.timer <= smooth + ReaderTimeout

RequestInv ==
    reader.request # None =>
        /\ reader.request.owner \in 1 .. reader.generation
        /\ reader.request.since <= now /\ now <= reader.request.since + ReaderTimeout
        /\ reader.running /\ reader.request.owner # reader.generation
            => reader.request.since <= smooth
        /\ reader.running => \/ reader.request.since <= Latest
                             \/ reader.request.since <= smooth + ReaderTimeout

(* A reply tells the feed there is, or its request was there before it.    *)
ReplyInv ==
    reader.request # None /\ reader.request.reply # None =>
        LET reply == reader.request.reply IN
        /\ reply.xml \in {None} \union 0 .. now
        /\ xml # None => reply.xml = xml \/ reader.request.since <= xml
        /\ reply.xml # None /\ ~ reply.stale
            => reader.request.since < reply.xml + RefreshInterval

(* What is shown, and the plan: near, unless the newest is shown.          *)
ShownInv ==
    /\ notice \in Notices /\ shown \in {None} \union 0 .. now
    /\ planned <= now + Delay
    /\ xml # None /\ shown # xml =>
        \/ planned <= smooth + Delay
        \/ planned <= xml + ReaderTimeout + Delay
    /\ notice = "current" =>
        /\ shown # None
        /\ planned < shown + RefreshInterval + ReaderTimeout + RetryDelay

FeedInv == CacheInv /\ ClockInv /\ PageInv /\ TimerInv /\ RequestInv /\ ReplyInv /\ ShownInv

-----------------------------------------------------------------------------
(* The cache, whatever the page does.                                      *)

LEMMA CacheInit ==
    Init => CacheInv
<1> SUFFICES ASSUME Init PROVE CacheInv
  OBVIOUS
<1>1. \A f \in Fetches : ~ Running(f)
  BY DEF Init, Running
<1>2. TypeOK
  BY DEF Init, TypeOK
<1> QED
  BY <1>1, <1>2 DEF Init, CacheInv

LEMMA CacheReserves ==
    ASSUME CacheInv, NEW f \in Fetches, ReadAndRefresh(f)
    PROVE  CacheInv'
<1>1. /\ TypeOK /\ now \in Nat /\ ~ refreshing /\ now' = now
      /\ refreshing' = TRUE /\ started' = [started EXCEPT ![f] = now]
      /\ checked_at' = checked_at /\ xml' = xml /\ stale' = stale
      /\ now # None
  BY Constants DEF CacheInv, ReadAndRefresh
<1>2. started \in [Fetches -> {None} \union 0 .. now]
  BY <1>1 DEF TypeOK
<1>3. started'[f] = now /\ \A g \in Fetches : g # f => started'[g] = started[g]
  BY <1>1, <1>2
<1>4. \A g \in Fetches : Running(g)' <=> g = f
  BY <1>1, <1>3 DEF CacheInv, Running
<1>5. started' \in [Fetches -> {None} \union 0 .. now]
  BY <1>1, <1>2
<1>6. TypeOK'
  BY <1>1, <1>5 DEF TypeOK
<1> QED
  BY <1>1, <1>4, <1>6 DEF CacheInv

LEMMA CacheEnds ==
    ASSUME CacheInv, NEW f \in Fetches, FetchSucceeds(f) \/ FetchFails(f)
    PROVE  CacheInv'
<1>1. /\ TypeOK /\ now \in Nat /\ Running(f) /\ now' = now
      /\ refreshing' = FALSE /\ started' = [started EXCEPT ![f] = None]
      /\ checked_at' = now
      /\ \/ xml' = now /\ stale' = FALSE
         \/ xml' = xml /\ stale' = TRUE
  BY DEF CacheInv, FetchSucceeds, FetchFails, Ended
<1>2. started \in [Fetches -> {None} \union 0 .. now]
  BY <1>1 DEF TypeOK
<1>3. started'[f] = None /\ \A g \in Fetches : g # f => started'[g] = started[g]
  BY <1>1, <1>2
<1>4. \A g \in Fetches : ~ Running(g)'
  BY <1>1, <1>3 DEF CacheInv, Running
<1>5. started' \in [Fetches -> {None} \union 0 .. now]
  BY <1>1, <1>2
<1>6. TypeOK'
  <2>1. now \in 0 .. now
    BY <1>1
  <2>2. checked_at' \in {None} \union 0 .. now /\ xml' \in {None} \union 0 .. now
    BY <1>1, <2>1 DEF TypeOK
  <2>3. stale' \in BOOLEAN /\ refreshing' \in BOOLEAN
    BY <1>1
  <2> QED
    BY <1>1, <1>5, <2>2, <2>3 DEF TypeOK
<1> QED
  BY <1>1, <1>4, <1>6 DEF CacheInv

LEMMA CacheTicks ==
    ASSUME CacheInv, Tick
    PROVE  CacheInv'
<1>1. /\ TypeOK /\ now \in Nat /\ now' = now + 1 /\ started' = started
      /\ checked_at' = checked_at /\ xml' = xml /\ stale' = stale /\ refreshing' = refreshing
  BY DEF CacheInv, Tick, cacheVars
<1>2. 0 .. now \subseteq 0 .. now'
  BY <1>1
<1>3. started \in [Fetches -> {None} \union 0 .. now']
  BY <1>1, <1>2 DEF TypeOK
<1>4. TypeOK'
  BY <1>1, <1>2, <1>3 DEF TypeOK
<1> QED
  BY <1>1, <1>4 DEF CacheInv, Running

LEMMA CacheStays ==
    ASSUME CacheInv, UNCHANGED vars
    PROVE  CacheInv'
  BY DEF CacheInv, TypeOK, Running, vars, cacheVars

-----------------------------------------------------------------------------
(* The functions of the page.                                              *)

LEMMA ScheduleShape ==
    ASSUME NEW r \in Readers, now \in Nat, skew \in Nat
    PROVE  /\ ScheduleFeed(r) \in Readers
           /\ ScheduleFeed(r).running = r.running /\ ScheduleFeed(r).hidden = r.hidden
           /\ ScheduleFeed(r).generation = r.generation /\ ScheduleFeed(r).request = r.request
           /\ ScheduleFeed(r).next_check = r.next_check
           /\ ~ r.running \/ r.hidden \/ r.request # None => ScheduleFeed(r).timer = None
           /\ r.running /\ ~ r.hidden /\ r.request = None =>
                ScheduleFeed(r).timer =
                    IF r.next_check > now + skew THEN r.next_check - skew ELSE now
<1> DEFINE timer == IF ~ r.running \/ r.hidden \/ r.request # None THEN None
                    ELSE IF r.next_check > now + skew THEN r.next_check - skew ELSE now
<1>1. ScheduleFeed(r) = [r EXCEPT !.timer = timer]
  <2>1. \A check \in Nat : now + (check - (now + skew)) = check - skew
    OBVIOUS
  <2>2. now + (r.next_check - (now + skew)) = r.next_check - skew
    BY <2>1 DEF Readers
  <2> QED
    BY <2>2 DEF ScheduleFeed, WallClock
<1>2. timer \in Nat \union {None}
  <2>1. r.next_check \in Nat
    BY DEF Readers
  <2>2. r.next_check > now + skew => r.next_check - skew \in Nat
    BY <2>1
  <2> QED
    BY <2>2
<1> HIDE DEF timer
<1>3. /\ ScheduleFeed(r) \in Readers /\ ScheduleFeed(r).timer = timer
      /\ ScheduleFeed(r).running = r.running /\ ScheduleFeed(r).hidden = r.hidden
      /\ ScheduleFeed(r).generation = r.generation /\ ScheduleFeed(r).request = r.request
      /\ ScheduleFeed(r).next_check = r.next_check
  BY <1>1, <1>2 DEF Readers
<1> QED
  BY <1>3 DEF timer

(* A page that may ask does so, or waits for its next check.               *)
LEMMA RefreshShape ==
    ASSUME NEW r \in Readers, now \in Nat, skew \in Nat, r.running, ~ r.hidden, r.request = None
    PROVE  LET s == RefreshFeed(r) IN
           /\ s \in Readers
           /\ s.running /\ ~ s.hidden
           /\ s.generation = r.generation /\ s.next_check = r.next_check
           /\ \/ /\ now < r.next_check - skew
                 /\ s.request = None /\ s.timer = r.next_check - skew
              \/ /\ s.timer = None
                 /\ s.request = [owner |-> r.generation, since |-> now, reply |-> None]
<1> USE DEF WallClock
<1>1. CASE now + skew < r.next_check
  <2>1. RefreshFeed(r) = ScheduleFeed(r)
    BY <1>1 DEF RefreshFeed
  <2>2. r.next_check > now + skew /\ now < r.next_check - skew
    BY <1>1 DEF Readers
  <2> QED
    BY <1>1, <2>1, <2>2, ScheduleShape
<1>2. CASE ~ (now + skew < r.next_check)
  <2> DEFINE request == [owner |-> r.generation, since |-> now, reply |-> None]
  <2>1. request \in Requests
    BY DEF Requests, Readers
  <2>2. RefreshFeed(r) = [r EXCEPT !.timer = None, !.request = request]
    BY <1>2 DEF RefreshFeed
  <2> HIDE DEF request
  <2>3. /\ RefreshFeed(r) \in Readers
        /\ RefreshFeed(r).running = r.running /\ RefreshFeed(r).hidden = r.hidden
        /\ RefreshFeed(r).generation = r.generation /\ RefreshFeed(r).request = request
        /\ RefreshFeed(r).next_check = r.next_check /\ RefreshFeed(r).timer = None
    BY <2>1, <2>2 DEF Readers
  <2> QED
    BY <2>3 DEF request
<1> QED
  BY <1>1, <1>2

(* The slot is free again; only a current request moves the next check.    *)
LEMMA ConcludedShape ==
    ASSUME NEW r \in Readers, now \in Nat, skew \in Nat, r.request # None, NEW delay \in Nat
    PROVE  LET s == Concluded(r, delay) IN
           /\ s \in Readers
           /\ s.running = r.running /\ s.hidden = r.hidden /\ s.generation = r.generation
           /\ s.request = None
           /\ s.next_check = IF Current(r) THEN now + skew + delay ELSE r.next_check
           /\ ~ r.running \/ r.hidden => s.timer = None
           /\ r.running /\ ~ r.hidden =>
                s.timer = IF s.next_check > now + skew THEN s.next_check - skew ELSE now
<1> DEFINE next_check == IF Current(r) THEN now + skew + delay ELSE r.next_check
           q == [r EXCEPT !.request = None, !.next_check = next_check]
<1>1. next_check \in Nat
  BY DEF Readers
<1>2. Concluded(r, delay) = ScheduleFeed(q)
  BY DEF Concluded, WallClock
<1> HIDE DEF next_check
<1>3. /\ q \in Readers /\ q.running = r.running /\ q.hidden = r.hidden
      /\ q.generation = r.generation /\ q.request = None /\ q.next_check = next_check
  BY <1>1 DEF Readers
<1> HIDE DEF q
<1> QED
  BY <1>2, <1>3, ScheduleShape DEF next_check

(* A step that leaves the clock and the next check alone keeps the plan.   *)
LEMMA ClockStays ==
    ASSUME ClockInv, UNCHANGED clockVars, reader'.next_check = reader.next_check
    PROVE  ClockInv' /\ Latest' = Latest /\ planned' = planned
<1>1. skew' = skew /\ behind' = behind /\ planned' = planned
  BY DEF clockVars
<1> QED
  BY <1>1 DEF ClockInv, Latest

LEMMA ClockNumbers ==
    ASSUME ClockInv
    PROVE  /\ skew \in Nat /\ behind \in Nat /\ planned \in Nat /\ Latest \in Nat
           /\ planned <= Latest /\ Latest <= planned + MaxSkew
  BY Constants DEF ClockInv, Latest

-----------------------------------------------------------------------------
(* The page at first, while the server works, and while time passes.       *)

LEMMA ReaderBegins ==
    ReaderInit => FeedInv
<1> SUFFICES ASSUME ReaderInit PROVE FeedInv
  OBVIOUS
<1>1. /\ Init /\ shown = None /\ notice = "failed" /\ smooth = 0 /\ now = 0 /\ xml = None
      /\ now \in Nat /\ skew \in 0 .. MaxSkew /\ planned = 0 /\ behind = 0 /\ skew \in Nat
  BY Constants DEF ReaderInit, Init
<1>2. PICK hidden \in BOOLEAN :
        reader = StartFeed([running |-> FALSE, hidden |-> hidden, generation |-> 0,
                            request |-> None, next_check |-> 0, timer |-> None])
  BY DEF ReaderInit
<1> DEFINE first == [running |-> FALSE, hidden |-> hidden, generation |-> 0,
                     request |-> None, next_check |-> 0, timer |-> None]
           r == [first EXCEPT !.running = TRUE, !.generation = @ + 1]
<1>3. /\ first \in Readers
      /\ ~ first.running /\ first.hidden = hidden /\ first.generation = 0
      /\ first.request = None /\ first.next_check = 0 /\ first.timer = None
  BY DEF Readers
<1> HIDE DEF first
<1>4. /\ r \in Readers /\ r.running /\ r.hidden = hidden /\ r.generation = 1
      /\ r.request = None /\ r.next_check = 0
  <2>1. r = [first EXCEPT !.running = TRUE, !.generation = 1]
    BY <1>3
  <2> HIDE DEF r
  <2> QED
    BY <1>3, <2>1 DEF Readers
<1>5. reader = IF hidden THEN first ELSE RefreshFeed(r)
  BY <1>2, <1>3 DEF StartFeed, first
<1> HIDE DEF r
<1>6. CASE hidden
  <2>1. PageInv
    BY <1>1, <1>3, <1>5, <1>6, Constants DEF PageInv
  <2>2. TimerInv /\ RequestInv /\ ReplyInv
    BY <1>3, <1>5, <1>6 DEF TimerInv, RequestInv, ReplyInv
  <2>3. ShownInv
    BY <1>1, <1>3, <1>5, <1>6, Constants DEF ShownInv, Delay, Notices
  <2>4. ClockInv
    BY <1>1, <1>3, <1>5, <1>6, Constants DEF ClockInv, Latest
  <2> QED
    BY <1>1, <2>1, <2>2, <2>3, <2>4, CacheInit DEF FeedInv
<1>7. CASE ~ hidden
  <2>1. /\ reader \in Readers /\ reader.running /\ ~ reader.hidden /\ reader.generation = 1
        /\ reader.next_check = 0 /\ reader.timer = None
        /\ reader.request = [owner |-> 1, since |-> 0, reply |-> None]
    <3>1. LET s == RefreshFeed(r) IN
          /\ s \in Readers
          /\ s.running /\ ~ s.hidden
          /\ s.generation = r.generation /\ s.next_check = r.next_check
          /\ \/ /\ now < r.next_check - skew
                /\ s.request = None /\ s.timer = r.next_check - skew
             \/ /\ s.timer = None
                /\ s.request = [owner |-> r.generation, since |-> now, reply |-> None]
      BY <1>1, <1>4, <1>7, RefreshShape
    <3>2. ~ (now < r.next_check - skew)
      BY <1>1, <1>4
    <3> QED
      BY <1>1, <1>4, <1>5, <1>7, <3>1, <3>2
  <2>2. reader.request \in Requests /\ reader.request # None /\ reader.request.reply = None
    BY <2>1, Constants DEF Requests
  <2>3. PageInv
    BY <1>1, <2>1, <2>2, Constants DEF PageInv
  <2>4. TimerInv /\ ReplyInv
    BY <2>1, <2>2 DEF TimerInv, ReplyInv
  <2>5. RequestInv
    BY <1>1, <2>1, Constants DEF RequestInv, Latest
  <2>6. ShownInv
    BY <1>1, <2>1, Constants DEF ShownInv, Delay, Notices
  <2>7. ClockInv
    BY <1>1, <2>1, Constants DEF ClockInv, Latest
  <2> QED
    BY <1>1, <2>3, <2>4, <2>5, <2>6, <2>7, CacheInit DEF FeedInv
<1> QED
  BY <1>6, <1>7

(* A feed that arrives at the server is newer than any request under way.  *)
LEMMA ServerKeepsPage ==
    ASSUME FeedInv, CacheInv', UNCHANGED readerVars, now' = now, xml' = xml \/ xml' = now
    PROVE  FeedInv'
<1>1. /\ reader' = reader /\ shown' = shown /\ notice' = notice /\ smooth' = smooth
      /\ Delay' = Delay /\ now \in Nat /\ ClockInv' /\ Latest' = Latest /\ planned' = planned
  BY ClockStays DEF readerVars, Delay, FeedInv, CacheInv
<1>2. PageInv' /\ TimerInv' /\ RequestInv'
  BY <1>1 DEF FeedInv, PageInv, TimerInv, RequestInv
<1>3. ReplyInv'
  BY <1>1 DEF FeedInv, ReplyInv, RequestInv
<1>4. ShownInv'
  <2>1. CASE xml' = xml
    BY <1>1, <2>1 DEF FeedInv, ShownInv
  <2>2. CASE xml' = now
    <3>1. planned \in Nat /\ Delay \in Nat
      BY ClockNumbers, Constants DEF FeedInv, Delay
    <3>2. planned <= now + Delay
      BY DEF FeedInv, ShownInv
    <3>3. planned <= xml' + ReaderTimeout + Delay
      BY <1>1, <2>2, <3>1, <3>2, Constants
    <3> QED
      BY <1>1, <3>3 DEF FeedInv, ShownInv
  <2> QED
    BY <2>1, <2>2
<1> QED
  BY <1>1, <1>2, <1>3, <1>4 DEF FeedInv

(* A clock set back puts the next question off, and no further than that.  *)
LEMMA AdjustKeeps ==
    ASSUME FeedInv, AdjustClock
    PROVE  FeedInv'
<1> DEFINE late == reader.next_check - skew' - planned
<1>1. /\ reader' = reader /\ shown' = shown /\ notice' = notice /\ smooth' = smooth
      /\ Delay' = Delay /\ planned' = planned /\ UNCHANGED vars /\ now' = now /\ xml' = xml
      /\ skew' \in 0 .. MaxSkew
      /\ behind' = IF late > behind THEN late ELSE behind
  BY DEF AdjustClock, Delay, vars, cacheVars
<1>2. /\ reader \in Readers /\ now \in Nat /\ smooth \in Nat
      /\ reader.next_check \in Nat /\ reader.next_check <= planned + MaxSkew
      /\ behind \in 0 .. MaxSkew /\ planned \in Nat /\ MaxSkew \in Nat
  BY Constants DEF FeedInv, PageInv, CacheInv, ClockInv, Readers
<1>3. /\ behind' \in 0 .. MaxSkew /\ behind <= behind'
      /\ reader.next_check <= planned + behind' + skew'
  BY <1>1, <1>2
<1>4. ClockInv'
  BY <1>1, <1>2, <1>3 DEF ClockInv, Latest
<1>5. Latest \in Nat /\ Latest' \in Nat /\ Latest <= Latest'
  BY <1>1, <1>2, <1>3 DEF Latest
<1>6. CacheInv'
  BY <1>1, CacheStays DEF FeedInv
<1>7. PageInv'
  BY <1>1 DEF FeedInv, PageInv
<1>8. TimerInv'
  <2>1. reader.timer # None => reader.timer \in Nat
    BY <1>2 DEF Readers
  <2> QED
    BY <1>1, <1>5, <2>1 DEF FeedInv, TimerInv
<1>9. RequestInv'
  <2>1. reader.request # None => reader.request.since \in Nat
    BY <1>2 DEF Readers, Requests
  <2> QED
    BY <1>1, <1>5, <2>1 DEF FeedInv, RequestInv
<1>10. ReplyInv' /\ ShownInv'
  BY <1>1 DEF FeedInv, ReplyInv, ShownInv
<1> QED
  BY <1>4, <1>6, <1>7, <1>8, <1>9, <1>10 DEF FeedInv

LEMMA PageTicks ==
    ASSUME FeedInv, PageTick
    PROVE  FeedInv'
<1>1. /\ reader' = reader /\ shown' = shown /\ notice' = notice /\ smooth' = smooth
      /\ Delay' = Delay /\ now \in Nat /\ now' = now + 1 /\ xml' = xml
      /\ reader.timer # None => reader.timer > now
      /\ reader.request # None => now < reader.request.since + ReaderTimeout
      /\ ClockInv' /\ Latest' = Latest /\ planned' = planned
  BY ClockStays DEF PageTick, Tick, cacheVars, readerVars, Delay, FeedInv, CacheInv
<1>2. CacheInv'
  BY CacheTicks DEF FeedInv, PageTick
<1>3. /\ planned \in Nat /\ Latest \in Nat /\ Delay \in Nat
      /\ reader.timer # None => reader.timer \in Nat
      /\ reader.request # None => reader.request \in Requests
      /\ smooth \in Nat /\ smooth <= now
  BY Constants, ClockNumbers, <1>1 DEF FeedInv, PageInv, Readers, Delay
<1>4. PageInv'
  BY <1>1, <1>3 DEF FeedInv, PageInv
<1>5. TimerInv'
  BY <1>1, <1>3, Constants DEF FeedInv, TimerInv
<1>6. RequestInv'
  BY <1>1, <1>3, Constants DEF FeedInv, RequestInv, Requests
<1>7. ReplyInv'
  BY <1>1, <1>3 DEF FeedInv, ReplyInv
<1>8. ShownInv'
  BY <1>1, <1>3 DEF FeedInv, ShownInv
<1> QED
  BY <1>1, <1>2, <1>4, <1>5, <1>6, <1>7, <1>8 DEF FeedInv

-----------------------------------------------------------------------------
(* The page is left and comes back.                                        *)

LEMMA HideKeeps ==
    ASSUME FeedInv, HideFeed
    PROVE  FeedInv'
<1>1. PICK hidden \in {TRUE, reader.hidden} : reader' = StopFeed([reader EXCEPT !.hidden = hidden])
  BY DEF HideFeed
<1>2. /\ reader.running /\ reader.generation < MaxGeneration /\ reader \in Readers
      /\ shown' = shown /\ notice' = notice /\ smooth' = smooth /\ Delay' = Delay
      /\ UNCHANGED vars /\ now' = now /\ xml' = xml /\ now \in Nat /\ UNCHANGED clockVars
  BY DEF HideFeed, FeedInv, PageInv, CacheInv, Delay, vars, cacheVars
<1> DEFINE r == [reader EXCEPT !.hidden = hidden]
<1>3. hidden \in BOOLEAN
  BY <1>2 DEF Readers
<1>4. /\ r \in Readers /\ r.running /\ r.hidden = hidden /\ r.generation = reader.generation
      /\ r.request = reader.request /\ r.next_check = reader.next_check
  BY <1>2, <1>3 DEF Readers
<1> HIDE DEF r
<1>5. reader' = [r EXCEPT !.running = FALSE, !.generation = @ + 1, !.timer = None]
  BY <1>1, <1>4 DEF StopFeed, r
<1>6. /\ reader' \in Readers /\ reader'.running = FALSE
      /\ reader'.generation = reader.generation + 1
      /\ reader'.request = reader.request /\ reader'.next_check = reader.next_check
      /\ reader'.timer = None
  <2>1. reader' = [r EXCEPT !.running = FALSE, !.generation = reader.generation + 1,
                            !.timer = None]
    BY <1>4, <1>5
  <2>2. reader.generation + 1 \in Nat
    BY <1>2 DEF Readers
  <2> QED
    BY <1>4, <2>1, <2>2 DEF Readers
<1>7. CacheInv' /\ ClockInv' /\ Latest' = Latest /\ planned' = planned
  BY <1>2, <1>6, CacheStays, ClockStays DEF FeedInv
<1>8. reader.generation \in Nat /\ reader'.generation <= MaxGeneration
  BY <1>2, <1>6, Constants DEF Readers
<1>9. PageInv'
  BY <1>2, <1>6, <1>8 DEF FeedInv, PageInv
<1>10. TimerInv'
  BY <1>6 DEF TimerInv
<1>11. RequestInv'
  BY <1>2, <1>6, <1>7, <1>8 DEF FeedInv, RequestInv
<1>12. ReplyInv' /\ ShownInv'
  BY <1>2, <1>6, <1>7 DEF FeedInv, ReplyInv, ShownInv
<1> QED
  BY <1>7, <1>9, <1>10, <1>11, <1>12 DEF FeedInv

(* A request of the period before still holds the slot, or a new one or a  *)
(* timer starts now.                                                       *)
LEMMA ShowKeeps ==
    ASSUME FeedInv, ShowFeed
    PROVE  FeedInv'
<1>1. /\ ~ reader.running /\ reader.generation < MaxGeneration /\ reader \in Readers
      /\ reader' = StartFeed([reader EXCEPT !.hidden = FALSE])
      /\ shown' = shown /\ notice' = notice /\ smooth' = now /\ Delay' = Delay
      /\ UNCHANGED vars /\ now' = now /\ xml' = xml /\ now \in Nat /\ UNCHANGED clockVars
  BY DEF ShowFeed, FeedInv, PageInv, CacheInv, Delay, vars, cacheVars
<1> DEFINE visible == [reader EXCEPT !.hidden = FALSE]
           r == [visible EXCEPT !.running = TRUE, !.generation = @ + 1]
<1>2. /\ visible \in Readers /\ ~ visible.running /\ ~ visible.hidden
      /\ visible.generation = reader.generation /\ visible.request = reader.request
      /\ visible.next_check = reader.next_check /\ visible.timer = reader.timer
  BY <1>1 DEF Readers
<1> HIDE DEF visible
<1>3. /\ r \in Readers /\ r.running /\ ~ r.hidden /\ r.generation = reader.generation + 1
      /\ r.request = reader.request /\ r.next_check = reader.next_check
      /\ r.timer = reader.timer
  <2>1. r = [visible EXCEPT !.running = TRUE, !.generation = visible.generation + 1]
    BY <1>2
  <2>2. visible.generation + 1 \in Nat
    BY <1>2 DEF Readers
  <2> HIDE DEF r
  <2> QED
    BY <1>2, <2>1, <2>2 DEF Readers
<1>4. reader' = RefreshFeed(r)
  BY <1>1, <1>2 DEF StartFeed, visible
<1> HIDE DEF r
<1>5. CacheInv'
  BY <1>1, CacheStays DEF FeedInv
<1>6. /\ reader.generation \in Nat /\ reader.generation + 1 <= MaxGeneration
      /\ reader.next_check \in Nat /\ smooth \in Nat /\ smooth <= now
      /\ reader.request # None => reader.request \in Requests
      /\ reader.timer = None /\ Delay \in Nat
      /\ skew \in Nat /\ Latest \in Nat /\ reader.next_check - skew <= Latest
  <2>1. skew \in Nat /\ Latest \in Nat /\ reader.next_check <= Latest + skew
    BY ClockNumbers DEF FeedInv, ClockInv
  <2>2. /\ reader.generation \in Nat /\ reader.generation + 1 <= MaxGeneration
        /\ reader.next_check \in Nat /\ smooth \in Nat /\ smooth <= now
        /\ reader.request # None => reader.request \in Requests
        /\ reader.timer = None /\ Delay \in Nat
    BY <1>1, Constants DEF FeedInv, PageInv, Readers, Delay
  <2> QED
    BY <2>1, <2>2
<1>7. /\ reader' \in Readers /\ reader'.running /\ ~ reader'.hidden
      /\ reader'.generation = reader.generation + 1
      /\ reader'.next_check = reader.next_check
      /\ \/ /\ reader.request # None /\ reader'.request = reader.request
            /\ reader'.timer = None
         \/ /\ now < reader.next_check - skew
            /\ reader'.request = None /\ reader'.timer = reader.next_check - skew
         \/ /\ reader'.timer = None
            /\ reader'.request =
                 [owner |-> reader.generation + 1, since |-> now, reply |-> None]
  <2>1. CASE reader.request # None
    <3>1. reader' = r
      BY <1>3, <1>4, <2>1 DEF RefreshFeed
    <3> QED
      BY <1>3, <1>6, <2>1, <3>1
  <2>2. CASE reader.request = None
    BY <1>1, <1>3, <1>4, <1>6, <2>2, RefreshShape
  <2> QED
    BY <2>1, <2>2
<1>8a. ClockInv' /\ Latest' = Latest /\ planned' = planned
  BY <1>1, <1>7, ClockStays DEF FeedInv
<1>8. reader'.request # None /\ reader'.request # reader.request =>
        /\ reader'.request.owner = reader.generation + 1 /\ reader'.request.since = now
        /\ reader'.request.reply = None
  BY <1>7
<1>9. PageInv'
  <2>1. reader'.timer # None \/ reader'.request # None
    <3>1. [owner |-> reader.generation + 1, since |-> now, reply |-> None] \in Requests
      BY <1>1, <1>6 DEF Requests
    <3>2. now < reader.next_check - skew => reader.next_check - skew # None
      BY <1>1, <1>6, Constants
    <3> QED
      BY <1>6, <1>7, <3>1, <3>2, Constants
  <2>2. reader'.timer # None => reader'.running /\ reader'.request = None
    BY <1>7
  <2> QED
    BY <1>1, <1>6, <1>7, <2>1, <2>2 DEF PageInv
<1>10. TimerInv'
  BY <1>1, <1>6, <1>7, <1>8a DEF TimerInv
<1>11. RequestInv'
  <2>1. CASE reader'.request = reader.request
    BY <1>1, <1>6, <1>7, <1>8a, <2>1, Constants DEF FeedInv, RequestInv, Requests
  <2>2. CASE reader'.request # reader.request
    BY <1>1, <1>6, <1>7, <1>8, <2>2, Constants DEF RequestInv
  <2> QED
    BY <2>1, <2>2
<1>12. ReplyInv'
  BY <1>1, <1>7, <1>8 DEF FeedInv, ReplyInv
<1>13. ShownInv'
  <2>1. xml # None /\ shown # xml =>
          \/ planned <= now + Delay
          \/ planned <= xml + ReaderTimeout + Delay
    BY DEF FeedInv, ShownInv
  <2> QED
    BY <1>1, <1>7, <1>8a, <2>1 DEF FeedInv, ShownInv
<1> QED
  BY <1>5, <1>8a, <1>9, <1>10, <1>11, <1>12, <1>13 DEF FeedInv

(* The timer fires: at the next check, or soon after the page came back.   *)
LEMMA FireKeeps ==
    ASSUME FeedInv, FireFeed
    PROVE  FeedInv'
<1>1. /\ reader.timer # None /\ reader.timer <= now /\ reader \in Readers
      /\ reader' = RefreshFeed([reader EXCEPT !.timer = None])
      /\ shown' = shown /\ notice' = notice /\ smooth' = smooth /\ Delay' = Delay
      /\ UNCHANGED vars /\ now' = now /\ xml' = xml /\ now \in Nat /\ UNCHANGED clockVars
  BY DEF FireFeed, FeedInv, PageInv, CacheInv, Delay, vars, cacheVars
<1> DEFINE r == [reader EXCEPT !.timer = None]
<1>2. reader.running /\ ~ reader.hidden /\ reader.request = None
  BY <1>1 DEF FeedInv, PageInv
<1>3. /\ r \in Readers /\ r.running /\ ~ r.hidden /\ r.generation = reader.generation
      /\ r.request = None /\ r.next_check = reader.next_check
  BY <1>1, <1>2 DEF Readers
<1> HIDE DEF r
<1>4. reader' = RefreshFeed(r)
  BY <1>1 DEF r
<1>5. /\ reader' \in Readers /\ reader'.running /\ ~ reader'.hidden
      /\ reader'.generation = reader.generation
      /\ reader'.next_check = reader.next_check
      /\ \/ /\ now < reader.next_check - skew
            /\ reader'.request = None /\ reader'.timer = reader.next_check - skew
         \/ /\ reader'.timer = None
            /\ reader'.request = [owner |-> reader.generation, since |-> now, reply |-> None]
  <2>1. skew \in Nat
    BY ClockNumbers DEF FeedInv
  <2> QED
    BY <1>1, <1>3, <1>4, <2>1, RefreshShape
<1>6. /\ reader.generation \in Nat /\ reader.next_check \in Nat /\ smooth \in Nat
      /\ reader.timer \in Nat
      /\ skew \in Nat /\ Latest \in Nat /\ reader.next_check <= Latest + skew
  BY <1>1, ClockNumbers DEF FeedInv, PageInv, ClockInv, Readers
<1>7. now <= Latest \/ now <= smooth + ReaderTimeout
  BY <1>1, <1>6 DEF FeedInv, TimerInv
<1>8. CacheInv' /\ ClockInv' /\ Latest' = Latest /\ planned' = planned
  BY <1>1, <1>5, CacheStays, ClockStays DEF FeedInv
<1>9. reader'.request # None =>
        /\ reader'.request.owner = reader.generation /\ reader'.request.since = now
        /\ reader'.request.reply = None
  BY <1>5
<1>10. PageInv'
  <2>1. [owner |-> reader.generation, since |-> now, reply |-> None] \in Requests
    BY <1>1, <1>6 DEF Requests
  <2>2. reader'.timer # None \/ reader'.request # None
    <3>1. now < reader.next_check - skew => reader.next_check - skew # None
      BY <1>1, <1>6, Constants
    <3> QED
      BY <1>5, <1>6, <2>1, <3>1, Constants
  <2>3. reader'.timer # None => reader'.running /\ reader'.request = None
    BY <1>5
  <2> QED
    BY <1>1, <1>5, <2>2, <2>3 DEF FeedInv, PageInv
<1>11. TimerInv'
  BY <1>1, <1>5, <1>6, <1>8 DEF TimerInv
<1>12. RequestInv'
  <2>1. reader.generation >= 1
    BY <1>2, <1>6 DEF FeedInv, PageInv
  <2> QED
    BY <1>1, <1>5, <1>6, <1>7, <1>8, <1>9, <2>1, Constants DEF RequestInv
<1>13. ReplyInv'
  BY <1>9 DEF ReplyInv
<1>14. ShownInv'
  BY <1>1, <1>5, <1>8 DEF FeedInv, ShownInv
<1> QED
  BY <1>8, <1>10, <1>11, <1>12, <1>13, <1>14 DEF FeedInv

-----------------------------------------------------------------------------
(* The server answers the page, from a cache it may have to refresh.       *)
LEMMA ServeKeeps ==
    ASSUME FeedInv, ServePage
    PROVE  FeedInv'
<1>1. /\ reader.request # None /\ reader.request.reply = None /\ reader \in Readers
      /\ shown' = shown /\ notice' = notice /\ smooth' = smooth /\ Delay' = Delay
      /\ CacheInv /\ now \in Nat /\ reader.request \in Requests /\ UNCHANGED clockVars
  BY DEF ServePage, FeedInv, PageInv, CacheInv, Delay, Readers
<1>2. /\ CacheInv' /\ now' = now /\ xml' = xml
      /\ \E response \in Replies :
           /\ reader' = [reader EXCEPT !.request.reply = response]
           /\ response.xml = xml /\ response.stale = Response.stale
  <2>1. /\ Response \in Replies /\ Response.xml = xml
        /\ [Response EXCEPT !.refreshing = TRUE] \in Replies
        /\ [Response EXCEPT !.refreshing = TRUE].xml = xml
        /\ [Response EXCEPT !.refreshing = TRUE].stale = Response.stale
    <3>1. xml \in Nat \union {None} /\ stale \in BOOLEAN /\ refreshing \in BOOLEAN
      BY <1>1 DEF CacheInv, TypeOK
    <3>2. (stale \/ Expired) \in BOOLEAN
      BY <3>1
    <3> DEFINE old == stale \/ Expired
    <3> HIDE DEF old
    <3>3. Response = [xml |-> xml, stale |-> old, refreshing |-> refreshing]
      BY DEF Response, old
    <3>4. old \in BOOLEAN
      BY <3>2 DEF old
    <3> QED
      BY <3>1, <3>3, <3>4 DEF Replies
  <2>2. CASE /\ \E f \in Fetches : ReadAndRefresh(f)
             /\ reader' = [reader EXCEPT !.request.reply = [Response EXCEPT !.refreshing = TRUE]]
    <3>1. PICK f \in Fetches : ReadAndRefresh(f)
      BY <2>2
    <3>2. CacheInv' /\ now' = now /\ xml' = xml
      BY <1>1, <3>1, CacheReserves DEF ReadAndRefresh
    <3> QED
      BY <2>1, <2>2, <3>2
  <2>3. CASE reader' = [reader EXCEPT !.request.reply = Response] /\ UNCHANGED vars
    <3>1. CacheInv' /\ now' = now /\ xml' = xml
      BY <1>1, <2>3, CacheStays DEF vars, cacheVars
    <3> QED
      BY <2>1, <2>3, <3>1
  <2> QED
    BY <2>2, <2>3 DEF ServePage
<1>3. PICK response \in Replies :
        /\ reader' = [reader EXCEPT !.request.reply = response]
        /\ response.xml = xml /\ response.stale = Response.stale
  BY <1>2
<1> DEFINE request == [reader.request EXCEPT !.reply = response]
<1>4. /\ request \in Requests /\ request.owner = reader.request.owner
      /\ request.since = reader.request.since /\ request.reply = response
  BY <1>1 DEF Requests
<1>5. reader' = [reader EXCEPT !.request = request]
  BY <1>3
<1> HIDE DEF request
<1>6. /\ reader' \in Readers /\ reader'.running = reader.running
      /\ reader'.hidden = reader.hidden /\ reader'.generation = reader.generation
      /\ reader'.next_check = reader.next_check /\ reader'.timer = reader.timer
      /\ reader'.request = request /\ reader'.request # None
  BY <1>1, <1>4, <1>5, Constants DEF Readers
<1>6a. ClockInv' /\ Latest' = Latest /\ planned' = planned
  BY <1>1, <1>6, ClockStays DEF FeedInv
<1>7. PageInv'
  BY <1>1, <1>2, <1>6 DEF FeedInv, PageInv
<1>8. TimerInv'
  BY <1>1, <1>2, <1>6, <1>6a DEF FeedInv, TimerInv
<1>9. RequestInv'
  BY <1>1, <1>2, <1>4, <1>6, <1>6a DEF FeedInv, RequestInv
<1>10. response.xml # None /\ ~ response.stale =>
         reader.request.since < response.xml + RefreshInterval
  <2> SUFFICES ASSUME xml # None, ~ Response.stale
               PROVE  reader.request.since < xml + RefreshInterval
    BY <1>3
  <2>1. ~ stale /\ ~ Expired
    BY DEF Response
  <2>2. checked_at # None /\ ~ (now - checked_at >= RefreshInterval)
    BY <2>1 DEF Expired
  <2>3. xml = checked_at /\ xml \in Nat
    BY <1>1, <2>1, <2>2 DEF CacheInv, TypeOK
  <2>4. reader.request.since \in Nat /\ reader.request.since <= now
    BY <1>1 DEF FeedInv, RequestInv, Requests
  <2> QED
    BY <1>1, <2>2, <2>3, <2>4, Constants
<1>11. ReplyInv'
  <2>1. response.xml \in {None} \union 0 .. now
    BY <1>1, <1>3 DEF CacheInv, TypeOK
  <2> QED
    BY <1>2, <1>3, <1>4, <1>6, <1>10, <2>1 DEF ReplyInv
<1>12. ShownInv'
  BY <1>1, <1>2, <1>6, <1>6a DEF FeedInv, ShownInv
<1> QED
  BY <1>2, <1>6a, <1>7, <1>8, <1>9, <1>11, <1>12 DEF FeedInv

(* The end of a request, answered or not: the page waits for the next      *)
(* check, or asks again at once if it has just come back.                  *)
LEMMA ConcludedKeeps ==
    ASSUME FeedInv, reader.request # None, NEW delay \in {RetrySoon, RetryDelay},
           reader' = Concluded(reader, delay), Plans(delay),
           now' = now, smooth' \in {smooth, now}
    PROVE  /\ ClockInv' /\ PageInv' /\ TimerInv' /\ RequestInv' /\ ReplyInv'
           /\ planned' = IF Current(reader) THEN now + delay ELSE planned
<1>1. /\ reader \in Readers /\ now \in Nat /\ delay \in Nat /\ delay > 0
      /\ reader.request \in Requests /\ reader.next_check \in Nat
      /\ smooth \in Nat /\ smooth <= now
      /\ skew \in Nat /\ planned \in Nat /\ behind \in Nat /\ Latest \in Nat
      /\ skew \in 0 .. MaxSkew /\ reader.next_check <= Latest + skew
  BY Constants, ClockNumbers DEF FeedInv, PageInv, CacheInv, ClockInv, Readers
<1>2. /\ reader' \in Readers
      /\ reader'.running = reader.running /\ reader'.hidden = reader.hidden
      /\ reader'.generation = reader.generation /\ reader'.request = None
      /\ reader'.next_check =
           IF Current(reader) THEN now + skew + delay ELSE reader.next_check
      /\ ~ reader.running \/ reader.hidden => reader'.timer = None
      /\ reader.running /\ ~ reader.hidden =>
           reader'.timer = IF reader'.next_check > now + skew
                           THEN reader'.next_check - skew ELSE now
      /\ skew' = skew
      /\ planned' = IF Current(reader) THEN now + delay ELSE planned
      /\ behind' = IF Current(reader) THEN 0 ELSE behind
  BY <1>1, ConcludedShape DEF Plans
<1>3. smooth' \in Nat /\ smooth <= smooth' /\ smooth' <= now
  BY <1>1
<1>4. reader.running => ~ reader.hidden
  BY DEF FeedInv, PageInv
<1>5. reader'.next_check \in Nat
  BY <1>2 DEF Readers
<1>6. PageInv'
  <2>1. reader'.timer # None => reader'.running /\ reader'.request = None
    BY <1>2, <1>4
  <2>2. reader'.running => reader'.timer # None
    <3>1. reader'.running => reader'.timer \in Nat
      BY <1>1, <1>2, <1>4, <1>5
    <3> QED
      BY <3>1, Constants
  <2> QED
    BY <1>2, <1>3, <2>1, <2>2 DEF FeedInv, PageInv
<1>7. TimerInv'
  <2> SUFFICES ASSUME reader.running
               PROVE  /\ now <= reader'.timer
                      /\ \/ reader'.timer <= Latest'
                         \/ reader'.timer <= now /\ reader'.timer <= smooth' + ReaderTimeout
    BY <1>2 DEF TimerInv
  <2>1. reader'.timer = IF reader'.next_check > now + skew
                        THEN reader'.next_check - skew ELSE now
    BY <1>2, <1>4
  <2>2. CASE Current(reader)
    BY <1>1, <1>2, <2>1, <2>2 DEF Latest
  <2>3. CASE ~ Current(reader)
    <3>1. reader.request.owner # reader.generation
      BY <1>4, <2>3 DEF Current
    <3>2. /\ reader.request.since \in Nat /\ reader.request.since <= smooth
          /\ now <= reader.request.since + ReaderTimeout
      BY <1>1, <3>1 DEF FeedInv, RequestInv, Requests
    <3>3. now <= smooth' + ReaderTimeout
      <4>1. \A since, a, b \in Nat :
              now <= since + ReaderTimeout /\ since <= a /\ a <= b => now <= b + ReaderTimeout
        BY <1>1, Constants
      <4> QED
        BY <1>1, <1>3, <3>2, <4>1
    <3>4. Latest' = Latest /\ reader'.next_check <= Latest + skew
      BY <1>1, <1>2, <2>3 DEF Latest
    <3> QED
      BY <1>1, <1>5, <2>1, <3>3, <3>4
  <2> QED
    BY <2>2, <2>3
<1>8. RequestInv' /\ ReplyInv'
  BY <1>2 DEF RequestInv, ReplyInv
<1>9. ClockInv'
  <2>1. CASE Current(reader)
    BY <1>1, <1>2, <2>1, Constants DEF ClockInv, Latest
  <2>2. CASE ~ Current(reader)
    BY <1>1, <1>2, <2>2 DEF FeedInv, ClockInv, Latest
  <2> QED
    BY <2>1, <2>2
<1> QED
  BY <1>2, <1>6, <1>7, <1>8, <1>9

LEMMA UnansweredKeeps ==
    ASSUME FeedInv, Unanswered
    PROVE  FeedInv'
<1>1. PICK delay \in {RetrySoon, RetryDelay} : reader' = Concluded(reader, delay) /\ Plans(delay)
  BY DEF Unanswered
<1>2. /\ reader.request # None /\ shown' = shown /\ smooth' = now /\ UNCHANGED vars
      /\ notice' = IF Current(reader) THEN "failed" ELSE notice
      /\ now' = now /\ xml' = xml /\ now \in Nat
  BY DEF Unanswered, FeedInv, CacheInv, vars, cacheVars
<1>3. CacheInv'
  BY <1>2, CacheStays DEF FeedInv
<1>4. /\ ClockInv' /\ PageInv' /\ TimerInv' /\ RequestInv' /\ ReplyInv'
      /\ planned' = IF Current(reader) THEN now + delay ELSE planned
  BY <1>1, <1>2, ConcludedKeeps
<1>5. ShownInv'
  <2>1. CASE Current(reader)
    <3>1. planned' = now + delay /\ notice' = "failed" /\ Delay' = RetryDelay
      BY <1>2, <1>4, <2>1 DEF Delay
    <3>2. now + delay <= now + RetryDelay /\ delay \in Nat
      BY <1>2, Constants
    <3> QED
      BY <1>2, <3>1, <3>2 DEF FeedInv, ShownInv, Notices
  <2>2. CASE ~ Current(reader)
    <3>1. planned' = planned /\ notice' = notice /\ Delay' = Delay
      BY <1>2, <1>4, <2>2 DEF Delay
    <3>2. planned <= smooth' + Delay
      BY <1>2 DEF FeedInv, ShownInv
    <3> QED
      BY <1>2, <3>1, <3>2 DEF FeedInv, ShownInv
  <2> QED
    BY <2>1, <2>2
<1> QED
  BY <1>3, <1>4, <1>5 DEF FeedInv

(* An answer shows the newest feed, or its request was there before that   *)
(* feed arrived.                                                           *)
LEMMA AnsweredKeeps ==
    ASSUME FeedInv, Answered
    PROVE  FeedInv'
<1> DEFINE reply == reader.request.reply
           delay == IF reply.refreshing THEN RetrySoon ELSE RetryDelay
<1>1. /\ reader.request # None /\ reply # None /\ smooth' = smooth /\ UNCHANGED vars
      /\ reader' = Concluded(reader, delay) /\ Plans(delay)
      /\ shown' = IF Current(reader) /\ reply.xml # None THEN reply.xml ELSE shown
      /\ notice' = IF ~ Current(reader) THEN notice
                   ELSE IF reply.xml = None THEN "failed"
                   ELSE IF reply.refreshing THEN "refreshing"
                   ELSE IF reply.stale THEN "stale" ELSE "current"
      /\ now' = now /\ xml' = xml /\ now \in Nat
  BY DEF Answered, FeedInv, CacheInv, vars, cacheVars
<1>2. /\ reader.request \in Requests /\ reply \in Replies
      /\ reader.request.since \in Nat /\ now <= reader.request.since + ReaderTimeout
      /\ xml \in {None} \union 0 .. now /\ smooth \in Nat
  BY <1>1 DEF FeedInv, CacheInv, TypeOK, PageInv, RequestInv, Readers, Requests
<1>3. /\ reply.xml \in {None} \union 0 .. now
      /\ xml # None => reply.xml = xml \/ reader.request.since <= xml
      /\ reply.xml # None /\ ~ reply.stale
            => reader.request.since < reply.xml + RefreshInterval
  BY <1>1 DEF FeedInv, ReplyInv
<1>4. CacheInv'
  BY <1>1, CacheStays DEF FeedInv
<1>5. delay \in {RetrySoon, RetryDelay}
  OBVIOUS
<1>6. /\ ClockInv' /\ PageInv' /\ TimerInv' /\ RequestInv' /\ ReplyInv'
      /\ planned' = IF Current(reader) THEN now + delay ELSE planned
  BY <1>1, <1>5, ConcludedKeeps
<1>7. ShownInv'
  <2>1. CASE Current(reader)
    <3>1. planned' = now + delay
      BY <1>6, <2>1
    <3>2. delay \in Nat /\ delay <= Delay'
      <4>1. notice' = "refreshing" => reply.refreshing
        BY <1>1, <2>1
      <4>2. delay = IF reply.refreshing THEN RetrySoon ELSE RetryDelay
        OBVIOUS
      <4>3. Delay' = IF notice' = "refreshing" THEN RetrySoon ELSE RetryDelay
        BY DEF Delay
      <4> HIDE DEF delay, reply
      <4> QED
        BY <4>1, <4>2, <4>3, Constants
    <3>3. notice' \in Notices
      BY <1>1, <2>1 DEF Notices
    <3>4. shown' \in {None} \union 0 .. now
      BY <1>1, <1>3 DEF FeedInv, ShownInv
    <3>5. Delay' \in Nat
      BY Constants DEF Delay
    <3>6. xml # None /\ shown' # xml => now + delay <= xml + ReaderTimeout + Delay'
      <4> SUFFICES ASSUME xml # None, shown' # xml
                   PROVE  now + delay <= xml + ReaderTimeout + Delay'
        OBVIOUS
      <4>1. reply.xml # xml
        BY <1>1, <2>1
      <4>2. reader.request.since <= xml /\ xml \in Nat
        BY <1>2, <1>3, <4>1
      <4>3. \A since, new, d, e \in Nat :
              now <= since + ReaderTimeout /\ since <= new /\ d <= e
                => now + d <= new + ReaderTimeout + e
        BY <1>1, Constants
      <4> HIDE DEF delay
      <4> QED
        BY <1>2, <3>2, <3>5, <4>2, <4>3
    <3>7. notice' = "current" =>
            /\ shown' # None
            /\ now + delay < shown' + RefreshInterval + ReaderTimeout + RetryDelay
      <4> SUFFICES ASSUME notice' = "current"
                   PROVE  /\ shown' # None
                          /\ now + delay < shown' + RefreshInterval + ReaderTimeout + RetryDelay
        OBVIOUS
      <4>1. reply.xml # None /\ ~ reply.refreshing /\ ~ reply.stale
        BY <1>1, <2>1
      <4>2. shown' = reply.xml /\ reply.xml \in Nat /\ delay = RetryDelay
        BY <1>1, <1>3, <2>1, <4>1
      <4>3. reader.request.since < reply.xml + RefreshInterval
        BY <1>3, <4>1
      <4> HIDE DEF delay
      <4> QED
        BY <1>1, <1>2, <4>1, <4>2, <4>3, Constants
    <3> HIDE DEF delay
    <3>8. now + delay <= now + Delay'
      <4>1. \A d, e \in Nat : d <= e => now + d <= now + e
        BY <1>1
      <4> QED
        BY <3>2, <3>5, <4>1
    <3> QED
      BY <1>1, <3>1, <3>3, <3>4, <3>6, <3>7, <3>8 DEF ShownInv
  <2>2. CASE ~ Current(reader)
    <3>1. /\ planned' = planned /\ notice' = notice /\ Delay' = Delay
          /\ shown' = shown
      BY <1>1, <1>6, <2>2 DEF Delay
    <3> QED
      BY <1>1, <3>1 DEF FeedInv, ShownInv
  <2> QED
    BY <2>1, <2>2
<1> QED
  BY <1>4, <1>6, <1>7 DEF FeedInv

-----------------------------------------------------------------------------
LEMMA FeedStep ==
    FeedInv /\ [ReaderNext]_allVars => FeedInv'
<1> SUFFICES ASSUME FeedInv, [ReaderNext]_allVars PROVE FeedInv'
  OBVIOUS
<1>1. CASE UNCHANGED allVars
  <2>1. UNCHANGED vars /\ UNCHANGED readerVars /\ now' = now /\ xml' = xml
    BY <1>1 DEF allVars, vars, cacheVars
  <2> QED
    BY <2>1, CacheStays, ServerKeepsPage DEF FeedInv
<1>2. CASE \E f \in Fetches : ReadAndRefresh(f) /\ UNCHANGED readerVars
  <2>1. PICK f \in Fetches : ReadAndRefresh(f) /\ UNCHANGED readerVars
    BY <1>2
  <2>2. now' = now /\ xml' = xml
    BY <2>1 DEF ReadAndRefresh
  <2> QED
    BY <2>1, <2>2, CacheReserves, ServerKeepsPage DEF FeedInv
<1>3. CASE \E f \in Fetches : (FetchSucceeds(f) \/ FetchFails(f)) /\ UNCHANGED readerVars
  <2>1. PICK f \in Fetches : (FetchSucceeds(f) \/ FetchFails(f)) /\ UNCHANGED readerVars
    BY <1>3
  <2>2. now' = now /\ (xml' = xml \/ xml' = now)
    BY <2>1 DEF FetchSucceeds, FetchFails, Ended
  <2> QED
    BY <2>1, <2>2, CacheEnds, ServerKeepsPage DEF FeedInv
<1> QED
  BY <1>1, <1>2, <1>3, HideKeeps, ShowKeeps, FireKeeps, ServeKeeps, AnsweredKeeps,
     UnansweredKeeps, AdjustKeeps, PageTicks DEF ReaderNext

THEOREM FeedInvariant == ReaderSpec => []FeedInv
  BY ReaderBegins, FeedStep, PTL DEF ReaderSpec

(* The types, of the page and of the cache it reads.                       *)
THEOREM ReaderTypes == ReaderSpec => []ReaderTypeOK
<1>1. FeedInv => ReaderTypeOK
  <2> SUFFICES ASSUME FeedInv PROVE ReaderTypeOK
    OBVIOUS
  <2>1. /\ TypeOK /\ now \in Nat /\ reader \in Readers /\ reader.generation <= MaxGeneration
        /\ notice \in Notices /\ shown \in {None} \union 0 .. now
    BY DEF FeedInv, CacheInv, PageInv, ShownInv
  <2>2. /\ reader.running \in BOOLEAN /\ reader.hidden \in BOOLEAN
        /\ reader.generation \in 0 .. MaxGeneration
    BY <2>1, Constants DEF Readers
  <2>3. reader.timer \in {None} \union now .. now + RetryDelay + MaxSkew
    <3>1. /\ reader.timer # None => reader.timer \in Nat
          /\ planned \in Nat /\ Latest \in Nat /\ Latest <= planned + MaxSkew
      BY <2>1, ClockNumbers DEF FeedInv, Readers
    <3>2. planned <= now + Delay /\ Delay \in Nat /\ Delay <= RetryDelay
      BY Constants DEF FeedInv, ShownInv, Delay
    <3>3. reader.timer # None => /\ now <= reader.timer
                                 /\ reader.timer <= Latest \/ reader.timer <= now
      BY DEF FeedInv, TimerInv
    <3> QED
      BY <2>1, <3>1, <3>2, <3>3, Constants
  <2>4. reader.request # None =>
          /\ reader.request.since \in now - ReaderTimeout .. now
          /\ reader.request.owner \in 1 .. reader.generation
    <3>1. reader.request # None => reader.request.since \in Nat
      BY <2>1 DEF Readers, Requests
    <3> QED
      BY <2>1, <3>1, Constants DEF FeedInv, RequestInv
  <2>5. skew \in 0 .. MaxSkew /\ behind \in 0 .. MaxSkew
    BY DEF FeedInv, ClockInv
  <2> QED
    BY <2>1, <2>2, <2>3, <2>4, <2>5 DEF ReaderTypeOK, Notices
<1> QED
  BY <1>1, FeedInvariant, PTL

(* refreshing says exactly that one fetch runs, and no two ever do         *)
(* (news.rs:64-97): a reservation is given back once, by the fetch it was  *)
(* made for.                                                               *)
THEOREM OneFetchAtATime == ReaderSpec => []OneFetch
<1>1. FeedInv => OneFetch
  <2> SUFFICES ASSUME CacheInv PROVE OneFetch
    BY DEF FeedInv
  <2> DEFINE running == {f \in Fetches : Running(f)}
  <2>1. CASE refreshing
    <3>1. PICK f \in Fetches : Running(f)
      BY <2>1 DEF CacheInv
    <3>2. running = {f}
      BY <3>1 DEF CacheInv
    <3>3. Cardinality({f}) = 1
      BY FS_Singleton
    <3> QED
      BY <2>1, <3>2, <3>3 DEF OneFetch
  <2>2. CASE ~ refreshing
    <3>1. running = {}
      BY <2>2 DEF CacheInv
    <3>2. Cardinality({}) = 0
      BY FS_EmptySet
    <3> QED
      BY <2>2, <3>1, <3>2 DEF OneFetch
  <2> QED
    BY <2>1, <2>2
<1> QED
  BY <1>1, FeedInvariant, PTL

(* While the page is visible its plan is not long past: either it came     *)
(* back only lately, or what its clock was set back by and a request       *)
(* deadline ago at most.                                                   *)
LEMMA ChecksInTime ==
    ASSUME FeedInv, Visible
    PROVE  now <= Latest + ReaderTimeout \/ now <= smooth + 2 * ReaderTimeout
<1>1. /\ reader \in Readers /\ now \in Nat /\ Latest \in Nat /\ smooth \in Nat
      /\ reader.timer # None \/ reader.request # None
  BY ClockNumbers DEF FeedInv, PageInv, CacheInv, Readers, Visible
<1>2. CASE reader.timer # None
  <2>1. reader.timer \in Nat
    BY <1>1, <1>2 DEF Readers
  <2>2. /\ now <= reader.timer
        /\ reader.timer <= Latest \/ reader.timer <= smooth + ReaderTimeout
    BY <1>2 DEF FeedInv, TimerInv
  <2> QED
    BY <1>1, <2>1, <2>2, Constants
<1>3. CASE reader.request # None
  <2>1. reader.request.since \in Nat
    BY <1>1, <1>3 DEF Readers, Requests
  <2>2. /\ now <= reader.request.since + ReaderTimeout
        /\ \/ reader.request.since <= Latest
           \/ reader.request.since <= smooth + ReaderTimeout
    BY <1>3 DEF FeedInv, RequestInv, Visible
  <2> QED
    BY <1>1, <2>1, <2>2, Constants
<1> QED
  BY <1>1, <1>2, <1>3

(* A page that says its headlines are current shows none older than two    *)
(* intervals and two requests explain, and what its wall clock was set     *)
(* back by since it planned (dashboard.js:310-316, :374-378, :385-391).    *)
THEOREM Honesty == ReaderSpec => []NoticeHonest
<1>1. FeedInv => NoticeHonest
  <2> SUFFICES ASSUME FeedInv, Visible, notice = "current", now > smooth + 2 * ReaderTimeout
               PROVE  now - shown < RefreshInterval + RetryDelay + behind + 2 * ReaderTimeout
    BY DEF NoticeHonest
  <2>1. now \in Nat /\ smooth \in Nat /\ planned \in Nat /\ behind \in Nat
    BY ClockNumbers DEF FeedInv, CacheInv, PageInv
  <2>2. shown \in Nat /\ planned < shown + RefreshInterval + ReaderTimeout + RetryDelay
    BY DEF FeedInv, ShownInv
  <2>3. now <= planned + behind + ReaderTimeout
    BY <2>1, ChecksInTime, Constants DEF Latest
  <2> QED
    BY <2>1, <2>2, <2>3, Constants
<1> QED
  BY <1>1, FeedInvariant, PTL

(* What the server has fetched reaches a visible, unrefused page within    *)
(* one delay and two requests, and what its wall clock was set back by;    *)
(* the delay is short once the page knows that the server fetches          *)
(* (dashboard.js:310-339, :374-378, :385-391).                             *)
THEOREM Arrival == ReaderSpec => []HeadlinesArrive
<1>1. FeedInv => HeadlinesArrive
  <2> SUFFICES ASSUME FeedInv, Visible, xml # None,
                      now > xml + (behind + Delay) + 2 * ReaderTimeout,
                      now > smooth + (behind + Delay) + 2 * ReaderTimeout, shown # xml
               PROVE  FALSE
    BY DEF HeadlinesArrive, Delay
  <2>1. /\ now \in Nat /\ smooth \in Nat /\ xml \in Nat /\ Delay \in Nat
        /\ planned \in Nat /\ behind \in Nat
    BY ClockNumbers, Constants DEF FeedInv, CacheInv, TypeOK, PageInv, Delay
  <2>2. planned <= smooth + Delay \/ planned <= xml + ReaderTimeout + Delay
    BY DEF FeedInv, ShownInv
  <2>3. now <= planned + behind + ReaderTimeout \/ now <= smooth + 2 * ReaderTimeout
    BY ChecksInTime DEF Latest
  <2> QED
    BY <2>1, <2>2, <2>3, Constants
<1> QED
  BY <1>1, FeedInvariant, PTL
=============================================================================
