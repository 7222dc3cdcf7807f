------------------------ MODULE ProviderClientProofs ------------------------
(***************************************************************************)
(* What the provider requests of a refresh promise, proved for every set   *)
(* of plans, every limit and every pair of timeouts: a quote is stored     *)
(* exactly when the provider gave a genuine one, a failure is named after  *)
(* what happened, and the join is over by the one deadline.                *)
(*                                                                         *)
(* The invariant says of each fetch, whatever the others do, how far the   *)
(* client's knowledge of its exchange (fetch[s]) agrees with what the      *)
(* provider did (upstream[s]): while it is under way they hold the same    *)
(* bytes of the same length, within the limit, before the deadline; once   *)
(* it is done, the outcome is the right one.                               *)
(***************************************************************************)
EXTENDS ProviderClient, TLAPS

Fates == {"none", "broken", "refused", "answered"}
Kinds == {"Quote", "InvalidPrice", "InvalidPayload", "Http", "Timeout", "Transport"}
Lengths == {None} \union Nat

Outcomes == [kind : Kinds, hint : RetryHeaders, at : Nat]
Fetches == [pc : {"connect", "headers", "body", "done"}, length : Lengths, body : Nat,
            outcome : {None} \union Outcomes]
Exchanges(s) == [fate : Fates, connected : BOOLEAN, retry : RetryHeaders, length : Lengths,
                 sent : Nat, document : Documents(s)]

Shapes ==
    /\ now \in Nat
    /\ Asked \subseteq UpstreamSource
    /\ fetch \in [Asked -> Fetches]
    /\ upstream = [s \in Asked |-> upstream[s]]
    /\ \A s \in Asked : upstream[s] \in Exchanges(s)

Within(length) == length = None \/ length <= BodyLimit

\* An exchange under way, at time t.
UnderWay(f, u, t) ==
    /\ u.fate = "none" /\ u.retry = None
    /\ u.connected = IF f.pc = "connect" THEN FALSE ELSE TRUE
    /\ u.length = f.length /\ Within(u.length)
    /\ u.sent = f.body /\ u.sent <= BodyLimit
    /\ f.pc = "connect" => t <= ConnectTimeout
    /\ t <= RequestTimeout

\* Genuine, of what provider s did.
GenuineAnswer(s, u) ==
    /\ u.fate = "answered"
    /\ u.sent <= BodyLimit
    /\ u.document # None
    /\ u.document.form \in BitcoinForms[s]
    /\ u.document.amount = [type |-> AmountType(s), value |-> "positive"]

\* CauseNamed, of one outcome.
RightCause(outcome, u) ==
    LET oversized == u.sent > BodyLimit \/ (u.length # None /\ u.length > BodyLimit)
        legible == u.retry # None /\ u.retry.kind # "illegible"
    IN /\ outcome.kind = "Transport" <=> u.fate = "broken"
       /\ outcome.kind = "Http" <=> u.fate = "refused"
       /\ outcome.kind = "Timeout" <=> u.fate = "none" /\ ~ oversized
       /\ outcome.kind = "Timeout" =>
            outcome.at = IF u.connected THEN RequestTimeout ELSE ConnectTimeout
       /\ outcome.hint = IF u.fate = "refused" /\ legible THEN u.retry ELSE None

Over(s, f, u) ==
    /\ f.outcome.kind = "Quote" <=> GenuineAnswer(s, u)
    /\ RightCause(f.outcome, u)

Agrees(s, f, u, t) == IF f.pc = "done" THEN Over(s, f, u) ELSE UnderWay(f, u, t)

ClientInv ==
    /\ Shapes
    /\ \A s \in Asked : Agrees(s, fetch[s], upstream[s], now)
-----------------------------------------------------------------------------
(* A provider's documents are recognised exactly.                          *)

LEMMA FormsRecognised ==
    ASSUME NEW s \in UpstreamSource, NEW form \in BitcoinForms[s] \union OtherForms[s]
    PROVE  Accepts(s, form) <=> form \in BitcoinForms[s]
<1>1. CASE s = "CoinGecko"
  BY <1>1 DEF Accepts, BitcoinForms, fetch_coingecko
<1>2. CASE s = "Coinbase"
  BY <1>2 DEF Accepts, BitcoinForms, OtherForms, fetch_coinbase
<1>3. CASE s = "Kraken"
  BY <1>3 DEF Accepts, BitcoinForms, OtherForms, fetch_kraken
<1>4. CASE s = "Gemini"
  BY <1>4 DEF Accepts, BitcoinForms, fetch_gemini
<1> QED
  BY <1>1, <1>2, <1>3, <1>4 DEF UpstreamSource

LEMMA AmountsRecognised ==
    ASSUME NEW s \in UpstreamSource, NEW amount \in Amounts
    PROVE  amount = [type |-> AmountType(s), value |-> "positive"]
             <=> /\ amount # None
                 /\ amount.type = AmountType(s)
                 /\ amount.value = "positive"
<1>1. AmountType(s) \in {"number", "string"}
  BY DEF AmountType
<1>2. [type |-> AmountType(s), value |-> "positive"] # None
  <2>1. [type |-> AmountType(s), value |-> "positive"]
          \in [type : {"number", "string"},
               value : {"positive", "zero", "negative", "infinite", "no number"}]
    BY <1>1
  <2> QED
    BY <2>1, AmountAssumption
<1>3. ASSUME amount # None PROVE amount = [type |-> amount.type, value |-> amount.value]
  BY <1>3 DEF Amounts
<1> QED
  BY <1>2, <1>3

LEMMA QuotesRecognised ==
    ASSUME NEW s \in UpstreamSource, NEW document \in Documents(s)
    PROVE  /\ Outcome(s, document) \in {"Quote", "InvalidPrice", "InvalidPayload"}
           /\ Outcome(s, document) = "Quote"
                <=> /\ document # None
                    /\ document.form \in BitcoinForms[s]
                    /\ document.amount = [type |-> AmountType(s), value |-> "positive"]
<1>1. CASE document = None
  BY <1>1 DEF Outcome
<1>2. CASE document # None
  <2>1. document.form \in BitcoinForms[s] \union OtherForms[s] /\ document.amount \in Amounts
    BY <1>2 DEF Documents
  <2>2. Accepts(s, document.form) <=> document.form \in BitcoinForms[s]
    BY <2>1, FormsRecognised
  <2>3. document.amount = [type |-> AmountType(s), value |-> "positive"]
          <=> /\ document.amount # None
              /\ document.amount.type = AmountType(s)
              /\ document.amount.value = "positive"
    BY <2>1, AmountsRecognised
  <2> QED
    BY <1>2, <2>2, <2>3 DEF Outcome, PriceOutcome
<1> QED
  BY <1>1, <1>2

-----------------------------------------------------------------------------
(* A step of one exchange, that keeps it in order, disturbs no other.      *)

LEMMA OneExchange ==
    ASSUME ClientInv, NEW s \in Asked, NEW f \in Fetches, NEW u \in Exchanges(s),
           Agrees(s, f, u, now),
           fetch' = [fetch EXCEPT ![s] = f], upstream' = [upstream EXCEPT ![s] = u], now' = now
    PROVE  ClientInv'
<1>1. Asked' = Asked
  BY DEF Asked
<1>2. Shapes /\ \A q \in Asked : Agrees(q, fetch[q], upstream[q], now)
  BY DEF ClientInv
<1>3. /\ fetch'[s] = f /\ upstream'[s] = u
      /\ \A q \in Asked \ {s} : fetch'[q] = fetch[q] /\ upstream'[q] = upstream[q]
  BY <1>2 DEF Shapes, Asked
<1>4. Shapes'
  BY <1>1, <1>2, <1>3 DEF Shapes, Exchanges
<1>5. \A q \in Asked : Agrees(q, fetch'[q], upstream'[q], now')
  BY <1>2, <1>3
<1> QED
  BY <1>1, <1>4, <1>5 DEF ClientInv, Agrees, Over, UnderWay

(* How a fetch ends: its record is well formed, whatever the outcome.      *)
LEMMA EndedShape ==
    ASSUME NEW kind \in Kinds, NEW hint \in RetryHeaders, now \in Nat
    PROVE  /\ [Started EXCEPT !.pc = "done",
                 !.outcome = [kind |-> kind, hint |-> hint, at |-> now]] \in Fetches
           /\ [Started EXCEPT !.pc = "done",
                 !.outcome = [kind |-> kind, hint |-> hint, at |-> now]].pc = "done"
           /\ [Started EXCEPT !.pc = "done",
                 !.outcome = [kind |-> kind, hint |-> hint, at |-> now]].outcome
                = [kind |-> kind, hint |-> hint, at |-> now]
  BY DEF Started, Fetches, Outcomes, Lengths

LEMMA EndingExchange ==
    ASSUME ClientInv, NEW s \in Asked, NEW kind \in Kinds, NEW hint \in RetryHeaders,
           NEW u \in Exchanges(s),
           kind = "Quote" <=> GenuineAnswer(s, u),
           RightCause([kind |-> kind, hint |-> hint, at |-> now], u),
           Ends(s, kind, hint), upstream' = [upstream EXCEPT ![s] = u], now' = now
    PROVE  ClientInv'
<1> DEFINE f == [Started EXCEPT !.pc = "done",
                    !.outcome = [kind |-> kind, hint |-> hint, at |-> now]]
<1>1. now \in Nat
  BY DEF ClientInv, Shapes
<1>2. f \in Fetches /\ f.pc = "done" /\ f.outcome = [kind |-> kind, hint |-> hint, at |-> now]
  BY <1>1, EndedShape
<1>3. fetch' = [fetch EXCEPT ![s] = f]
  BY DEF Ends
<1> HIDE DEF f
<1>4. f.outcome.kind = kind
  BY <1>2
<1>5. Agrees(s, f, u, now)
  BY <1>2, <1>4 DEF Agrees, Over
<1> QED
  BY <1>2, <1>3, <1>5, OneExchange

(* What is known of an exchange under way.                                 *)
LEMMA StillOpen ==
    ASSUME ClientInv, NEW s \in Asked, fetch[s].pc # "done"
    PROVE  /\ UnderWay(fetch[s], upstream[s], now)
           /\ fetch[s] \in Fetches /\ upstream[s] \in Exchanges(s) /\ s \in UpstreamSource
           /\ now \in Nat
  BY DEF ClientInv, Shapes, Agrees

-----------------------------------------------------------------------------
LEMMA ConnectsStep ==
    ASSUME ClientInv, NEW s \in Asked, Connects(s)
    PROVE  ClientInv'
<1> DEFINE f == [fetch[s] EXCEPT !.pc = "headers"]
           u == [upstream[s] EXCEPT !.connected = TRUE]
<1>1. /\ fetch[s].pc = "connect" /\ now' = now
      /\ fetch' = [fetch EXCEPT ![s] = f] /\ upstream' = [upstream EXCEPT ![s] = u]
  BY DEF Connects, Provider
<1>2. /\ UnderWay(fetch[s], upstream[s], now) /\ now \in Nat
      /\ fetch[s] \in Fetches /\ upstream[s] \in Exchanges(s)
  BY <1>1, StillOpen
<1>3. f \in Fetches /\ f.pc = "headers" /\ f.length = fetch[s].length /\ f.body = fetch[s].body
  BY <1>2 DEF Fetches
<1>4. /\ u \in Exchanges(s) /\ u.connected = TRUE /\ u.fate = upstream[s].fate
      /\ u.retry = upstream[s].retry /\ u.length = upstream[s].length
      /\ u.sent = upstream[s].sent
  BY <1>2 DEF Exchanges
<1> HIDE DEF f, u
<1>5. Agrees(s, f, u, now)
  BY <1>2, <1>3, <1>4 DEF Agrees, UnderWay, Within
<1> QED
  BY <1>1, <1>3, <1>4, <1>5, OneExchange

LEMMA BreaksStep ==
    ASSUME ClientInv, NEW s \in Asked, Breaks(s)
    PROVE  ClientInv'
<1> DEFINE u == [upstream[s] EXCEPT !.fate = "broken"]
<1>1. /\ fetch[s].pc # "done" /\ now' = now
      /\ Ends(s, "Transport", None) /\ upstream' = [upstream EXCEPT ![s] = u]
  BY DEF Breaks, Provider, FromReqwest
<1>2. upstream[s] \in Exchanges(s)
  BY <1>1, StillOpen
<1>3. u \in Exchanges(s) /\ u.fate = "broken"
  BY <1>2 DEF Exchanges, Fates
<1> HIDE DEF u
<1>4. RightCause([kind |-> "Transport", hint |-> None, at |-> now], u)
  BY <1>3 DEF RightCause
<1>5. ~ GenuineAnswer(s, u)
  BY <1>3 DEF GenuineAnswer
<1>6. "Transport" \in Kinds /\ None \in RetryHeaders
  BY DEF Kinds, RetryHeaders
<1> QED
  BY <1>1, <1>3, <1>4, <1>5, <1>6, EndingExchange

LEMMA RefusesStep ==
    ASSUME ClientInv, NEW s \in Asked, Refuses(s)
    PROVE  ClientInv'
<1>1. PICK retry \in RetryHeaders :
        /\ Ends(s, "Http", Parse(retry))
        /\ upstream' = [upstream EXCEPT ![s] =
                            [upstream[s] EXCEPT !.fate = "refused", !.retry = retry]]
  BY DEF Refuses, Provider
<1> DEFINE u == [upstream[s] EXCEPT !.fate = "refused", !.retry = retry]
<1>2. fetch[s].pc # "done" /\ now' = now
  BY DEF Refuses
<1>3. upstream[s] \in Exchanges(s)
  BY <1>2, StillOpen
<1>4. u \in Exchanges(s) /\ u.fate = "refused" /\ u.retry = retry
  BY <1>3 DEF Exchanges, Fates
<1>5. upstream' = [upstream EXCEPT ![s] = u]
  BY <1>1
<1> HIDE DEF u
<1>6. Parse(retry) = IF retry # None /\ retry.kind # "illegible" THEN retry ELSE None
  BY DEF Parse
<1>7. RightCause([kind |-> "Http", hint |-> Parse(retry), at |-> now], u)
  BY <1>4, <1>6 DEF RightCause
<1>8. ~ GenuineAnswer(s, u)
  BY <1>4 DEF GenuineAnswer
<1>9. "Http" \in Kinds /\ Parse(retry) \in RetryHeaders
  BY <1>6 DEF Kinds, RetryHeaders
<1> QED
  BY <1>1, <1>2, <1>4, <1>5, <1>7, <1>8, <1>9, EndingExchange

LEMMA SucceedsStep ==
    ASSUME ClientInv, NEW s \in Asked, Succeeds(s)
    PROVE  ClientInv'
<1>1. PICK length \in {None} \union 0 .. BodyLimit + 1 :
        /\ IF length # None /\ length > BodyLimit
           THEN Ends(s, "InvalidPayload", None)
           ELSE fetch' = [fetch EXCEPT ![s].pc = "body", ![s].length = length]
        /\ upstream' = [upstream EXCEPT ![s] = [upstream[s] EXCEPT !.length = length]]
  BY DEF Succeeds, Provider
<1> DEFINE u == [upstream[s] EXCEPT !.length = length]
<1>2. fetch[s].pc = "headers" /\ now' = now
  BY DEF Succeeds
<1>3. /\ UnderWay(fetch[s], upstream[s], now) /\ now \in Nat
      /\ fetch[s] \in Fetches /\ upstream[s] \in Exchanges(s)
  BY <1>2, StillOpen
<1>4. length \in Lengths
  BY ClientAssumption DEF Lengths
<1>5. /\ u \in Exchanges(s) /\ u.length = length /\ u.connected = upstream[s].connected
      /\ u.fate = upstream[s].fate /\ u.retry = upstream[s].retry /\ u.sent = upstream[s].sent
  BY <1>3, <1>4 DEF Exchanges
<1>6. upstream' = [upstream EXCEPT ![s] = u]
  BY <1>1
<1> HIDE DEF u
<1>7. CASE length # None /\ length > BodyLimit
  <2>1. Ends(s, "InvalidPayload", None)
    BY <1>1, <1>7
  <2>2. RightCause([kind |-> "InvalidPayload", hint |-> None, at |-> now], u)
    BY <1>3, <1>5, <1>7 DEF RightCause, UnderWay
  <2>3. ~ GenuineAnswer(s, u)
    BY <1>3, <1>5 DEF GenuineAnswer, UnderWay
  <2>4. "InvalidPayload" \in Kinds /\ None \in RetryHeaders
    BY DEF Kinds, RetryHeaders
  <2> QED
    BY <1>2, <1>5, <1>6, <2>1, <2>2, <2>3, <2>4, EndingExchange
<1>8. CASE ~ (length # None /\ length > BodyLimit)
  <2> DEFINE f == [fetch[s] EXCEPT !.pc = "body", !.length = length]
  <2>1. fetch' = [fetch EXCEPT ![s] = f]
    BY <1>1, <1>8
  <2>2. f \in Fetches /\ f.pc = "body" /\ f.length = length /\ f.body = fetch[s].body
    BY <1>3, <1>4 DEF Fetches
  <2> HIDE DEF f
  <2>3. Within(length)
    BY <1>1, <1>8, ClientAssumption DEF Within
  <2>4. Agrees(s, f, u, now)
    BY <1>2, <1>3, <1>5, <2>2, <2>3 DEF Agrees, UnderWay
  <2> QED
    BY <1>2, <1>5, <1>6, <2>1, <2>2, <2>4, OneExchange
<1> QED
  BY <1>7, <1>8

LEMMA ChunkStep ==
    ASSUME ClientInv, NEW s \in Asked, Chunk(s)
    PROVE  ClientInv'
<1>1. PICK size \in 1 .. MaxChunk :
        /\ IF size > BodyLimit - fetch[s].body
           THEN Ends(s, "InvalidPayload", None)
           ELSE fetch' = [fetch EXCEPT ![s].body = @ + size]
        /\ upstream' = [upstream EXCEPT ![s] = [upstream[s] EXCEPT !.sent = @ + size]]
  BY DEF Chunk, Provider
<1> DEFINE u == [upstream[s] EXCEPT !.sent = @ + size]
<1>2. fetch[s].pc = "body" /\ now' = now
  BY DEF Chunk
<1>3. /\ UnderWay(fetch[s], upstream[s], now) /\ now \in Nat
      /\ fetch[s] \in Fetches /\ upstream[s] \in Exchanges(s)
  BY <1>2, StillOpen
<1>4. /\ size \in Nat /\ fetch[s].body \in Nat /\ BodyLimit \in Nat
      /\ upstream[s].sent \in Nat /\ upstream[s].sent = fetch[s].body
  BY <1>3, ClientAssumption DEF Exchanges, Fetches, UnderWay
<1>5. /\ u \in Exchanges(s) /\ u.sent = upstream[s].sent + size
      /\ u.connected = upstream[s].connected /\ u.length = upstream[s].length
      /\ u.fate = upstream[s].fate /\ u.retry = upstream[s].retry
  BY <1>3, <1>4 DEF Exchanges
<1>6. upstream' = [upstream EXCEPT ![s] = u]
  BY <1>1
<1> HIDE DEF u
<1>7. CASE size > BodyLimit - fetch[s].body
  <2>1. Ends(s, "InvalidPayload", None) /\ u.sent > BodyLimit
    BY <1>1, <1>4, <1>5, <1>7
  <2>2. RightCause([kind |-> "InvalidPayload", hint |-> None, at |-> now], u)
    BY <1>3, <1>5, <2>1 DEF RightCause, UnderWay
  <2>3. ~ GenuineAnswer(s, u)
    BY <1>3, <1>5 DEF GenuineAnswer, UnderWay
  <2>4. "InvalidPayload" \in Kinds /\ None \in RetryHeaders
    BY DEF Kinds, RetryHeaders
  <2> QED
    BY <1>2, <1>5, <1>6, <2>1, <2>2, <2>3, <2>4, EndingExchange
<1>8. CASE ~ (size > BodyLimit - fetch[s].body)
  <2> DEFINE f == [fetch[s] EXCEPT !.body = @ + size]
  <2>1. fetch' = [fetch EXCEPT ![s] = f]
    BY <1>1, <1>8
  <2>2. f \in Fetches /\ f.pc = "body" /\ f.length = fetch[s].length /\ f.body = fetch[s].body + size
    BY <1>2, <1>3, <1>4 DEF Fetches
  <2> HIDE DEF f
  <2>3. u.sent <= BodyLimit
    BY <1>4, <1>5, <1>8
  <2>4. Agrees(s, f, u, now)
    BY <1>2, <1>3, <1>5, <2>2, <2>3 DEF Agrees, UnderWay, Within
  <2> QED
    BY <1>2, <1>5, <1>6, <2>1, <2>2, <2>4, OneExchange
<1> QED
  BY <1>7, <1>8

LEMMA BodyEndsStep ==
    ASSUME ClientInv, NEW s \in Asked, BodyEnds(s)
    PROVE  ClientInv'
<1>1. PICK document \in Documents(s) :
        /\ Ends(s, Outcome(s, document), None)
        /\ upstream' = [upstream EXCEPT ![s] =
                            [upstream[s] EXCEPT !.fate = "answered", !.document = document]]
  BY DEF BodyEnds, Provider
<1> DEFINE u == [upstream[s] EXCEPT !.fate = "answered", !.document = document]
           kind == Outcome(s, document)
<1>2. fetch[s].pc # "done" /\ now' = now
  BY DEF BodyEnds
<1>3. /\ UnderWay(fetch[s], upstream[s], now) /\ s \in UpstreamSource
      /\ upstream[s] \in Exchanges(s)
  BY <1>2, StillOpen
<1>4. /\ u \in Exchanges(s) /\ u.fate = "answered" /\ u.document = document
      /\ u.sent = upstream[s].sent
  BY <1>3 DEF Exchanges, Fates
<1>5. Ends(s, kind, None) /\ upstream' = [upstream EXCEPT ![s] = u]
  BY <1>1
<1>6. /\ kind \in {"Quote", "InvalidPrice", "InvalidPayload"}
      /\ kind = "Quote"
           <=> /\ document # None
               /\ document.form \in BitcoinForms[s]
               /\ document.amount = [type |-> AmountType(s), value |-> "positive"]
  BY <1>3, QuotesRecognised
<1> HIDE DEF u, kind
<1>7. kind = "Quote" <=> GenuineAnswer(s, u)
  BY <1>3, <1>4, <1>6 DEF GenuineAnswer, UnderWay
<1>8. RightCause([kind |-> kind, hint |-> None, at |-> now], u)
  BY <1>4, <1>6 DEF RightCause
<1>9. kind \in Kinds /\ None \in RetryHeaders
  BY <1>6 DEF Kinds, RetryHeaders
<1> QED
  BY <1>2, <1>4, <1>5, <1>7, <1>8, <1>9, EndingExchange

LEMMA TimesOutStep ==
    ASSUME ClientInv, NEW s \in Asked, TimesOut(s)
    PROVE  ClientInv'
<1> DEFINE u == upstream[s]
<1>1. /\ fetch[s].pc # "done" /\ now >= Deadline(s) /\ now' = now
      /\ Ends(s, "Timeout", None) /\ upstream' = upstream
  BY DEF TimesOut, FromReqwest
<1>2. UnderWay(fetch[s], u, now) /\ u \in Exchanges(s) /\ now \in Nat /\ upstream = [q \in Asked |-> upstream[q]]
  BY <1>1, StillOpen DEF ClientInv, Shapes
<1>3. upstream' = [upstream EXCEPT ![s] = u]
  BY <1>1, <1>2
<1>4. now = IF u.connected THEN RequestTimeout ELSE ConnectTimeout
  <2>1. CASE fetch[s].pc = "connect"
    <3>1. u.connected = FALSE
      BY <1>2, <2>1 DEF UnderWay
    <3>2. now = ConnectTimeout
      BY <1>1, <1>2, <2>1, ClientAssumption DEF UnderWay, Deadline
    <3> QED
      BY <3>1, <3>2
  <2>2. CASE fetch[s].pc # "connect"
    <3>1. u.connected = TRUE
      BY <1>2, <2>2 DEF UnderWay
    <3>2. now = RequestTimeout
      BY <1>1, <1>2, <2>2, ClientAssumption DEF UnderWay, Deadline
    <3> QED
      BY <3>1, <3>2
  <2> QED
    BY <2>1, <2>2
<1> HIDE DEF u
<1>5. u.sent \in Nat /\ BodyLimit \in Nat /\ (u.length # None => u.length \in Nat)
  BY <1>2, ClientAssumption DEF Exchanges, Lengths
<1>6. ~ (u.sent > BodyLimit) /\ ~ (u.length # None /\ u.length > BodyLimit)
  BY <1>2, <1>5 DEF UnderWay, Within
<1>7. RightCause([kind |-> "Timeout", hint |-> None, at |-> now], u)
  BY <1>2, <1>4, <1>6 DEF RightCause, UnderWay
<1>8. ~ GenuineAnswer(s, u)
  BY <1>2 DEF GenuineAnswer, UnderWay
<1>9. "Timeout" \in Kinds /\ None \in RetryHeaders
  BY DEF Kinds, RetryHeaders
<1> QED
  BY <1>1, <1>2, <1>3, <1>7, <1>8, <1>9, EndingExchange

LEMMA TickStep ==
    ASSUME ClientInv, Tick
    PROVE  ClientInv'
<1>1. /\ now' = now + 1 /\ fetch' = fetch /\ upstream' = upstream
      /\ \A s \in Asked : fetch[s].pc # "done" => now < Deadline(s)
  BY DEF Tick
<1>2. Shapes' /\ Asked' = Asked
  BY <1>1 DEF ClientInv, Shapes, Asked, Exchanges
<1>3. ASSUME NEW s \in Asked PROVE Agrees(s, fetch[s], upstream[s], now')
  <2>1. CASE fetch[s].pc = "done"
    BY <2>1 DEF ClientInv, Agrees
  <2>2. CASE fetch[s].pc # "done"
    <3>1. UnderWay(fetch[s], upstream[s], now) /\ now \in Nat /\ now < Deadline(s)
      BY <1>1, <2>2, StillOpen
    <3>2. UnderWay(fetch[s], upstream[s], now')
      BY <1>1, <3>1, ClientAssumption DEF UnderWay, Deadline
    <3> QED
      BY <2>2, <3>2 DEF Agrees
  <2> QED
    BY <2>1, <2>2
<1> QED
  BY <1>1, <1>2, <1>3 DEF ClientInv, Agrees, Over, UnderWay

LEMMA ClientInitially == Init => ClientInv
<1> SUFFICES ASSUME Init PROVE ClientInv
  OBVIOUS
<1>1. PICK plan \in Plans : /\ fetch = [s \in plan |-> Started]
                            /\ upstream = [s \in plan |-> Silent]
  BY DEF Init
<1>2. now = 0 /\ Asked = plan /\ plan \subseteq UpstreamSource
  BY <1>1, ClientAssumption DEF Init, Asked
<1>3. Started \in Fetches
  BY DEF Started, Fetches, Lengths
<1>4. \A s \in plan : Silent \in Exchanges(s)
  BY DEF Silent, Exchanges, Fates, Lengths, RetryHeaders, Documents
<1>5. Shapes
  BY <1>1, <1>2, <1>3, <1>4 DEF Shapes
<1>6. UnderWay(Started, Silent, 0) /\ Started.pc # "done"
  BY ClientAssumption DEF UnderWay, Within, Started, Silent
<1> QED
  BY <1>1, <1>2, <1>5, <1>6 DEF ClientInv, Agrees

LEMMA ClientStep == ClientInv /\ [Next]_vars => ClientInv'
<1> SUFFICES ASSUME ClientInv, [Next]_vars PROVE ClientInv'
  OBVIOUS
<1>1. ASSUME UNCHANGED vars PROVE ClientInv'
  BY <1>1 DEF vars, ClientInv, Shapes, Asked, Agrees, Over, UnderWay
<1>2. ASSUME NEW s \in Asked, Exchange(s) PROVE ClientInv'
  BY <1>2, ConnectsStep, BreaksStep, RefusesStep, SucceedsStep, ChunkStep, BodyEndsStep,
     TimesOutStep DEF Exchange
<1> QED
  BY <1>1, <1>2, TickStep DEF Next, Joined

LEMMA ClientInvariance == Spec => []ClientInv
  BY ClientInitially, ClientStep, PTL DEF Spec

-----------------------------------------------------------------------------
(* A quote is stored exactly when the provider gave a genuine one: the limit *)
(* on the body, the check of the pair and of the price, and the redirect     *)
(* policy let nothing else through, and cost no genuine answer (pricing.rs,  *)
(* fetch, read_limited_body and the four parsers).                           *)
THEOREM Genuineness == Spec => []QuoteIffGenuine
<1>1. ClientInv => QuoteIffGenuine
  BY DEF ClientInv, QuoteIffGenuine, Agrees, Over, GenuineAnswer, Genuine, Done
<1> QED
  BY <1>1, ClientInvariance, PTL

(* A failure carries the category and the hint of what happened: timeouts    *)
(* are told from broken transfers also while the body is read, limits from   *)
(* network faults, and a hint comes from a refusal alone (errors.rs,         *)
(* ProviderError::from_reqwest).                                             *)
THEOREM Causes == Spec => []CauseNamed
<1>1. ClientInv => CauseNamed
  BY DEF ClientInv, CauseNamed, Agrees, Over, RightCause, Done
<1> QED
  BY <1>1, ClientInvariance, PTL

(* No fetch is still under way after the request timeout, so the join of any *)
(* plan, however its providers behave, ends by then (pricing.rs, the two     *)
(* timeouts of the client).                                                  *)
THEOREM JoinInTime == Spec => []JoinBounded
<1>1. ClientInv => JoinBounded
  <2> SUFFICES ASSUME ClientInv, NEW s \in Asked, ~ Done(s) PROVE now <= RequestTimeout
    BY DEF JoinBounded
  <2> QED
    BY StillOpen DEF Done, UnderWay
<1> QED
  BY <1>1, ClientInvariance, PTL
=============================================================================
