--------------------------- MODULE ProviderClient ---------------------------
(***************************************************************************)
(* The provider requests of one refresh (pricing.rs): the fetches of a     *)
(* plan start together, each runs its own exchange with its provider, and  *)
(* the join ends with the last of them.  Providers, and the network to     *)
(* them, do what they like: refuse, redirect, stop in the middle, trickle, *)
(* answer about another currency pair.                                     *)
(***************************************************************************)
EXTENDS Integers

CONSTANTS
    Plans,             \* the sets of providers a refresh may ask
    ConnectTimeout,    \* UPSTREAM_CONNECT_TIMEOUT
    RequestTimeout,    \* UPSTREAM_REQUEST_TIMEOUT
    BodyLimit,         \* UPSTREAM_BODY_LIMIT
    MaxChunk,          \* bound on the size of one chunk
    HintValues,        \* delays and dates a Retry-After header may carry
    MaxNow,            \* bound on the clock
    None               \* Option::None

UpstreamSource == {"CoinGecko", "Coinbase", "Kraken", "Gemini"}

ASSUME ClientAssumption ==
    /\ Plans \subseteq SUBSET UpstreamSource
    /\ ConnectTimeout \in Nat /\ RequestTimeout \in Nat /\ ConnectTimeout <= RequestTimeout
    /\ BodyLimit \in Nat /\ MaxChunk \in Nat
    /\ MaxNow > RequestTimeout

VARIABLES
    now,         \* time since the fetches began
    fetch,       \* per provider asked: its exchange, as the client knows it
    upstream     \* history, per provider asked: what the provider really did

vars == <<now, fetch, upstream>>

Asked == DOMAIN fetch

\* length: the declared Content-Length; body: bytes held; outcome: the result of fetch.
Started == [pc |-> "connect", length |-> None, body |-> 0, outcome |-> None]

\* fate: how the provider's part ended, so far it has not; retry: the Retry-After
\* header of a refusal; sent: bytes of body, whole or not; document: what they said.
Silent == [fate |-> "none", connected |-> FALSE, retry |-> None, length |-> None, sent |-> 0,
           document |-> None]

Init ==
    /\ now = 0
    /\ \E plan \in Plans :
        /\ fetch = [s \in plan |-> Started]
        /\ upstream = [s \in plan |-> Silent]

-----------------------------------------------------------------------------
(* What providers send.  A document has the form in which it names what it *)
(* quotes, different for each provider, and the amount.                    *)

\* An amount is absent, or a JSON number or string; a number is always finite.
Amounts ==
    {None} \union [type : {"number"}, value : {"positive", "negative"}]
           \union [type : {"string"}, value : {"positive", "zero", "infinite", "no number"}]

\* The forms in which the providers quote BTC/USD ...
BitcoinForms ==
    [CoinGecko |-> {"bitcoin.usd"},
     Coinbase  |-> {[currency |-> "USD", base |-> b] : b \in {"BTC", None}},
     Kraken    |-> {[error |-> "empty", result |-> "XXBTZUSD"]},
     Gemini    |-> {"BTCUSD", "btcusd"}]

\* ... and some in which they say something else: another pair, or an error.
OtherForms ==
    [CoinGecko |-> {None},
     Coinbase  |-> {[currency |-> "EUR", base |-> "BTC"], [currency |-> "EUR", base |-> None],
                    [currency |-> "USD", base |-> "ETH"], [currency |-> None, base |-> None]},
     Kraken    |-> {[error |-> "reported", result |-> "XXBTZUSD"],
                    [error |-> None, result |-> "XXBTZUSD"], [error |-> "empty", result |-> None]},
     Gemini    |-> {"ETHUSD", None}]

ASSUME AmountAssumption ==
    None \notin [type : {"number", "string"},
                 value : {"positive", "zero", "negative", "infinite", "no number"}]

\* What a body may be: such a document, or no JSON (None).
Documents(s) == {None} \union [form : BitcoinForms[s] \union OtherForms[s], amount : Amounts]

\* A Retry-After header: absent, legible, or not (also a number beyond 64 bits).
RetryHeaders == {None} \union [kind : {"Delay", "At", "illegible"}, value : HintValues]

-----------------------------------------------------------------------------
(* What the client makes of it.                                            *)

\* RetryAfter::parse
Parse(header) == IF header # None /\ header.kind = "illegible" THEN None ELSE header

\* fetch_coinbase: a base may be missing, but must not be another.
fetch_coinbase(form) == form.currency = "USD" /\ form.base \in {"BTC", None}

\* fetch_kraken: the error array must be there, and empty.
fetch_kraken(form) == form.error = "empty" /\ form.result = "XXBTZUSD"

\* fetch_gemini: the symbol, in either case.
fetch_gemini(form) == form \in {"BTCUSD", "btcusd"}

\* fetch_coingecko: the path to the number is the check.
fetch_coingecko(form) == form = "bitcoin.usd"

Accepts(s, form) ==
    CASE s = "CoinGecko" -> fetch_coingecko(form)
      [] s = "Coinbase" -> fetch_coinbase(form)
      [] s = "Kraken" -> fetch_kraken(form)
      [] s = "Gemini" -> fetch_gemini(form)

\* parse_price and checked_price
PriceOutcome(value) == IF value = "positive" THEN "Quote" ELSE "InvalidPrice"

AmountType(s) == IF s = "CoinGecko" THEN "number" ELSE "string"

Outcome(s, document) ==
    IF /\ document # None
       /\ Accepts(s, document.form)
       /\ document.amount # None
       /\ document.amount.type = AmountType(s)
    THEN PriceOutcome(document.amount.value)
    ELSE "InvalidPayload"

\* Mutant: an error while the body is read is a broken transfer.
FromReqwestInBody(s, timeout) ==
    IF timeout /\ fetch[s].pc # "body" THEN "Timeout" ELSE "Transport"

\* ProviderError::from_reqwest
FromReqwest(s, timeout) == IF timeout THEN "Timeout" ELSE "Transport"

\* The fetch ends: a quote is timed now, whatever the others do, and a failure
\* keeps its category and its hint.
Ends(s, kind, hint) ==
    fetch' = [fetch EXCEPT ![s] = [Started EXCEPT
                 !.pc = "done",
                 !.outcome = [kind |-> kind, hint |-> hint, at |-> now]]]

Provider(s, record) == upstream' = [upstream EXCEPT ![s] = record]

-----------------------------------------------------------------------------
(* The exchange with provider s.                                           *)

Connects(s) ==
    /\ fetch[s].pc = "connect"
    /\ fetch' = [fetch EXCEPT ![s].pc = "headers"]
    /\ Provider(s, [upstream[s] EXCEPT !.connected = TRUE])
    /\ UNCHANGED now

\* The connection is refused, or closed before the exchange is complete.
Breaks(s) ==
    /\ fetch[s].pc # "done"
    /\ Ends(s, FromReqwest(s, FALSE), None)
    /\ Provider(s, [upstream[s] EXCEPT !.fate = "broken"])
    /\ UNCHANGED now

\* Anything but success, a redirect too, ends the fetch: none is followed.
Refuses(s) ==
    /\ fetch[s].pc = "headers"
    /\ \E retry \in RetryHeaders :
        /\ Ends(s, "Http", Parse(retry))
        /\ Provider(s, [upstream[s] EXCEPT !.fate = "refused", !.retry = retry])
    /\ UNCHANGED now

\* A success, with or without a declared length.
Succeeds(s) ==
    /\ fetch[s].pc = "headers"
    /\ \E length \in {None} \union 0 .. BodyLimit + 1 :
        /\ IF length # None /\ length > BodyLimit
           THEN Ends(s, "InvalidPayload", None)
           ELSE fetch' = [fetch EXCEPT ![s].pc = "body", ![s].length = length]
        /\ Provider(s, [upstream[s] EXCEPT !.length = length])
    /\ UNCHANGED now

\* Mutant: only a chunk that is too large by itself is refused.
ChunkAlone(s) ==
    /\ fetch[s].pc = "body"
    /\ \E size \in 1 .. MaxChunk :
        /\ fetch[s].length # None => fetch[s].body + size <= fetch[s].length
        /\ fetch[s].body + size <= BodyLimit + MaxChunk
        /\ IF size > BodyLimit
           THEN Ends(s, "InvalidPayload", None)
           ELSE fetch' = [fetch EXCEPT ![s].body = @ + size]
        /\ Provider(s, [upstream[s] EXCEPT !.sent = @ + size])
    /\ UNCHANGED now

\* A chunk of the body; never more than was declared.
Chunk(s) ==
    /\ fetch[s].pc = "body"
    /\ \E size \in 1 .. MaxChunk :
        /\ fetch[s].length # None => fetch[s].body + size <= fetch[s].length
        /\ IF size > BodyLimit - fetch[s].body
           THEN Ends(s, "InvalidPayload", None)
           ELSE fetch' = [fetch EXCEPT ![s].body = @ + size]
        /\ Provider(s, [upstream[s] EXCEPT !.sent = @ + size])
    /\ UNCHANGED now

\* The body is complete.  Nothing is no document, and a body without a declared
\* length ends where its connection does, complete or not.
BodyEnds(s) ==
    /\ fetch[s].pc = "body"
    /\ fetch[s].length # None => fetch[s].body = fetch[s].length
    /\ \E document \in Documents(s) :
        /\ fetch[s].body = 0 => document = None
        /\ Ends(s, Outcome(s, document), None)
        /\ Provider(s, [upstream[s] EXCEPT !.fate = "answered", !.document = document])
    /\ UNCHANGED now

\* Mutant: the deadline is over once the headers are there.
DeadlineOfHeaders(s) == IF fetch[s].pc = "connect" THEN ConnectTimeout
                        ELSE IF fetch[s].pc = "body" THEN MaxNow
                        ELSE RequestTimeout

\* The client's two timers: to connect, and for the whole exchange.
Deadline(s) == IF fetch[s].pc = "connect" THEN ConnectTimeout ELSE RequestTimeout

TimesOut(s) ==
    /\ fetch[s].pc # "done"
    /\ now >= Deadline(s)
    /\ Ends(s, FromReqwest(s, TRUE), None)
    /\ UNCHANGED <<now, upstream>>

\* Timers fire on time.
Tick ==
    /\ now < MaxNow
    /\ \E s \in Asked : fetch[s].pc # "done"
    /\ \A s \in Asked : fetch[s].pc # "done" => now < Deadline(s)
    /\ now' = now + 1
    /\ UNCHANGED <<fetch, upstream>>

Exchange(s) ==
    \/ Connects(s)
    \/ Breaks(s)
    \/ Refuses(s)
    \/ Succeeds(s)
    \/ Chunk(s)
    \/ BodyEnds(s)
    \/ TimesOut(s)

\* The join has every result.
Joined ==
    /\ \A s \in Asked : fetch[s].pc = "done"
    /\ UNCHANGED vars

Next ==
    \/ Tick
    \/ \E s \in Asked : Exchange(s)
    \/ Joined

Spec == Init /\ [][Next]_vars

-----------------------------------------------------------------------------
Done(s) == fetch[s].pc = "done"

\* A whole answer within the limits that quotes BTC/USD as the provider's API
\* does, at a positive price.
Genuine(s) ==
    LET u == upstream[s] IN
    /\ u.fate = "answered"
    /\ u.sent <= BodyLimit
    /\ u.document # None
    /\ u.document.form \in BitcoinForms[s]
    /\ u.document.amount = [type |-> AmountType(s), value |-> "positive"]

\* A fetch gives a quote exactly when its provider sent a genuine one, however the
\* bytes were cut into chunks and whatever the headers declared: nothing oversized,
\* truncated, redirected or about another pair is ever stored, and a body of
\* exactly the limit is not lost (README.md:47-50, pricing.rs:70-101).
QuoteIffGenuine == \A s \in Asked : Done(s) => (fetch[s].outcome.kind = "Quote" <=> Genuine(s))

\* The category and the hint say what happened to the exchange, wherever it was:
\* a timeout while the body is read is no broken transfer, a limit is not blamed
\* on the network, and only a refusal carries a hint, the legible one it was sent
\* (docs/source-contract.md:85-98).
CauseNamed ==
    \A s \in Asked : Done(s) =>
        LET u == upstream[s]
            outcome == fetch[s].outcome
            oversized == u.sent > BodyLimit \/ (u.length # None /\ u.length > BodyLimit)
            legible == u.retry # None /\ u.retry.kind # "illegible"
        IN /\ outcome.kind = "Transport" <=> u.fate = "broken"
           /\ outcome.kind = "Http" <=> u.fate = "refused"
           /\ outcome.kind = "Timeout" <=> u.fate = "none" /\ ~ oversized
           /\ outcome.kind = "Timeout" =>
                outcome.at = IF u.connected THEN RequestTimeout ELSE ConnectTimeout
           /\ outcome.hint = IF u.fate = "refused" /\ legible THEN u.retry ELSE None

\* The join ends within the one deadline of its requests, although providers
\* accept slowly, trickle their bodies or fall silent: a refresh holds the mutex
\* no longer than this and the store take (README.md:47-49).
JoinBounded == (\E s \in Asked : ~ Done(s)) => now <= RequestTimeout
=============================================================================
