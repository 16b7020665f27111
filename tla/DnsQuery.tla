------------------------------- MODULE DnsQuery -------------------------------
(*****************************************************************************)
(* DNS queries over datagrams, streams and HTTPS (src/dns/resolver.go)       *)
(* behind the cache of the smart dialer (src/x/smart/cache.go). Several      *)
(* callers share the cache; a query that misses it is sent, also when the    *)
(* same query is already on its way. Packets that are not the answer may     *)
(* arrive: they are skipped by a datagram query and end a stream or HTTPS    *)
(* one.                                                                      *)
(*****************************************************************************)
EXTENDS Naturals, Sequences, FiniteSets

CONSTANTS Clients,    \* goroutines that query
          Names,      \* spellings of domain names
          Types,      \* record types
          CacheCap,   \* capacity of the cache (100 in the smart dialer)
          Junk        \* bound: packets a datagram query skips

ASSUME QueryAssumption == CacheCap \in Nat

VARIABLES question,   \* question[c]: [name, type]
          transport,  \* transport[c]: "datagram" | "framed" (a stream, or HTTPS)
          at,         \* at[c]: "search" | "dial" | "recv" | "store" | "done" | "err"
          skipped,    \* skipped[c]: packets the query has ignored
          answer,     \* answer[c]: {} or {the message returned}
          entries     \* the cache, most recent first: [key, msg, expired]

queryVars == <<question, transport, at, skipped, answer, entries>>

\* Names are spelled as the callers like; canonicalName and equalASCIIName fold
\* the case.
Fold(n) == IF n = "Example" THEN "example" ELSE n

Questions == [name: Names, type: Types]

\* What arrives: any message, about any question.
Messages == [flaw: {"none", "garbage", "not a response", "other id"},
             about: Questions,
             cacheable: BOOLEAN]   \* success or no such name, against any other code

QueryInit == /\ question \in [Clients -> Questions]
             /\ transport \in [Clients -> {"datagram", "framed"}]
             /\ at = [c \in Clients |-> "search"]
             /\ skipped = [c \in Clients |-> 0]
             /\ answer = [c \in Clients |-> {}]
             /\ entries = <<>>

Go(c, s) == at' = [at EXCEPT ![c] = s]

-------------------------------------------------------------------------------
\* The cache.

(* Variant: the record type is not part of the key. *)
CacheKeyOfName(q) == <<Fold(q.name)>>

\* makeCacheKey
CacheKey(q) == <<Fold(q.name), q.type>>

\* RemoveExpired: kept[i] is what the loop has moved to the front of the array when
\* it has seen i entries.
RemoveExpired(old) ==
  LET kept[i \in 0 .. Len(old)] ==
        IF i = 0 THEN <<>>
        ELSE IF old[i].expired THEN kept[i - 1] ELSE Append(kept[i - 1], old[i])
  IN kept[Len(old)]

\* RemoveExpired, then SearchCache, two critical sections in one step: an entry
\* that expires in between is still found.
LookUp(c) ==
  /\ at[c] = "search"
  /\ LET live == RemoveExpired(entries)
         hits == {i \in DOMAIN live: live[i].key = CacheKey(question[c])}
     IN IF hits = {}
        THEN entries' = live /\ Go(c, "dial") /\ UNCHANGED answer
        ELSE LET i == CHOOSE i \in hits: \A j \in hits: i <= j
             IN /\ entries' = <<live[i]>> \o SubSeq(live, 1, i - 1) \o SubSeq(live, i + 1, Len(live))
                /\ answer' = [answer EXCEPT ![c] = {live[i].msg}]
                /\ Go(c, "done")
  /\ UNCHANGED <<question, transport, skipped>>

\* AddToCache: the oldest entry falls out when the cache is full.
Store(c) ==
  /\ at[c] = "store"
  /\ \E m \in answer[c]:
       /\ entries' = IF m.cacheable
                     THEN LET grown == <<[key |-> CacheKey(question[c]), msg |-> m, expired |-> FALSE]>> \o entries
                          IN SubSeq(grown, 1, IF Len(grown) > CacheCap THEN CacheCap ELSE Len(grown))
                     ELSE entries
  /\ Go(c, "done")
  /\ UNCHANGED <<question, transport, skipped, answer>>

\* A minute passes for an entry.
Expire == \E i \in DOMAIN entries:
            /\ ~entries[i].expired
            /\ entries' = [entries EXCEPT ![i].expired = TRUE]
            /\ UNCHANGED <<question, transport, at, skipped, answer>>

-------------------------------------------------------------------------------
\* The query.

\* The connection, or the HTTP client's; the request is written.
Send(c) == /\ at[c] = "dial"
           /\ Go(c, "recv")
           /\ UNCHANGED <<question, transport, skipped, answer, entries>>

\* ErrDial, ErrSend, ErrReceive: dialling, writing or reading fails, or the
\* deadline of the context passes.
QueryFails(c) == /\ at[c] \in {"dial", "recv"}
                 /\ Go(c, "err")
                 /\ UNCHANGED <<question, transport, skipped, answer, entries>>

(* Variant: the question of the response is not compared. *)
CheckIdOnly(m, q) == m.flaw = "none"

\* Unpack and checkResponse. Over HTTPS the id is always 0.
CheckResponse(m, q) == /\ m.flaw = "none"
                       /\ m.about.type = q.type
                       /\ Fold(m.about.name) = Fold(q.name)

Receive(c, m) ==
  /\ at[c] = "recv"
  /\ IF CheckResponse(m, question[c])
     THEN /\ answer' = [answer EXCEPT ![c] = {m}]
          /\ Go(c, "store")
          /\ UNCHANGED skipped
     ELSE /\ IF transport[c] = "datagram"
             THEN /\ skipped[c] < Junk
                  /\ skipped' = [skipped EXCEPT ![c] = @ + 1]
                  /\ UNCHANGED at
             ELSE Go(c, "err") /\ UNCHANGED skipped   \* ErrBadResponse
          /\ UNCHANGED answer
  /\ UNCHANGED <<question, transport, entries>>

QueryNext == \/ \E c \in Clients: \/ LookUp(c) \/ Store(c) \/ Send(c) \/ QueryFails(c)
                                  \/ \E m \in Messages: Receive(c, m)
             \/ Expire

QuerySpec == QueryInit /\ [][QueryNext]_queryVars

\* Whoever gets an answer gets one to its own question, be it from the network,
\* behind packets that are not, or from a cache others have filled; and the cache
\* does not outgrow its array.
AnswersAskedQuestion ==
  /\ \A c \in Clients: \A m \in answer[c]:
       Fold(m.about.name) = Fold(question[c].name) /\ m.about.type = question[c].type
  /\ Len(entries) <= CacheCap
===============================================================================
