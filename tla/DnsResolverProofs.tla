------------------------- MODULE DnsResolverProofs -------------------------
(***************************************************************************)
(* Theorems about DnsResolver, for any hosts and queries, any period of    *)
(* the timer and any factor by which it slows down: the type invariant,    *)
(* and how old an answer from the cache can be.                            *)
(*                                                                         *)
(* The argument: a query winds the timer up to two short sleeps, and its   *)
(* lookup and update take less than one.  So the timer is not slow yet     *)
(* when the entry is written, the next sleep ends within a period, and at  *)
(* most one long one follows before the entry is stale.                    *)
(***************************************************************************)
EXTENDS DnsResolver, TLAPS

USE DEF Entries, Questions

\* The long sleep of the timer.
Long == Period * SlowFactor

\* The clock is within a sleep of the timer.
ClockOk == instant <= now /\ now <= instant + Long

\* A query that is looked up is young, and while it is, or its update is on its
\* way, the timer has been wound up and has gone off at most once since.
QueryOk(q) ==
  /\ query[q].state = "looking" =>
       /\ query[q].host \in Hosts
       /\ query[q].since <= now /\ now <= query[q].since + MaxLookup
       /\ slow # 0 /\ (slow = 1 => query[q].since <= instant)
  /\ query[q].state = "updating" =>
       /\ query[q].host \in Hosts
       /\ query[q].since <= now /\ now <= query[q].since + Lag
       /\ slow # 0 /\ (slow = 1 => query[q].since <= instant + MaxLookup)

\* The age of an entry that can still be served.
EntryOk(h) ==
  cache[h].known =>
    /\ cache[h].born <= now
    /\ counter = cache[h].timestamp =>
         /\ slow # 0 /\ instant <= cache[h].born + Lag
         /\ now <= cache[h].born + Lag + Period
    /\ counter = cache[h].timestamp + 1 => instant <= cache[h].born + Lag + Period

IInv ==
  /\ TypeOK
  /\ ClockOk
  /\ \A q \in Queries : QueryOk(q)
  /\ \A h \in Hosts : EntryOk(h)
  /\ AgeBounded
-----------------------------------------------------------------------------
\* The products of the constants.
LEMMA Products ==
  /\ Period \in Nat /\ SlowFactor \in Nat /\ MaxLookup \in Nat /\ Lag \in Nat
  /\ MaxLookup + Lag < Period
  /\ Long \in Nat /\ Period <= Long /\ (SlowFactor + 1) * Period = Long + Period
<1>1. /\ Period \in Nat /\ SlowFactor \in Nat /\ MaxLookup \in Nat /\ Lag \in Nat
      /\ SlowFactor >= 1 /\ MaxLookup + Lag < Period
  BY PeriodAssumption
<1>2. Long \in Nat /\ (SlowFactor + 1) * Period = Long + Period
  BY <1>1 DEF Long
<1>3. Period * 1 <= Period * SlowFactor
  BY <1>1
<1> QED
  BY <1>1, <1>2, <1>3 DEF Long

\* The types of the parts of an entry and of a query.
LEMMA Parts ==
  ASSUME TypeOK
  PROVE  /\ now \in Nat /\ instant \in Nat /\ counter \in Nat /\ maxAge \in Nat /\ slow \in 0..2
         /\ \A h \in Hosts : /\ cache[h].known \in BOOLEAN /\ cache[h].timestamp \in Nat
                             /\ cache[h].born \in Nat /\ cache[h].timestamp <= counter
         /\ \A q \in Queries : query[q].since \in Nat
  BY DEF TypeOK

\* When the timer goes off it has slept as long as it is slow.
LEMMA SleepFacts ==
  ASSUME TypeOK
  PROVE  /\ sleep_until \in Nat
         /\ slow = 0 => sleep_until = instant + Long
         /\ slow # 0 => sleep_until = instant + Period
         /\ sleep_until <= instant + Long
<1>1. instant \in Nat
  BY DEF TypeOK
<1>2. sleep_until = instant + (IF slow = 0 THEN Long ELSE Period)
  BY DEF sleep_until, Long
<1> QED
  BY <1>1, <1>2, Products

LEMMA TickInv ==
  ASSUME IInv, Tick
  PROVE  IInv'
<1>t. TypeOK /\ ClockOk /\ AgeBounded
  BY DEF IInv
<1>0. /\ now \in Nat /\ instant \in Nat /\ counter \in Nat /\ maxAge \in Nat /\ slow \in 0..2
      /\ \A h \in Hosts : cache[h].timestamp \in Nat /\ cache[h].born \in Nat
      /\ \A q \in Queries : query[q].since \in Nat
  BY <1>t, Parts
<1>1. /\ now' = now + 1 /\ now < sleep_until /\ \A q \in Queries : ~Due(q)
      /\ UNCHANGED <<instant, counter, slow, cache, query, maxAge>>
  BY DEF Tick, timer
<1>2. now + 1 <= sleep_until
  BY <1>t, <1>0, <1>1, SleepFacts
<1>3. TypeOK'
  BY <1>t, <1>0, <1>1 DEF TypeOK
<1>4. ClockOk'
  BY <1>t, <1>0, <1>1, <1>2, SleepFacts, Products DEF ClockOk
<1>5. \A q \in Queries : QueryOk(q)'
  <2> SUFFICES ASSUME NEW q \in Queries PROVE QueryOk(q)'
    OBVIOUS
  <2>1. QueryOk(q) /\ ~Due(q) /\ query[q].since \in Nat
    BY <1>0, <1>1 DEF IInv
  <2> QED
    BY <1>0, <1>1, <2>1, Products DEF QueryOk, Due
<1>6. \A h \in Hosts : EntryOk(h)'
  <2> SUFFICES ASSUME NEW h \in Hosts PROVE EntryOk(h)'
    OBVIOUS
  <2>1. EntryOk(h) /\ cache[h].born \in Nat /\ cache[h].timestamp \in Nat
    BY <1>0 DEF IInv
  <2>2. slow # 0 => now + 1 <= instant + Period
    BY <1>t, <1>2, SleepFacts
  <2> QED
    BY <1>0, <1>1, <2>1, <2>2, Products DEF EntryOk
<1>7. AgeBounded'
  BY <1>t, <1>1 DEF AgeBounded
<1> QED
  BY <1>3, <1>4, <1>5, <1>6, <1>7 DEF IInv

LEMMA TimerFiresInv ==
  ASSUME IInv, TimerFires
  PROVE  IInv'
<1>t. TypeOK /\ ClockOk /\ AgeBounded
  BY DEF IInv
<1>0. /\ now \in Nat /\ instant \in Nat /\ counter \in Nat /\ maxAge \in Nat /\ slow \in 0..2
  BY <1>t, Parts
<1>1. /\ now >= sleep_until /\ counter' = counter + 1 /\ instant' = now
      /\ slow' = (IF slow > 0 THEN slow - 1 ELSE slow)
      /\ UNCHANGED <<now, cache, query, maxAge>>
  BY DEF TimerFires, slower
<1>2. slow' \in 0..2 /\ (slow' = 1 => slow = 2) /\ slow' # 2 /\ (slow' = 0 => slow \in {0, 1})
  BY <1>0, <1>1
<1>3. TypeOK'
  <2>1. ASSUME NEW h \in Hosts PROVE cache[h].timestamp <= counter + 1
    <3>1. cache[h].timestamp \in Nat /\ cache[h].timestamp <= counter
      BY <1>t, Parts
    <3> QED
      BY <1>0, <3>1
  <2> QED
    BY <1>t, <1>0, <1>1, <1>2, <2>1 DEF TypeOK
<1>4. ClockOk'
  BY <1>0, <1>1, Products DEF ClockOk
<1>5. \A q \in Queries : QueryOk(q)'
  <2> SUFFICES ASSUME NEW q \in Queries PROVE QueryOk(q)'
    OBVIOUS
  <2>1. QueryOk(q) /\ query[q].since \in Nat
    BY <1>t, Parts DEF IInv
  <2>2. slow # 0 => now >= instant + Period
    BY <1>t, <1>1, SleepFacts
  <2>3. query[q].state \in {"looking", "updating"} => slow = 2
    BY <1>0, <2>1, <2>2, Products DEF QueryOk
  <2> QED
    BY <1>0, <1>1, <1>2, <2>1, <2>3, Products DEF QueryOk
<1>6. \A h \in Hosts : EntryOk(h)'
  <2> SUFFICES ASSUME NEW h \in Hosts PROVE EntryOk(h)'
    OBVIOUS
  <2>1. /\ EntryOk(h) /\ cache[h].born \in Nat /\ cache[h].timestamp \in Nat
        /\ cache[h].timestamp <= counter
    BY <1>t, Parts DEF IInv
  <2> QED
    BY <1>0, <1>1, <2>1 DEF EntryOk
<1>7. AgeBounded'
  BY <1>t, <1>1 DEF AgeBounded
<1> QED
  BY <1>3, <1>4, <1>5, <1>6, <1>7 DEF IInv

\* A query arrives: it winds the timer up, and is answered or looked up.
LEMMA TaskInv ==
  ASSUME IInv, NEW p \in Queries, NEW g \in Hosts, Task(p, g)
  PROVE  IInv'
<1>t. TypeOK /\ ClockOk /\ AgeBounded
  BY DEF IInv
<1>0. /\ now \in Nat /\ instant \in Nat /\ counter \in Nat /\ maxAge \in Nat
      /\ query \in [Queries -> Questions]
  BY <1>t, Parts DEF TypeOK
<1>1. slow' = 2 /\ UNCHANGED <<now, instant, counter, cache>>
  BY DEF Task
<1>2. ClockOk'
  BY <1>t, <1>1 DEF ClockOk
<1>3. \A h \in Hosts : EntryOk(h)'
  BY <1>1 DEF IInv, EntryOk
<1>4. ASSUME NEW r \in Questions,
             query' = [query EXCEPT ![p] = r],
             r.state = "answered" \/ (r.state = "looking" /\ r.host \in Hosts /\ r.since = now),
             maxAge' \in Nat, AgeBounded'
      PROVE  IInv'
  <2>1. /\ query' \in [Queries -> Questions]
        /\ query'[p] = r /\ \A q \in Queries \ {p} : query'[q] = query[q]
    BY <1>0, <1>4
  <2>2. TypeOK'
    BY <1>t, <1>1, <1>4, <2>1 DEF TypeOK
  <2>3. QueryOk(p)'
    BY <1>0, <1>1, <1>4, <2>1, Products DEF QueryOk
  <2>4. \A q \in Queries \ {p} : QueryOk(q)'
    BY <1>1, <2>1 DEF IInv, QueryOk
  <2> QED
    BY <1>2, <1>3, <1>4, <2>2, <2>3, <2>4 DEF IInv
<1>5. CASE fresh(g) /\ query' = [query EXCEPT ![p] = Done]
             /\ maxAge' = Bigger(maxAge, now - cache[g].born)
  <2> DEFINE b == cache[g].born  s == cache[g].timestamp
  <2>1. /\ cache[g].known /\ counter - s < 2 /\ s \in Nat /\ b \in Nat /\ s <= counter
        /\ EntryOk(g)
    BY <1>t, <1>5, Parts DEF fresh, IInv
  <2>2. counter = s \/ counter = s + 1
    BY <1>0, <2>1
  <2>3. /\ b <= now
        /\ counter = s => now <= b + Lag + Period
        /\ counter = s + 1 => instant <= b + Lag + Period
    BY <2>1 DEF EntryOk
  <2> HIDE DEF b, s
  <2>4. now <= b + Lag + Period + Long
    BY <1>t, <1>0, <2>1, <2>2, <2>3, Products DEF ClockOk
  <2>5. now - b \in Nat /\ now - b <= (SlowFactor + 1) * Period + Lag
    BY <1>0, <2>1, <2>3, <2>4, Products
  <2>6. maxAge' = maxAge \/ maxAge' = now - b
    BY <1>5 DEF Bigger, b
  <2>7. maxAge' \in Nat /\ AgeBounded'
    BY <1>t, <1>0, <2>5, <2>6 DEF AgeBounded
  <2> QED
    BY <1>4, <1>5, <2>7 DEF Done, Answers
<1>6. CASE /\ query' = [query EXCEPT ![p] = [state |-> "looking", host |-> g,
                                             ip |-> "none", since |-> now]]
           /\ maxAge' = maxAge
  <2> DEFINE r == [state |-> "looking", host |-> g, ip |-> "none", since |-> now]
  <2>1. r \in Questions
    BY <1>0 DEF Answers
  <2>2. maxAge' \in Nat /\ AgeBounded'
    BY <1>t, <1>0, <1>6 DEF AgeBounded
  <2> QED
    BY <1>4, <1>6, <2>1, <2>2
<1> QED
  BY <1>5, <1>6 DEF Task

\* A lookup ends, with or without an address.
LEMMA LookupInv ==
  ASSUME IInv, NEW p \in Queries, Lookup(p)
  PROVE  IInv'
<1>t. TypeOK /\ ClockOk /\ AgeBounded /\ QueryOk(p)
  BY DEF IInv
<1>0. /\ now \in Nat /\ instant \in Nat /\ slow \in 0..2
      /\ query \in [Queries -> Questions]
  BY <1>t, Parts DEF TypeOK
<1>1. query[p].state = "looking" /\ UNCHANGED <<now, instant, counter, slow, cache, maxAge>>
  BY DEF Lookup, timer
<1>2. PICK a \in Answers :
        query' = [query EXCEPT ![p] = [@ EXCEPT !.state = "updating", !.ip = a, !.since = now]]
  BY DEF Lookup, Answers
<1> DEFINE r == [query[p] EXCEPT !.state = "updating", !.ip = a, !.since = now]
<1>3. query' = [query EXCEPT ![p] = r]
  BY <1>2
<1>4. /\ r \in Questions
      /\ r.state = "updating" /\ r.host = query[p].host /\ r.since = now
  BY <1>0
<1> HIDE DEF r
<1>5. /\ query' \in [Queries -> Questions]
      /\ query'[p] = r /\ \A q \in Queries \ {p} : query'[q] = query[q]
  BY <1>0, <1>3, <1>4
<1>6. TypeOK'
  BY <1>t, <1>1, <1>5 DEF TypeOK
<1>7. QueryOk(p)'
  <2>1. query[p].since \in Nat
    BY <1>0
  <2>2. /\ query[p].host \in Hosts /\ now <= query[p].since + MaxLookup
        /\ slow # 0 /\ (slow = 1 => query[p].since <= instant)
    BY <1>t, <1>1 DEF QueryOk
  <2>3. slow = 1 => now <= instant + MaxLookup
    BY <1>0, <2>1, <2>2, Products
  <2> QED
    BY <1>0, <1>1, <1>4, <1>5, <2>2, <2>3, Products DEF QueryOk
<1>8. \A q \in Queries \ {p} : QueryOk(q)'
  BY <1>1, <1>5 DEF IInv, QueryOk
<1>9. ClockOk' /\ AgeBounded' /\ \A h \in Hosts : EntryOk(h)'
  BY <1>1 DEF IInv, ClockOk, AgeBounded, EntryOk
<1> QED
  BY <1>6, <1>7, <1>8, <1>9 DEF IInv

\* An answer is written to the cache.
LEMMA UpdateInv ==
  ASSUME IInv, NEW p \in Queries, Update(p)
  PROVE  IInv'
<1> DEFINE g == query[p].host
           e == [known |-> TRUE, ip |-> query[p].ip, timestamp |-> counter, born |-> query[p].since]
<1>t. TypeOK /\ ClockOk /\ AgeBounded /\ QueryOk(p)
  BY DEF IInv
<1>0. /\ now \in Nat /\ instant \in Nat /\ slow \in 0..2 /\ counter \in Nat
      /\ query \in [Queries -> Questions]
      /\ cache \in [Hosts -> Entries]
  BY <1>t, Parts DEF TypeOK
<1>1. /\ query[p].state = "updating" /\ UNCHANGED <<now, instant, counter, slow, maxAge>>
      /\ cache' = [cache EXCEPT ![g] = e] /\ query' = [query EXCEPT ![p] = Done]
  BY DEF Update, timer
<1>2. /\ g \in Hosts /\ query[p].since <= now /\ now <= query[p].since + Lag /\ slow # 0
      /\ query[p].since \in Nat
  BY <1>t, <1>0, <1>1 DEF QueryOk
<1>3. /\ e \in Entries
      /\ e.known /\ e.timestamp = counter /\ e.born = query[p].since
  BY <1>0
<1>4. /\ Done \in Questions
      /\ Done.state = "answered"
  BY DEF Done, Answers
<1> HIDE DEF g, e
<1>5. /\ query' \in [Queries -> Questions]
      /\ query'[p] = Done /\ \A q \in Queries \ {p} : query'[q] = query[q]
  BY <1>0, <1>1, <1>4
<1>6. /\ cache' \in [Hosts -> Entries]
      /\ cache'[g] = e /\ \A h \in Hosts \ {g} : cache'[h] = cache[h]
  BY <1>0, <1>1, <1>2, <1>3
<1>7. TypeOK'
  <2>1. \A h \in Hosts : cache'[h].timestamp <= counter
    <3>1. \A h \in Hosts \ {g} : cache'[h].timestamp <= counter
      BY <1>t, <1>6 DEF TypeOK
    <3>2. cache'[g].timestamp <= counter
      BY <1>0, <1>3, <1>6
    <3> QED
      BY <3>1, <3>2
  <2> QED
    BY <1>t, <1>1, <1>5, <1>6, <2>1 DEF TypeOK
<1>8. \A q \in Queries : QueryOk(q)'
  <2>1. QueryOk(p)'
    BY <1>4, <1>5 DEF QueryOk
  <2>2. \A q \in Queries \ {p} : QueryOk(q)'
    BY <1>1, <1>5 DEF IInv, QueryOk
  <2> QED
    BY <2>1, <2>2
<1>9. \A h \in Hosts : EntryOk(h)'
  <2>1. instant <= query[p].since + Lag /\ now <= query[p].since + Lag + Period
    BY <1>t, <1>0, <1>2, Products DEF ClockOk
  <2>2. ASSUME NEW h \in Hosts, h = g PROVE EntryOk(h)'
    BY <1>0, <1>1, <1>2, <1>3, <1>6, <2>1, <2>2 DEF EntryOk
  <2>3. ASSUME NEW h \in Hosts, h # g PROVE EntryOk(h)'
    BY <1>1, <1>6, <2>3 DEF IInv, EntryOk
  <2> QED
    BY <2>2, <2>3
<1>10. ClockOk' /\ AgeBounded'
  BY <1>t, <1>1 DEF ClockOk, AgeBounded
<1> QED
  BY <1>7, <1>8, <1>9, <1>10 DEF IInv
-----------------------------------------------------------------------------
\* A resolver that starts has an empty cache and nobody asking.
LEMMA InitInv == Init => IInv
<1> SUFFICES ASSUME Init PROVE IInv
  OBVIOUS
<1>1. /\ NoEntry \in Entries
      /\ ~NoEntry.known /\ NoEntry.timestamp = 0
  BY DEF NoEntry, Answers
<1>2. /\ Unasked \in Questions
      /\ Unasked.state = "unasked"
  BY DEF Unasked, Answers
<1>3. TypeOK
  BY <1>1, <1>2 DEF Init, TypeOK
<1>4. ClockOk
  BY Products DEF Init, ClockOk
<1>5. /\ \A q \in Queries : QueryOk(q)
      /\ \A h \in Hosts : EntryOk(h)
  BY <1>1, <1>2 DEF Init, QueryOk, EntryOk
<1>6. AgeBounded
  BY Products DEF Init, AgeBounded
<1> QED
  BY <1>3, <1>4, <1>5, <1>6 DEF IInv

\* Every step keeps the invariant.
LEMMA StepInv == IInv /\ [Next]_vars => IInv'
<1> SUFFICES ASSUME IInv, [Next]_vars PROVE IInv'
  OBVIOUS
<1>1. CASE UNCHANGED vars
  BY <1>1 DEF vars, IInv, TypeOK, ClockOk, QueryOk, EntryOk, AgeBounded
<1> QED
  BY <1>1, TickInv, TimerFiresInv, TaskInv, LookupInv, UpdateInv DEF Next

LEMMA Invariance == Spec => []IInv
<1>1. Init => IInv
  BY InitInv
<1>2. IInv /\ [Next]_vars => IInv'
  BY StepInv
<1> QED
  BY <1>1, <1>2, PTL DEF Spec

\* Every variable keeps its type, and the subtraction of counters in the resolver
\* never wraps: no entry is stamped ahead of the counter (dns_resolver: Timer).
THEOREM ResolverTypeOK == Spec => []TypeOK
<1>1. IInv => TypeOK
  BY DEF IInv
<1> QED
  BY <1>1, Invariance, PTL

\* However many hosts and queries there are and whenever they come, no answer from
\* the cache is older than a short and a long sleep of the timer and the time an
\* update is on its way.
THEOREM AgeBoundedHolds == Spec => []AgeBounded
<1>1. IInv => AgeBounded
  BY DEF IInv
<1> QED
  BY <1>1, Invariance, PTL
=============================================================================
