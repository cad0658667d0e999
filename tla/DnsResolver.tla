---------------------------- MODULE DnsResolver ----------------------------
(***************************************************************************)
(* The DNS resolver of the server: one task with a cache, and one task for *)
(* each lookup.  The age of cached answers is kept by a counter that a     *)
(* timer moves; the timer runs slowly while nobody asks.                   *)
(*                                                                         *)
(* Time is counted in ticks.  A lookup, and the update of the cache that   *)
(* follows it, take less than an update period.                            *)
(***************************************************************************)
EXTENDS Naturals

CONSTANTS
  Hosts,       \* the names that are asked for
  Queries,     \* bound: the queries, a set of numbers
  Period,      \* DNS_UPDATE_PERIOD_SEC, in ticks
  SlowFactor,  \* how much longer the timer sleeps while nobody asks (20)
  MaxLookup,   \* the longest lookup
  Lag,         \* the longest time an update of the cache is on its way
  MaxTime      \* bound: ticks

ASSUME PeriodAssumption ==
  /\ {Period, SlowFactor, MaxLookup, Lag, MaxTime} \subseteq Nat
  /\ SlowFactor >= 1 /\ MaxLookup + Lag < Period

VARIABLES
  now,
  instant, counter, slow,  \* Timer
  cache,   \* cache[h]: the entry of h, NoEntry if there is none
  query,   \* query[q]: what has become of it
  maxAge   \* the oldest answer that has been served from the cache

vars == <<now, instant, counter, slow, cache, query, maxAge>>
timer == <<instant, counter, slow>>

NoEntry == [known |-> FALSE, ip |-> "none", timestamp |-> 0, born |-> 0]
Unasked == [state |-> "unasked", host |-> "none", ip |-> "none", since |-> 0]
Done == [state |-> "answered", host |-> "none", ip |-> "none", since |-> 0]

Init ==
  /\ now = 0 /\ instant = 0 /\ counter = 0 /\ slow = 0
  /\ cache = [h \in Hosts |-> NoEntry]
  /\ query = [q \in Queries |-> Unasked]
  /\ maxAge = 0
-----------------------------------------------------------------------------
(***************************************************************************)
(* Timer and the branches of select!.                                      *)
(***************************************************************************)
sleep_until == instant + (IF slow = 0 THEN Period * SlowFactor ELSE Period)
slower == IF slow > 0 THEN slow - 1 ELSE slow

TimerFires ==
  /\ now >= sleep_until
  /\ counter' = counter + 1
  /\ instant' = now
  /\ slow' = slower
  /\ UNCHANGED <<now, cache, query, maxAge>>

\* Mutant: one period more.
FreshLonger(h) == cache[h].known /\ counter - cache[h].timestamp <= 2

fresh(h) == cache[h].known /\ counter - cache[h].timestamp < 2

Bigger(a, b) == IF a < b THEN b ELSE a

\* A query arrives: it is answered from the cache or by a lookup of its own.
Task(q, h) ==
  /\ query[q] = Unasked /\ \A p \in Queries : p < q => query[p] # Unasked
  /\ slow' = 2
  /\ \/ /\ fresh(h)
        /\ query' = [query EXCEPT ![q] = Done]
        /\ maxAge' = Bigger(maxAge, now - cache[h].born)
     \/ /\ ~fresh(h)
        /\ query' = [query EXCEPT ![q] = [state |-> "looking", host |-> h,
                                          ip |-> "none", since |-> now]]
        /\ UNCHANGED maxAge
  /\ UNCHANGED <<now, instant, counter, cache>>

\* The resolver receives an update of the cache, in whatever order they come.
Update(q) ==
  /\ query[q].state = "updating"
  /\ cache' = [cache EXCEPT ![query[q].host] =
                 [known |-> TRUE, ip |-> query[q].ip, timestamp |-> counter, born |-> query[q].since]]
  /\ query' = [query EXCEPT ![q] = Done]
  /\ UNCHANGED <<now, timer, maxAge>>
-----------------------------------------------------------------------------
(***************************************************************************)
(* single_resolve_task and the clock.                                      *)
(***************************************************************************)

\* Mutant: a lookup that fails ends the task.
LookupMayVanish(q) ==
  /\ query[q].state = "looking"
  /\ \E s \in {"updating", "unasked"} :
       query' = [query EXCEPT ![q] = [@ EXCEPT !.state = s, !.ip = "address", !.since = now]]
  /\ UNCHANGED <<now, timer, cache, maxAge>>

\* The lookup ends with an address or without, the query is answered either way
\* and the answer is sent to the cache.
Lookup(q) ==
  /\ query[q].state = "looking"
  /\ \E ip \in {"address", "BLACK_HOLE_LOCAL_ADDR"} :
       query' = [query EXCEPT ![q] = [@ EXCEPT !.state = "updating", !.ip = ip, !.since = now]]
  /\ UNCHANGED <<now, timer, cache, maxAge>>

Due(q) ==
  \/ query[q].state = "looking" /\ now >= query[q].since + MaxLookup
  \/ query[q].state = "updating" /\ now >= query[q].since + Lag

Tick ==
  /\ now < MaxTime /\ now < sleep_until /\ \A q \in Queries : ~Due(q)
  /\ now' = now + 1
  /\ UNCHANGED <<timer, cache, query, maxAge>>
-----------------------------------------------------------------------------
Next ==
  \/ Tick \/ TimerFires
  \/ \E q \in Queries : Lookup(q) \/ Update(q) \/ \E h \in Hosts : Task(q, h)

Spec == Init /\ [][Next]_vars

\* The tasks run; lookup_host returns.
FairSpec == Spec /\ \A q \in Queries : WF_vars(Lookup(q)) /\ WF_vars(Update(q))
-----------------------------------------------------------------------------
Answers == {"none", "address", "BLACK_HOLE_LOCAL_ADDR"}
Entries == [known : BOOLEAN, ip : Answers, timestamp : Nat, born : Nat]
Questions == [state : {"unasked", "looking", "updating", "answered"},
              host : Hosts \cup {"none"}, ip : Answers, since : Nat]

\* Every variable has its type; no entry is stamped ahead of the counter, from
\* which the resolver subtracts it as usize.
TypeOK ==
  /\ {now, instant, counter, maxAge} \subseteq Nat /\ slow \in 0..2
  /\ cache \in [Hosts -> Entries]
  /\ query \in [Queries -> Questions]
  /\ \A h \in Hosts : cache[h].timestamp <= counter

\* How old an answer from the cache can be: a query that comes in just before
\* the timer fires leaves an entry behind that survives one short and one long
\* sleep of the timer, and no entry survives more than that.
AgeBounded == maxAge <= (SlowFactor + 1) * Period + Lag

\* Every query is answered, also if its lookup fails.
Answered == \A q \in Queries : query[q].state = "looking" ~> query[q].state = "answered"
=============================================================================
