--------------------------- MODULE ResponseCache ---------------------------
(***************************************************************************)
(* ExactResponseCache (service/response_cache.py) as the natural-language  *)
(* answer route uses it (service/app.py): a TTL- and LRU-bounded cache     *)
(* whose concurrent misses on one key share one computation.               *)
(*                                                                         *)
(* A request thread hashes the question and the sources it finds (the      *)
(* corpus manifest and policy on disk) into a key, looks the key up under  *)
(* the lock, and either returns the entry, waits for the flight of another *)
(* thread, or computes, reading the sources again.  Versions number the    *)
(* contents those files take, and an activation may replace them any time. *)
(***************************************************************************)
EXTENDS Naturals, Sequences, FiniteSets, SequencesExt

CONSTANTS Thread, NoThread,   \* request threads of the server
          Question,
          MaxVersion,         \* bound: how many contents the sources take
          Capacity, Ttl       \* settings; Ttl in clock ticks

ASSUME CacheAssumption ==
  /\ NoThread \notin Thread /\ Question # {}
  /\ MaxVersion \in Nat \ {0} /\ Capacity \in Nat \ {0} /\ Ttl \in Nat \ {0}

Version == 1 .. MaxVersion

\* What a computation may come to: an answer for the cache, an answer for the
\* requests that wait for it only (should_cache), or an exception.
Outcomes == {"cacheable", "transient", "error"}

Key == [question : Question, version : Version]
Value == [question : Question, version : Version]
Nothing == [question |-> "nothing", version |-> 0]
Entry == [key : Key, value : Value, left : 0 .. Ttl]

VARIABLES
  sources,    \* the version on disk
  entries,    \* OrderedDict: least recently used first
  flights,    \* [Key -> the owning thread or NoThread]
  pc, key,    \* per thread
  value, outcome,   \* what its computation gave, until it returns
  awaited     \* whose flight a waiting thread waits for

vars == <<sources, entries, flights, pc, key, value, outcome, awaited>>

Step == {"idle", "lookup", "wait", "compute", "store"}

TypeOK ==
  /\ sources \in Version
  /\ entries \in Seq(Entry)
  /\ flights \in [Key -> Thread \cup {NoThread}]
  /\ pc \in [Thread -> Step]
  /\ key \in [Thread -> Key]
  /\ value \in [Thread -> Value \cup {Nothing}]
  /\ outcome \in [Thread -> Outcomes \cup {"none"}]
  /\ awaited \in [Thread -> Thread \cup {NoThread}]

Init ==
  /\ sources = 1 /\ entries = <<>>
  /\ flights = [k \in Key |-> NoThread]
  /\ pc = [t \in Thread |-> "idle"]
  /\ key \in [Thread -> {[question |-> CHOOSE q \in Question : TRUE, version |-> 1]}]
  /\ value = [t \in Thread |-> Nothing]
  /\ outcome = [t \in Thread |-> "none"]
  /\ awaited = [t \in Thread |-> NoThread]

-----------------------------------------------------------------------------
(* The OrderedDict.                                                        *)

\* The entries at the indices I, in their order (SelectSeq, whose recursion no
\* prover unfolds).
EntriesAt(es, I) ==
  [n \in 1 .. Cardinality(I) |-> es[CHOOSE i \in I : Cardinality({h \in I : h < i}) = n - 1]]

Live(es) == EntriesAt(es, {i \in DOMAIN es : es[i].left > 0})
Without(es, k) == EntriesAt(es, {i \in DOMAIN es : es[i].key # k})
Holds(es, k) == \E i \in DOMAIN es : es[i].key = k
Lookup(es, k) == es[CHOOSE i \in DOMAIN es : es[i].key = k]
MoveToEnd(es, k) == Append(Without(es, k), Lookup(es, k))

Evict(es) ==
  IF Len(es) > Capacity THEN SubSeq(es, Len(es) - Capacity + 1, Len(es)) ELSE es

-----------------------------------------------------------------------------
(* get_or_compute                                                          *)

\* The route computes the key from the sources as they are now.
Request(t) ==
  /\ pc[t] = "idle"
  /\ \E q \in Question : key' = [key EXCEPT ![t] = [question |-> q, version |-> sources]]
  /\ pc' = [pc EXCEPT ![t] = "lookup"]
  /\ UNCHANGED <<sources, entries, flights, value, outcome, awaited>>

Hit(t) ==
  /\ pc[t] = "lookup" /\ Holds(Live(entries), key[t])
  /\ entries' = MoveToEnd(Live(entries), key[t])
  /\ pc' = [pc EXCEPT ![t] = "idle"]
  /\ UNCHANGED <<sources, flights, key, value, outcome, awaited>>

Miss(t) ==
  /\ pc[t] = "lookup" /\ ~Holds(Live(entries), key[t])
  /\ entries' = Live(entries)

Join(t) ==
  /\ Miss(t) /\ flights[key[t]] # NoThread
  /\ awaited' = [awaited EXCEPT ![t] = flights[key[t]]]
  /\ pc' = [pc EXCEPT ![t] = "wait"]
  /\ UNCHANGED <<sources, flights, key, value, outcome>>

\* Mutant: every miss computes, as without a flight table.
LeadAlways(t) ==
  /\ Miss(t)
  /\ flights' = [flights EXCEPT ![key[t]] = t]
  /\ pc' = [pc EXCEPT ![t] = "compute"]
  /\ UNCHANGED <<sources, key, value, outcome, awaited>>

Lead(t) ==
  /\ Miss(t) /\ flights[key[t]] = NoThread
  /\ flights' = [flights EXCEPT ![key[t]] = t]
  /\ pc' = [pc EXCEPT ![t] = "compute"]
  /\ UNCHANGED <<sources, key, value, outcome, awaited>>

\* compute() reads manifest and policy again, at some moment before it returns;
\* the lock is not held.  NaturalAnswer says what it does.
Compute(t) ==
  /\ pc[t] = "compute"
  /\ \E v \in key[t].version .. sources :
       value' = [value EXCEPT ![t] = [question |-> key[t].question, version |-> v]]
  /\ \E o \in Outcomes : outcome' = [outcome EXCEPT ![t] = o]
  /\ pc' = [pc EXCEPT ![t] = "store"]
  /\ UNCHANGED <<sources, entries, flights, key, awaited>>

\* completed.set(): the thread returns, and with it all that wait for its flight,
\* with the value or the exception of the computation.
Waiters(t) == {w \in Thread : pc[w] = "wait" /\ awaited[w] = t}
Completes(t) ==
  /\ pc' = [w \in Thread |-> IF w = t \/ w \in Waiters(t) THEN "idle" ELSE pc[w]]
  /\ value' = [value EXCEPT ![t] = Nothing]
  /\ awaited' = [w \in Thread |-> IF w \in Waiters(t) THEN NoThread ELSE awaited[w]]

\* Mutant: a failed computation leaves its flight in the table.
StoreLeaks(t) ==
  /\ pc[t] = "store" /\ Completes(t)
  /\ flights' = IF outcome[t] = "error" THEN flights
                ELSE [flights EXCEPT ![key[t]] = NoThread]
  /\ entries' = IF outcome[t] = "cacheable"
                  THEN Evict(Append(Without(entries, key[t]),
                                    [key |-> key[t], value |-> value[t], left |-> Ttl]))
                  ELSE entries
  /\ outcome' = [outcome EXCEPT ![t] = "none"]
  /\ UNCHANGED <<sources, key>>

Store(t) ==
  /\ pc[t] = "store" /\ Completes(t)
  /\ flights' = [flights EXCEPT ![key[t]] = NoThread]
  /\ entries' = IF outcome[t] = "cacheable"
                  THEN Evict(Append(Without(entries, key[t]),
                                    [key |-> key[t], value |-> value[t], left |-> Ttl]))
                  ELSE entries
  /\ outcome' = [outcome EXCEPT ![t] = "none"]
  /\ UNCHANGED <<sources, key>>

-----------------------------------------------------------------------------
(* Time passes; an activation replaces the manifest.                       *)

Tick ==
  /\ entries # <<>>
  /\ entries' = [i \in DOMAIN entries |->
                   [entries[i] EXCEPT !.left = IF @ = 0 THEN 0 ELSE @ - 1]]
  /\ UNCHANGED <<sources, flights, pc, key, value, outcome, awaited>>

Activate ==
  /\ \E v \in Version : v > sources /\ sources' = v
  /\ UNCHANGED <<entries, flights, pc, key, value, outcome, awaited>>

Serve(t) == Hit(t) \/ Join(t) \/ Lead(t) \/ Compute(t) \/ Store(t)

Next == (\E t \in Thread : Request(t) \/ Serve(t)) \/ Tick \/ Activate

Spec == Init /\ [][Next]_vars

-----------------------------------------------------------------------------
(* Properties.                                                             *)

\* No two threads ever compute for one key, every flight in the table has a
\* thread that will complete it, and nobody waits for a thread that works for
\* another key or not at all (get_or_compute 70-88, 90-113: the flight, not the
\* key, is what a waiter holds).
SingleFlight ==
  /\ \A t, u \in Thread :
        pc[t] \in {"compute", "store"} /\ pc[u] \in {"compute", "store"} /\ key[t] = key[u]
          => t = u
  /\ \A k \in Key : flights[k] # NoThread =>
        pc[flights[k]] \in {"compute", "store"} /\ key[flights[k]] = k
  /\ \A t \in Thread : pc[t] = "wait" =>
        pc[awaited[t]] \in {"compute", "store"} /\ key[awaited[t]] = key[t]

\* The dictionary stays within its capacity and holds a key once, whatever mix of
\* hits, stores and expiries the threads cause (99-113, 121-124), and no entry is
\* older than its key: a hit is never older than the sources its request was keyed
\* by.  It may be newer, when an activation comes between the key and the
\* computation (app.py 1672-1690).
NeverOlderThanKey ==
  /\ Len(entries) <= Capacity
  /\ \A i, j \in DOMAIN entries : entries[i].key = entries[j].key => i = j
  /\ \A i \in DOMAIN entries :
       /\ entries[i].value.question = entries[i].key.question
       /\ entries[i].value.version >= entries[i].key.version
=============================================================================
