------------------------ MODULE NaturalAnswerProofs ------------------------
(***************************************************************************)
(* The exact response cache and the route that computes into it, for any   *)
(* number of threads, questions, versions and any capacity.                *)
(***************************************************************************)
EXTENDS NaturalAnswer, FiniteSetTheorems, SequenceTheorems, TLAPS

(***************************************************************************)
(* One computation per key, for every number of threads, keys and versions *)
(* of the sources.  SingleFlight says what the flight table holds; to be   *)
(* inductive it has to be an equivalence, the table names a thread exactly *)
(* while that thread computes, and what waiters hold rides on it.          *)
(***************************************************************************)

Works(t) == pc[t] \in {"compute", "store"}

FlightTypeOK ==
  /\ sources \in Version
  /\ flights \in [Key -> Thread \cup {NoThread}]
  /\ pc \in [Thread -> Step]
  /\ key \in [Thread -> Key]
  /\ awaited \in [Thread -> Thread \cup {NoThread}]

FlightsAreWork ==
  \A k \in Key, t \in Thread : flights[k] = t <=> Works(t) /\ key[t] = k

WaitersHaveWork ==
  \A t \in Thread : pc[t] = "wait" =>
    awaited[t] \in Thread /\ Works(awaited[t]) /\ key[awaited[t]] = key[t]

FlightInv == FlightTypeOK /\ FlightsAreWork /\ WaitersHaveWork

-----------------------------------------------------------------------------
\* The first question and the first version make a key.
LEMMA InitFlightInv == Init => FlightInv
<1> SUFFICES ASSUME Init PROVE FlightInv
  OBVIOUS
<1>1. (CHOOSE q \in Question : TRUE) \in Question /\ 1 \in Version
  BY CacheAssumption DEF Version
<1>2. [question |-> CHOOSE q \in Question : TRUE, version |-> 1] \in Key
  BY <1>1 DEF Key
<1> QED
  BY <1>1, <1>2, CacheAssumption
     DEF Init, FlightInv, FlightTypeOK, FlightsAreWork, WaitersHaveWork, Works, Step

LEMMA NextFlightInv == FlightInv /\ [Next]_vars => FlightInv'
<1> SUFFICES ASSUME FlightInv, [Next]_vars PROVE FlightInv'
  OBVIOUS
<1> USE CacheAssumption DEF FlightInv, FlightTypeOK, Works, Step
<1>1. ASSUME NEW t \in Thread, Request(t) PROVE FlightInv'
  <2> PICK q \in Question : key' = [key EXCEPT ![t] = [question |-> q, version |-> sources]]
    BY <1>1 DEF Request
  <2>1. [question |-> q, version |-> sources] \in Key
    BY DEF Key
  <2> QED
    BY <1>1, <2>1 DEF Request, FlightsAreWork, WaitersHaveWork
<1>2. ASSUME NEW t \in Thread, Hit(t) PROVE FlightInv'
  BY <1>2 DEF Hit, FlightsAreWork, WaitersHaveWork
<1>3. ASSUME NEW t \in Thread, Join(t) PROVE FlightInv'
  <2>1. /\ key[t] \in Key /\ flights[key[t]] \in Thread
        /\ pc[t] = "lookup" /\ flights[key[t]] # t
    BY <1>3 DEF Join, Miss, FlightsAreWork
  <2>2. Works(flights[key[t]]) /\ key[flights[key[t]]] = key[t]
    BY <2>1 DEF FlightsAreWork
  <2> QED
    BY <1>3, <2>1, <2>2 DEF Join, Miss, FlightsAreWork, WaitersHaveWork
<1>4. ASSUME NEW t \in Thread, Lead(t) PROVE FlightInv'
  <2>1. FlightsAreWork'
    BY <1>4 DEF Lead, Miss, FlightsAreWork
  <2>2. WaitersHaveWork'
    BY <1>4 DEF Lead, Miss, WaitersHaveWork
  <2> QED
    BY <1>4, <2>1, <2>2 DEF Lead, Miss
<1>5. ASSUME NEW t \in Thread, Compute(t) PROVE FlightInv'
  BY <1>5 DEF Compute, FlightsAreWork, WaitersHaveWork
<1>6. ASSUME NEW t \in Thread, Store(t) PROVE FlightInv'
  <2>1. /\ pc' \in [Thread -> Step] /\ awaited' \in [Thread -> Thread \cup {NoThread}]
        /\ flights' \in [Key -> Thread \cup {NoThread}] /\ UNCHANGED <<sources, key>>
    BY <1>6 DEF Store, Completes
  <2>2. FlightsAreWork'
    BY <1>6, <2>1 DEF Store, Completes, Waiters, FlightsAreWork
  <2>3. WaitersHaveWork'
    BY <1>6, <2>1 DEF Store, Completes, Waiters, WaitersHaveWork
  <2> QED
    BY <2>1, <2>2, <2>3
<1>7. CASE Tick
  BY <1>7 DEF Tick, FlightsAreWork, WaitersHaveWork
<1>8. CASE Activate
  BY <1>8 DEF Activate, FlightsAreWork, WaitersHaveWork
<1>9. CASE UNCHANGED vars
  BY <1>9 DEF vars, FlightsAreWork, WaitersHaveWork
<1> QED
  BY <1>1, <1>2, <1>3, <1>4, <1>5, <1>6, <1>7, <1>8, <1>9 DEF Next, Serve

\* However many threads miss on however many keys, no two compute for one key,
\* every flight has a thread that will complete it, and nobody waits for a
\* thread that works for another key (get_or_compute 69-113).
THEOREM OneComputationPerKey == Spec => []SingleFlight
<1>1. Init => FlightInv
  BY InitFlightInv
<1>2. FlightInv /\ [Next]_vars => FlightInv'
  BY NextFlightInv
<1>3. FlightInv => SingleFlight
  BY CacheAssumption DEF FlightInv, FlightTypeOK, FlightsAreWork, WaitersHaveWork, Works,
                         SingleFlight
<1> QED
  BY <1>1, <1>2, <1>3, PTL DEF Spec

-----------------------------------------------------------------------------
(* The dictionary.                                                         *)

Below(I, i) == {h \in I : h < i}

\* Fewer members of a finite set of indices are below a smaller member.
LEMMA FewerBelow ==
  ASSUME NEW I \in SUBSET Nat, IsFiniteSet(I), NEW i \in I
  PROVE  /\ Cardinality(Below(I, i)) \in 0 .. Cardinality(I) - 1
         /\ \A j \in I : i < j => Cardinality(Below(I, i)) < Cardinality(Below(I, j))
<1>1. \A j \in I : /\ IsFiniteSet(Below(I, j)) /\ Cardinality(Below(I, j)) \in Nat
  BY FS_Subset, FS_CardinalityType DEF Below
<1>2. Cardinality(I) \in Nat
  BY FS_CardinalityType
<1>3. Cardinality(Below(I, i)) < Cardinality(I)
  <2>1. Below(I, i) \in SUBSET I /\ i \notin Below(I, i)
    BY DEF Below
  <2>2. Cardinality(Below(I, i)) <= Cardinality(I) /\ Cardinality(Below(I, i)) # Cardinality(I)
    BY <2>1, FS_Subset
  <2> QED
    BY <1>1, <1>2, <2>2
<1>4. ASSUME NEW j \in I, i < j PROVE Cardinality(Below(I, i)) < Cardinality(Below(I, j))
  <2>1. Below(I, i) \in SUBSET Below(I, j) /\ i \notin Below(I, i) /\ i \in Below(I, j)
    <3>1. i \in Nat /\ j \in Nat /\ \A h \in I : h \in Nat
      OBVIOUS
    <3>2. \A h \in I : h < i => h < j
      BY <1>4, <3>1
    <3>3. ~ i < i
      BY <3>1
    <3> QED
      BY <1>4, <3>2, <3>3 DEF Below
  <2>2. Cardinality(Below(I, i)) <= Cardinality(Below(I, j))
        /\ Cardinality(Below(I, i)) # Cardinality(Below(I, j))
    BY <1>1, <2>1, FS_Subset
  <2> QED
    BY <1>1, <2>2
<1> QED
  BY <1>1, <1>2, <1>3, <1>4

\* Counting the members below gives every member of a set of indices a place of
\* its own, and fills all places.
LEMMA PlacesOfIndices ==
  ASSUME NEW m \in Nat, NEW I \in SUBSET (1 .. m)
  PROVE  /\ IsFiniteSet(I) /\ Cardinality(I) \in Nat /\ Cardinality(I) <= m
         /\ \A n \in 1 .. Cardinality(I) : \E i \in I : Cardinality(Below(I, i)) = n - 1
<1>1. IsFiniteSet(I) /\ Cardinality(I) \in Nat /\ Cardinality(I) <= m
  <2>1. IsFiniteSet(1 .. m) /\ Cardinality(1 .. m) = m
    BY FS_Interval
  <2> QED
    BY <2>1, FS_Subset, FS_CardinalityType
<1>2. I \in SUBSET Nat
  OBVIOUS
<1> DEFINE Place == [i \in I |-> Cardinality(Below(I, i)) + 1]
<1>3. \A i \in I : Place[i] = Cardinality(Below(I, i)) + 1 /\ Cardinality(Below(I, i)) \in Nat
  BY <1>1, <1>2, FewerBelow
<1>4. Place \in [I -> 1 .. Cardinality(I)]
  BY <1>1, <1>2, FewerBelow
<1> HIDE DEF Place
<1>5. \A i, j \in I : Place[i] = Place[j] => i = j
  <2> SUFFICES ASSUME NEW i \in I, NEW j \in I, i < j PROVE Place[i] # Place[j]
    BY <1>2
  <2>1. Cardinality(Below(I, i)) < Cardinality(Below(I, j))
    BY <1>1, <1>2, FewerBelow
  <2> QED
    BY <1>3, <2>1
<1>6. Place \in Injection(I, 1 .. Cardinality(I))
  BY <1>4, <1>5 DEF Injection, IsInjective
<1>7. Place \in Surjection(I, 1 .. Cardinality(I))
  <2>1. IsFiniteSet(1 .. Cardinality(I)) /\ Cardinality(1 .. Cardinality(I)) = Cardinality(I)
    BY <1>1, FS_Interval
  <2> QED
    BY <1>6, <2>1, FS_Injection
<1>8. ASSUME NEW n \in 1 .. Cardinality(I) PROVE \E i \in I : Cardinality(Below(I, i)) = n - 1
  <2>1. PICK i \in I : Place[i] = n
    BY <1>7 DEF Surjection
  <2> QED
    BY <1>3, <2>1
<1> QED
  BY <1>1, <1>8

\* A sub-sequence holds what it keeps, each at one place.
LEMMA EntriesKept ==
  ASSUME NEW S, NEW es \in Seq(S), NEW I \in SUBSET DOMAIN es
  PROVE  /\ EntriesAt(es, I) \in Seq(S)
         /\ Len(EntriesAt(es, I)) = Cardinality(I) /\ Cardinality(I) <= Len(es)
         /\ \A n \in DOMAIN EntriesAt(es, I) : \E i \in I : EntriesAt(es, I)[n] = es[i]
         /\ \A n, p \in DOMAIN EntriesAt(es, I) : n # p =>
              \E i, j \in I : i # j /\ EntriesAt(es, I)[n] = es[i] /\ EntriesAt(es, I)[p] = es[j]
<1> DEFINE At(n) == CHOOSE i \in I : Cardinality(Below(I, i)) = n - 1
           m == Cardinality(I)
<1>1. I \in SUBSET (1 .. Len(es)) /\ Len(es) \in Nat
  OBVIOUS
<1>2. /\ m \in Nat /\ m <= Len(es)
      /\ \A n \in 1 .. m : \E i \in I : Cardinality(Below(I, i)) = n - 1
  BY <1>1, PlacesOfIndices
<1>3. \A n \in 1 .. m : At(n) \in I /\ Cardinality(Below(I, At(n))) = n - 1
  BY <1>2
<1>4. EntriesAt(es, I) = [n \in 1 .. m |-> es[At(n)]]
  BY DEF EntriesAt, Below
<1> HIDE DEF At, m
<1>5. EntriesAt(es, I) \in [1 .. m -> S]
  BY <1>1, <1>3, <1>4
<1>6. EntriesAt(es, I) \in Seq(S) /\ Len(EntriesAt(es, I)) = m /\ DOMAIN EntriesAt(es, I) = 1 .. m
  BY <1>2, <1>5
<1>7. ASSUME NEW n \in 1 .. m, NEW p \in 1 .. m, n # p PROVE At(n) # At(p)
  BY <1>2, <1>3, <1>7
<1> QED
  BY <1>2, <1>3, <1>4, <1>6, <1>7 DEF m

\* What a dictionary is: a key is in it once, with a value that belongs to it and
\* is not older.
Sound(es) ==
  /\ es \in Seq(Entry)
  /\ \A i, j \in DOMAIN es : es[i].key = es[j].key => i = j
  /\ \A i \in DOMAIN es : /\ es[i].value.question = es[i].key.question
                          /\ es[i].value.version >= es[i].key.version

LEMMA SoundSeq ==
  ASSUME NEW es, Sound(es)
  PROVE  es \in Seq(Entry) /\ Len(es) \in Nat /\ DOMAIN es = 1 .. Len(es)
BY DEF Sound

LEMMA EntriesAtSound ==
  ASSUME NEW es, Sound(es), NEW I \in SUBSET DOMAIN es
  PROVE  Sound(EntriesAt(es, I))
<1>1. EntriesAt(es, I) \in Seq(Entry)
  BY EntriesKept DEF Sound
<1>2. \A n \in DOMAIN EntriesAt(es, I) : \E i \in I : EntriesAt(es, I)[n] = es[i]
  BY EntriesKept DEF Sound
<1>3. \A n, p \in DOMAIN EntriesAt(es, I) : n # p =>
        \E i, j \in I : i # j /\ EntriesAt(es, I)[n] = es[i] /\ EntriesAt(es, I)[p] = es[j]
  BY EntriesKept DEF Sound
<1> QED
  BY <1>1, <1>2, <1>3 DEF Sound

\* Expiry takes entries away (_expire_locked).
LEMMA LiveSound ==
  ASSUME NEW es, Sound(es)
  PROVE  Sound(Live(es)) /\ Len(Live(es)) <= Len(es)
<1> DEFINE I == {i \in DOMAIN es : es[i].left > 0}
<1>1. Live(es) = EntriesAt(es, I) /\ I \in SUBSET DOMAIN es
  BY DEF Live
<1> HIDE DEF I
<1>2. Sound(EntriesAt(es, I)) /\ es \in Seq(Entry)
  BY <1>1, EntriesAtSound, SoundSeq
<1> QED
  BY <1>1, <1>2, EntriesKept

\* A key is taken out of the dictionary, and with it one entry if it is there.
LEMMA WithoutSound ==
  ASSUME NEW es, Sound(es), NEW k
  PROVE  /\ Sound(Without(es, k)) /\ ~Holds(Without(es, k), k)
         /\ Len(Without(es, k)) <= Len(es)
         /\ Holds(es, k) => Len(Without(es, k)) + 1 = Len(es)
<1> DEFINE I == {i \in DOMAIN es : es[i].key # k}
<1>1. Without(es, k) = EntriesAt(es, I) /\ I \in SUBSET DOMAIN es
  BY DEF Without
<1>2. \A i \in I : es[i].key # k
  OBVIOUS
<1> HIDE DEF I
<1>3. /\ Sound(Without(es, k)) /\ Len(Without(es, k)) = Cardinality(I) /\ Cardinality(I) <= Len(es)
      /\ \A n \in DOMAIN Without(es, k) : \E i \in I : Without(es, k)[n] = es[i]
  <2>1. Sound(EntriesAt(es, I)) /\ es \in Seq(Entry)
    BY <1>1, EntriesAtSound, SoundSeq
  <2> QED
    BY <1>1, <2>1, EntriesKept
<1>4. ASSUME Holds(es, k) PROVE Cardinality(I) + 1 = Len(es)
  <2>1. PICK i \in DOMAIN es : es[i].key = k
    BY <1>4 DEF Holds
  <2>2. I = DOMAIN es \ {i}
    BY <2>1 DEF Sound, I
  <2>3. DOMAIN es = 1 .. Len(es) /\ Len(es) \in Nat
    BY SoundSeq
  <2>4. IsFiniteSet(DOMAIN es) /\ Cardinality(DOMAIN es) = Len(es)
    <3>1. 1 \in Int /\ Len(es) \in Int /\ Len(es) - 1 + 1 = Len(es) /\ (1 > Len(es) => Len(es) = 0)
      BY <2>3
    <3> QED
      BY <2>3, <3>1, FS_Interval
  <2>5. Cardinality(I) = Len(es) - 1
    BY <2>2, <2>4, FS_RemoveElement
  <2> QED
    BY <2>3, <2>5
<1>5. ~Holds(Without(es, k), k)
  BY <1>2, <1>3 DEF Holds
<1> QED
  BY <1>3, <1>4, <1>5

\* An entry whose key is not there is added at the end.
LEMMA AppendSound ==
  ASSUME NEW es, Sound(es), NEW e \in Entry, ~Holds(es, e.key),
         e.value.question = e.key.question, e.value.version >= e.key.version
  PROVE  Sound(Append(es, e)) /\ Len(Append(es, e)) = Len(es) + 1
<1>1. /\ Append(es, e) \in Seq(Entry) /\ Len(Append(es, e)) = Len(es) + 1 /\ Len(es) \in Nat
      /\ DOMAIN es = 1 .. Len(es) /\ DOMAIN Append(es, e) = 1 .. Len(es) + 1
      /\ \A i \in DOMAIN es : Append(es, e)[i] = es[i]
      /\ Append(es, e)[Len(es) + 1] = e
  BY DEF Sound
<1>2. \A i \in DOMAIN Append(es, e) : i \in DOMAIN es \/ i = Len(es) + 1
  BY <1>1
<1>3. \A i \in DOMAIN es : es[i].key # e.key
  BY DEF Holds
<1> QED
  BY <1>1, <1>2, <1>3 DEF Sound

\* A hit moves its entry to the end and loses none.
LEMMA MoveToEndSound ==
  ASSUME NEW es, Sound(es), NEW k, Holds(es, k)
  PROVE  Sound(MoveToEnd(es, k)) /\ Len(MoveToEnd(es, k)) = Len(es)
<1>1. /\ Lookup(es, k) \in Entry /\ Lookup(es, k).key = k
      /\ Lookup(es, k).value.question = Lookup(es, k).key.question
      /\ Lookup(es, k).value.version >= Lookup(es, k).key.version
  <2>1. PICK i \in DOMAIN es : es[i].key = k /\ Lookup(es, k) = es[i]
    BY DEF Holds, Lookup
  <2> QED
    BY <2>1 DEF Sound
<1> QED
  BY <1>1, WithoutSound, AppendSound DEF MoveToEnd

\* The oldest go until the capacity holds.
LEMMA EvictSound ==
  ASSUME NEW es, Sound(es), Len(es) <= Capacity + 1
  PROVE  Sound(Evict(es)) /\ Len(Evict(es)) <= Capacity
<1>1. Len(es) \in Nat /\ DOMAIN es = 1 .. Len(es) /\ es \in Seq(Entry) /\ Capacity \in Nat \ {0}
  BY CacheAssumption DEF Sound
<1>2. CASE Len(es) <= Capacity
  BY <1>1, <1>2 DEF Evict
<1>3. CASE Len(es) = Capacity + 1
  <2> DEFINE tail == SubSeq(es, 2, Len(es))
  <2>1. \A i \in 2 .. Len(es) : es[i] \in Entry
    BY <1>1
  <2>2. /\ tail \in Seq(Entry) /\ Len(tail) = Capacity
        /\ \A i \in 1 .. Capacity : tail[i] = es[i + 1]
    BY <1>1, <1>3, <2>1, SubSeqProperties
  <2> HIDE DEF tail
  <2>3. DOMAIN tail = 1 .. Capacity
    BY <1>1, <2>2
  <2>4. \A i \in 1 .. Capacity : i + 1 \in DOMAIN es
    BY <1>1, <1>3
  <2>5. \A i, j \in 1 .. Capacity : i + 1 = j + 1 => i = j
    OBVIOUS
  <2>6. Sound(tail)
    BY <2>2, <2>3, <2>4, <2>5 DEF Sound
  <2> QED
    BY <1>1, <1>3, <2>2, <2>6 DEF Evict, tail
<1>4. Len(es) <= Capacity \/ Len(es) = Capacity + 1
  <2>1. Len(es) \in Nat /\ Capacity \in Nat
    BY <1>1
  <2> QED
    BY <2>1
<1> QED
  BY <1>2, <1>3, <1>4

-----------------------------------------------------------------------------
\* What the sources were when a thread made its key.
KeysKnown ==
  /\ sources \in Version
  /\ key \in [Thread -> Key]
  /\ \A t \in Thread : key[t].version <= sources

\* Keys keep up with the sources whatever the cache does.
LEMMA NextKeysKnown == KeysKnown /\ [Next]_vars => KeysKnown'
<1> SUFFICES ASSUME KeysKnown, [Next]_vars PROVE KeysKnown'
  OBVIOUS
<1> USE CacheAssumption DEF KeysKnown, Key, Version
<1>1. ASSUME NEW t \in Thread, Request(t) PROVE KeysKnown'
  BY <1>1 DEF Request
<1>2. CASE UNCHANGED <<sources, key>>
  BY <1>2
<1>3. CASE Activate
  BY <1>3 DEF Activate
<1>4. ASSUME NEW t \in Thread, Serve(t) PROVE UNCHANGED <<sources, key>>
  BY <1>4 DEF Serve, Hit, Join, Lead, Compute, Store
<1>5. CASE Tick \/ UNCHANGED vars
  BY <1>2, <1>5 DEF Tick, vars
<1> QED
  BY <1>1, <1>2, <1>3, <1>4, <1>5 DEF Next

\* An answer that is ready to be stored belongs to its thread's key.
AnswersFit ==
  /\ pc \in [Thread -> Step] /\ DOMAIN value = Thread
  /\ \A t \in Thread : pc[t] = "store" =>
        /\ value[t] \in Value /\ value[t].question = key[t].question
        /\ value[t].version >= key[t].version

CacheInv == KeysKnown /\ AnswersFit /\ Sound(entries) /\ Len(entries) <= Capacity

LEMMA InitCacheInv == Init => CacheInv
<1> SUFFICES ASSUME Init PROVE CacheInv
  OBVIOUS
<1> DEFINE first == [question |-> CHOOSE q \in Question : TRUE, version |-> 1]
<1>1. 1 \in Version /\ first \in Key /\ first.version = 1
  BY CacheAssumption DEF Version, Key
<1>2. sources = 1 /\ key \in [Thread -> {first}]
  BY DEF Init
<1> HIDE DEF first
<1>3. KeysKnown
  BY <1>1, <1>2 DEF KeysKnown
<1>4. AnswersFit
  BY DEF Init, AnswersFit, Step
<1>5. Sound(entries) /\ Len(entries) <= Capacity
  BY CacheAssumption DEF Init, Sound
<1> QED
  BY <1>3, <1>4, <1>5 DEF CacheInv

LEMMA NextAnswersFit == CacheInv /\ [Next]_vars => AnswersFit'
<1> SUFFICES ASSUME CacheInv, [Next]_vars PROVE AnswersFit'
  OBVIOUS
<1> USE DEF CacheInv, AnswersFit, Step
<1>1. ASSUME NEW t \in Thread, Request(t) PROVE AnswersFit'
  BY <1>1 DEF Request, KeysKnown
<1>2. ASSUME NEW t \in Thread, Hit(t) \/ Join(t) \/ Lead(t) PROVE AnswersFit'
  BY <1>2 DEF Hit, Join, Lead
<1>3. ASSUME NEW t \in Thread, Compute(t) PROVE AnswersFit'
  <2>1. /\ key[t].question \in Question /\ key[t].version \in Version /\ sources \in Version
        /\ key' = key
    BY <1>3 DEF Compute, KeysKnown, Key
  <2>2. PICK v \in key[t].version .. sources :
          value' = [value EXCEPT ![t] = [question |-> key[t].question, version |-> v]]
    BY <1>3 DEF Compute
  <2>3. v \in Version /\ v >= key[t].version
    BY <2>1, <2>2, CacheAssumption DEF Version
  <2>4. [question |-> key[t].question, version |-> v] \in Value
    BY <2>1, <2>3 DEF Value
  <2> QED
    BY <1>3, <2>1, <2>2, <2>3, <2>4 DEF Compute
<1>4. ASSUME NEW t \in Thread, Store(t) PROVE AnswersFit'
  BY <1>4 DEF Store, Completes
<1>5. CASE Tick \/ Activate \/ UNCHANGED vars
  BY <1>5 DEF Tick, Activate, vars
<1> QED
  BY <1>1, <1>2, <1>3, <1>4, <1>5 DEF Next, Serve

LEMMA NextDictionary == CacheInv /\ [Next]_vars => (Sound(entries) /\ Len(entries) <= Capacity)'
<1> SUFFICES ASSUME CacheInv, [Next]_vars PROVE Sound(entries') /\ Len(entries') <= Capacity
  OBVIOUS
<1> USE DEF CacheInv
<1>1. Capacity \in Nat /\ Ttl \in Nat /\ Len(entries) \in Nat
  BY CacheAssumption, SoundSeq
<1>2. Sound(Live(entries)) /\ Len(Live(entries)) <= Capacity
  BY <1>1, LiveSound, SoundSeq
<1>3. ASSUME NEW t \in Thread, Hit(t) PROVE Sound(entries') /\ Len(entries') <= Capacity
  BY <1>2, <1>3, MoveToEndSound DEF Hit
<1>4. ASSUME NEW t \in Thread, Join(t) \/ Lead(t) PROVE Sound(entries') /\ Len(entries') <= Capacity
  BY <1>2, <1>4 DEF Join, Lead, Miss
<1>5. ASSUME NEW t \in Thread, Store(t) PROVE Sound(entries') /\ Len(entries') <= Capacity
  <2> DEFINE rest == Without(entries, key[t])
             new == [key |-> key[t], value |-> value[t], left |-> Ttl]
  <2>1. pc[t] = "store" /\ (entries' = entries \/ entries' = Evict(Append(rest, new)))
    BY <1>5 DEF Store
  <2>2. /\ new \in Entry /\ new.key = key[t] /\ new.value.question = new.key.question
        /\ new.value.version >= new.key.version
    BY <1>1, <2>1 DEF AnswersFit, KeysKnown, Entry
  <2>3. Sound(rest) /\ ~Holds(rest, key[t]) /\ Len(rest) <= Len(entries)
    BY WithoutSound
  <2> HIDE DEF rest, new
  <2>4. Sound(Append(rest, new)) /\ Len(Append(rest, new)) = Len(rest) + 1 /\ Len(rest) \in Nat
    BY <2>2, <2>3, AppendSound, SoundSeq
  <2>5. Len(Append(rest, new)) <= Capacity + 1
    BY <1>1, <2>3, <2>4
  <2> QED
    BY <2>1, <2>4, <2>5, EvictSound
<1>6. CASE Tick
  <2> DEFINE Older(e) == [e EXCEPT !.left = IF @ = 0 THEN 0 ELSE @ - 1]
  <2>1. entries' = [i \in 1 .. Len(entries) |-> Older(entries[i])]
    BY <1>6, SoundSeq DEF Tick
  <2>2. \A e \in Entry : Older(e) \in Entry /\ Older(e).key = e.key /\ Older(e).value = e.value
    BY <1>1 DEF Entry
  <2>3. \A i \in 1 .. Len(entries) : entries[i] \in Entry
    BY SoundSeq
  <2> HIDE DEF Older
  <2>4. entries' \in Seq(Entry) /\ Len(entries') = Len(entries) /\ DOMAIN entries' = 1 .. Len(entries)
    BY <1>1, <2>1, <2>2, <2>3
  <2>5. \A i \in DOMAIN entries' : /\ entries'[i].key = entries[i].key
                                  /\ entries'[i].value = entries[i].value
    BY <2>1, <2>2, <2>3
  <2> QED
    BY <2>4, <2>5, SoundSeq DEF Sound
<1>7. CASE UNCHANGED entries
  BY <1>7
<1> QED
  BY <1>3, <1>4, <1>5, <1>6, <1>7 DEF Next, Serve, Request, Compute, Activate, vars

\* Whatever hits, stores, evictions and expiries the threads cause, and whenever
\* the corpus is replaced between the key and the computation: the dictionary
\* stays within its capacity, holds a key once, and never serves an answer that
\* is older than the sources its key was made from (response_cache.py 69-124).
THEOREM CacheNeverOlderThanKey == Spec => []NeverOlderThanKey
<1>1. CacheInv /\ [Next]_vars => CacheInv'
  BY NextKeysKnown, NextAnswersFit, NextDictionary DEF CacheInv
<1>2. CacheInv => NeverOlderThanKey
  BY DEF CacheInv, Sound, NeverOlderThanKey
<1> QED
  BY InitCacheInv, <1>1, <1>2, PTL DEF Spec

(***************************************************************************)
(* The computation of the natural-language route is one the cache was      *)
(* specified with, for any number of threads, questions and versions: all  *)
(* its steps but the last are invisible to the cache, and the answer it    *)
(* ends with is of a version that is not older than the key.               *)
(***************************************************************************)

\* Where a computation is, its thread computes, and what it has read of the
\* sources, if anything, lies between the key and now.
ReadsFresh ==
  /\ at \in [Thread -> Stage] /\ DOMAIN work = Thread /\ DOMAIN pc = Thread
  /\ \A t \in Thread : at[t] # "none" =>
       /\ pc[t] = "compute" /\ "read" \in DOMAIN work[t]
       /\ work[t].read = 0 \/ work[t].read \in key[t].version .. sources

NaturalInv == KeysKnown /\ ReadsFresh

-----------------------------------------------------------------------------
LEMMA InitNaturalInv == NaturalInit => NaturalInv
<1> SUFFICES ASSUME NaturalInit PROVE NaturalInv
  OBVIOUS
<1>1. (CHOOSE q \in Question : TRUE) \in Question /\ 1 \in Version
  BY CacheAssumption DEF Version
<1>2. [question |-> CHOOSE q \in Question : TRUE, version |-> 1] \in Key
  BY <1>1 DEF Key
<1>3. KeysKnown
  <2> DEFINE first == [question |-> CHOOSE q \in Question : TRUE, version |-> 1]
  <2>1. sources = 1 /\ key \in [Thread -> {first}] /\ first.version = 1 /\ first \in Key
    BY <1>2 DEF NaturalInit, Init
  <2> HIDE DEF first
  <2> QED
    BY <1>1, <2>1 DEF KeysKnown
<1>4. ReadsFresh
  BY DEF NaturalInit, Init, ReadsFresh, Stage
<1> QED
  BY <1>3, <1>4 DEF NaturalInv

\* A computation ends as the cache expects it to.
LEMMA EndsComputes ==
  ASSUME NaturalInv, NEW t \in Thread, at[t] # "none", NEW o \in Outcomes, Ends(t, o)
  PROVE  Compute(t)
<1>1. key[t] \in Key /\ key[t].version \in Version /\ sources \in Nat /\ key[t].version <= sources
  BY DEF NaturalInv, KeysKnown, Key, Version
<1>2. (IF work[t].read = 0 THEN key[t].version ELSE work[t].read) \in key[t].version .. sources
  BY <1>1 DEF NaturalInv, ReadsFresh, Version
<1>3. pc[t] = "compute"
  BY DEF NaturalInv, ReadsFresh
<1> QED
  BY <1>2, <1>3 DEF Ends, Compute

\* Every step of a computation is hidden from the cache or ends it.
LEMMA ComputingSteps ==
  ASSUME NaturalInv, NEW t \in Thread, Computing(t)
  PROVE  UNCHANGED vars \/ Compute(t)
<1> USE DEF Inside, Delivers, Outcomes
<1>1. CASE UNCHANGED vars
  BY <1>1
<1>2. CASE at[t] # "none" /\ \E o \in Outcomes : Ends(t, o)
  BY <1>2, EndsComputes
<1>3. CASE PlanAnswers(t)
  BY <1>2, <1>3 DEF PlanAnswers
<1>4. CASE SourcesRefused(t)
  BY <1>2, <1>4 DEF SourcesRefused
<1>5. CASE SearchFails(t)
  BY <1>2, <1>5 DEF SearchFails
<1>6. CASE Selects(t)
  BY <1>1, <1>2, <1>6 DEF Selects
<1>7. CASE FinalAnswers(t)
  BY <1>2, <1>7 DEF FinalAnswers
<1>8. CASE FinalFails(t)
  BY <1>2, <1>8 DEF FinalFails
<1>9. CASE Begin(t) \/ CallGenerator(t) \/ PlanFails(t) \/ PlanSearches(t)
  BY <1>1, <1>9 DEF Begin, CallGenerator, PlanFails, PlanSearches
<1>10. CASE ReadSources(t) \/ FindsNothing(t) \/ CallEmbedder(t) \/ SearchReturns(t)
  BY <1>1, <1>10 DEF ReadSources, FindsNothing, CallEmbedder, SearchReturns
<1> QED
  BY <1>3, <1>4, <1>5, <1>6, <1>7, <1>8, <1>9, <1>10 DEF Computing

\* Every step is one of the cache or leaves it alone.
LEMMA NextImplementsNext == NaturalInv /\ [NaturalNext]_allVars => [Next]_vars
<1> SUFFICES ASSUME NaturalInv, [NaturalNext]_allVars PROVE [Next]_vars
  OBVIOUS
<1>1. ASSUME NEW t \in Thread, Asks(t) PROVE Next
  BY <1>1 DEF Asks, Next
<1>2. ASSUME NEW t \in Thread, Serves(t) PROVE Next
  BY <1>2 DEF Serves, Next, Serve
<1>3. ASSUME NEW t \in Thread, Computing(t) PROVE [Next]_vars
  BY <1>3, ComputingSteps DEF Next, Serve
<1>4. ASSUME NEW t \in Thread, Stores(t) PROVE Next
  BY <1>4 DEF Stores, Next, Serve
<1>5. CASE Tick \/ Activate
  BY <1>5 DEF Next
<1>6. CASE UNCHANGED allVars
  BY <1>6 DEF allVars, vars
<1> QED
  BY <1>1, <1>2, <1>3, <1>4, <1>5, <1>6 DEF NaturalNext

-----------------------------------------------------------------------------
LEMMA NextNaturalInv == NaturalInv /\ [NaturalNext]_allVars => NaturalInv'
<1> SUFFICES ASSUME NaturalInv, [NaturalNext]_allVars PROVE NaturalInv'
  OBVIOUS
<1>1. KeysKnown'
  BY NextImplementsNext, NextKeysKnown DEF NaturalInv
<1> USE DEF NaturalInv, KeysKnown, ReadsFresh, Key, Version
<1>2. CASE UNCHANGED <<sources, key, pc, at, work>>
  BY <1>1, <1>2
<1>3. ASSUME NEW t \in Thread, Computing(t) PROVE ReadsFresh'
  <2> USE <1>3 DEF Goes, Gathers, Inside, vars, Stage
  <2>1. ASSUME at[t] # "none" \/ pc[t] = "compute", NEW stage \in Stage, Goes(t, stage),
               UNCHANGED vars, DOMAIN work' = Thread, \A u \in Thread \ {t} : work'[u] = work[u],
               "read" \in DOMAIN work'[t],
               work'[t].read = 0 \/ (at[t] # "none" /\ work'[t].read = work[t].read)
        PROVE  ReadsFresh'
    BY <2>1
  <2>21. CASE Begin(t)
    <3>1. PICK w : /\ w = [NoWork EXCEPT !.aim = "live"]
                     \/ w = [NoWork EXCEPT !.aim = "offline", !.left = LocalQueries(key[t].question)]
                   /\ work' = [work EXCEPT ![t] = w]
      BY <2>21 DEF Begin
    <3>2. "read" \in DOMAIN w /\ w.read = 0
      BY <3>1 DEF NoWork
    <3> QED
      BY <2>1, <2>21, <3>1, <3>2 DEF Begin
  <2>22. CASE CallGenerator(t)
    BY <2>1, <2>22 DEF CallGenerator
  <2>23. CASE PlanFails(t)
    BY <2>1, <2>23 DEF PlanFails
  <2>24. CASE CallEmbedder(t)
    BY <2>1, <2>24 DEF CallEmbedder
  <2>3. CASE PlanSearches(t)
    BY <2>1, <2>3 DEF PlanSearches
  <2>12. CASE SearchReturns(t)
    BY <2>1, <2>12 DEF SearchReturns
  <2>4. CASE ReadSources(t)
    BY <2>4 DEF ReadSources
  <2>5. CASE FindsNothing(t)
    BY <2>5 DEF FindsNothing
  <2>6. ASSUME NEW o, Ends(t, o),
               \A u \in Thread \ {t} : work'[u] = work[u], DOMAIN work' = Thread
        PROVE  ReadsFresh'
    BY <2>6 DEF Ends
  <2>7. CASE PlanAnswers(t)
    BY <2>6, <2>7 DEF PlanAnswers, Delivers
  <2>8. CASE SourcesRefused(t)
    BY <2>6, <2>8 DEF SourcesRefused
  <2>9. CASE SearchFails(t)
    BY <2>6, <2>9 DEF SearchFails
  <2>10. CASE Selects(t)
    <3>1. CASE work[t].aim = "live"
      BY <2>10, <3>1 DEF Selects
    <3>2. CASE work[t].aim # "live"
      BY <2>6, <2>10, <3>2 DEF Selects, Delivers
    <3> QED
      BY <3>1, <3>2
  <2>11. CASE FinalAnswers(t) \/ FinalFails(t)
    BY <2>6, <2>11 DEF FinalAnswers, FinalFails, Delivers
  <2> QED
    BY <2>21, <2>22, <2>23, <2>24, <2>3, <2>12, <2>4, <2>5, <2>7, <2>8, <2>9, <2>10, <2>11 DEF Computing
<1>4. ASSUME NEW t \in Thread, Asks(t) PROVE ReadsFresh'
  BY <1>4 DEF Asks, Request, naturalVars
<1>5. ASSUME NEW t \in Thread, Serves(t) PROVE ReadsFresh'
  <2>1. UNCHANGED <<sources, key, at, work>>
    BY <1>5 DEF Serves, Hit, Join, Lead, naturalVars
  <2>2. pc[t] = "lookup" /\ \E next : pc' = [pc EXCEPT ![t] = next]
    BY <1>5 DEF Serves, Hit, Join, Lead, Miss
  <2> QED
    BY <2>1, <2>2
<1>6. ASSUME NEW t \in Thread, Stores(t) PROVE ReadsFresh'
  <2>1. UNCHANGED <<sources, key, at>> /\ pc[t] = "store" /\ Completes(t)
    BY <1>6 DEF Stores, Store
  <2>2. DOMAIN pc' = Thread /\ \A u \in Thread : pc[u] = "compute" => pc'[u] = "compute"
    BY <2>1 DEF Completes, Waiters
  <2>3. DOMAIN work' = Thread /\ \A u \in Thread \ {t} : work'[u] = work[u]
    BY <1>6 DEF Stores, Gathers
  <2> QED
    BY <2>1, <2>2, <2>3
<1>7. CASE (Tick \/ Activate) /\ UNCHANGED naturalVars
  BY <1>7 DEF Tick, Activate, naturalVars
<1>8. CASE UNCHANGED allVars
  BY <1>2, <1>8 DEF allVars, vars, naturalVars
<1> QED
  BY <1>1, <1>3, <1>4, <1>5, <1>6, <1>7, <1>8 DEF NaturalNext

\* The cache cannot tell the computation of the route, with its searches, its
\* calls of a model and all that fails in them, from one that takes a moment
\* (_run_natural_qa, app.py 2011-2138, under get_or_compute).
THEOREM NaturalImplementsCache == NaturalSpec => ImplementsCache
<1>1. NaturalInit => Init
  BY DEF NaturalInit
<1> QED
  BY <1>1, InitNaturalInv, NextNaturalInv, NextImplementsNext, PTL
     DEF NaturalSpec, ImplementsCache, Spec

-----------------------------------------------------------------------------
(* What is kept.                                                           *)

Answered == <<"answered">>

\* No record of the target with room was found.
FoundNothing(packs) ==
  \A i \in DOMAIN packs : \A n \in DOMAIN packs[i] :
    packs[i][n].fits => packs[i][n].size > MaxSize

LEMMA AppendToOne ==
  ASSUME NEW a, NEW b
  PROVE  Append(<<a>>, b) = <<a, b>>
<1>1. <<a>> \in Seq({a, b}) /\ Len(<<a>>) = 1 /\ <<a>>[1] = a
  OBVIOUS
<1>2. /\ Append(<<a>>, b) \in Seq({a, b}) /\ Len(Append(<<a>>, b)) = 2
      /\ Append(<<a>>, b)[1] = a /\ Append(<<a>>, b)[2] = b
  BY <1>1, AppendProperties
<1>3. <<a, b>> \in Seq({a, b}) /\ Len(<<a, b>>) = 2 /\ <<a, b>>[1] = a /\ <<a, b>>[2] = b
  OBVIOUS
<1>4. \A i \in 1 .. 2 : i = 1 \/ i = 2
  OBVIOUS
<1> QED
  BY <1>2, <1>3, <1>4, SeqEqual

\* An empty selection is one that nothing was left out of but what has no room.
LEMMA EmptySelection ==
  ASSUME NEW packs \in Seq(Packs), SelectEvidence(packs, {})
  PROVE  FoundNothing(packs)
<1> SUFFICES ASSUME NEW i \in DOMAIN packs, NEW n \in DOMAIN packs[i], packs[i][n].fits
             PROVE  packs[i][n].size > MaxSize
  BY DEF FoundNothing
<1>1. packs[i] \in Packs
  OBVIOUS
<1>2. packs[i][n].size \in Nat /\ MaxRecords \in Nat \ {0} /\ MaxSize \in Nat
  BY <1>1, NaturalAssumption
<1>3. <<i, n>> \in Offers(packs) /\ {c \in {} : InTurns(c, <<i, n>>)} = {}
  BY DEF Offers
<1>4. ~Room(packs, {}, packs[i][n])
  BY <1>3 DEF SelectEvidence
<1>5. Cardinality({}) = 0
  BY FS_EmptySet
<1>6. Size(packs, {}) = 0
  <2> DEFINE none == [o \in {} |-> packs[o[1]][o[2]].size]
  <2>1. \A g : g = [s \in SUBSET {} |-> IF s = {} THEN 0
                       ELSE none[CHOOSE x \in s : TRUE] + g[s \ {CHOOSE x \in s : TRUE}]]
              <=> g = [s \in SUBSET {} |-> 0]
    OBVIOUS
  <2>2. DOMAIN none = {}
    OBVIOUS
  <2> HIDE DEF none
  <2>3. SumFunction(none) =
          (CHOOSE g : g = [s \in SUBSET {} |-> IF s = {} THEN 0
                       ELSE none[CHOOSE x \in s : TRUE] + g[s \ {CHOOSE x \in s : TRUE}]])[{}]
    BY <2>2 DEF SumFunction, SumFunctionOnSet, FoldFunctionOnSet, MapThenFoldSet
  <2>4. SumFunction(none) = 0
    BY <2>1, <2>3
  <2> QED
    BY <2>4 DEF Size, none
<1>7. ~(0 + packs[i][n].size <= MaxSize)
  BY <1>2, <1>4, <1>5, <1>6 DEF Room
<1> QED
  BY <1>2, <1>7

\* A thread's work is what its plan said and its searches have returned; on the
\* way to a live answer no call of a model has failed.
WorkWhole(t) ==
  /\ DOMAIN work[t] = DOMAIN NoWork /\ work[t].packs \in Seq(Packs)
  /\ at[t] # "none" => work[t].aim \in {"live", "offline", "fallback"}
  /\ at[t] \in {"plan", "planning"} => work[t].aim = "live"
  /\ at[t] # "none" /\ work[t].aim = "live" =>
       /\ online
       /\ CASE at[t] \in {"plan", "planning"} ->
                 work[t].calls = <<>> /\ work[t].read = 0 /\ work[t].packs = <<>>
            [] at[t] = "retrieve" ->
                 work[t].calls = Answered /\ work[t].left \in Nat \ {0}
            [] OTHER -> work[t].calls = Answered /\ work[t].read # 0
  /\ at[t] \in {"final", "finalizing"} =>
       work[t].aim = "live" /\ (evidence[t] = {} => FoundNothing(work[t].packs))

KeptFor(t) ==
  pc[t] = "store" /\ outcome[t] = "cacheable" =>
    /\ online /\ work[t].calls \in {Answered, <<"answered", "answered">>}
    /\ Len(work[t].calls) = 1 <=> work[t].read = 0
    /\ evidence[t] = {} => FoundNothing(work[t].packs)

WholeInv ==
  /\ DOMAIN work = Thread /\ DOMAIN evidence = Thread /\ DOMAIN outcome = Thread
  /\ \A t \in Thread : WorkWhole(t) /\ KeptFor(t)

LEMMA InitWholeInv == NaturalInit => WholeInv
<1> SUFFICES ASSUME NaturalInit PROVE WholeInv
  OBVIOUS
<1>1. /\ DOMAIN work = Thread /\ DOMAIN evidence = Thread /\ DOMAIN outcome = Thread
      /\ \A t \in Thread : at[t] = "none" /\ pc[t] = "idle" /\ work[t] = NoWork
  BY DEF NaturalInit, Init
<1>2. NoWork.packs \in Seq(Packs)
  BY DEF NoWork
<1>3. ASSUME NEW t \in Thread PROVE WorkWhole(t) /\ KeptFor(t)
  BY <1>1, <1>2 DEF WorkWhole, KeptFor
<1> QED
  BY <1>1, <1>3 DEF WholeInv

\* A step that leaves the work of a thread alone leaves what it stands for.
LEMMA OthersKeepTheirs ==
  ASSUME NEW u \in Thread, WorkWhole(u) /\ KeptFor(u),
         online' = online, at'[u] = at[u], work'[u] = work[u], evidence'[u] = evidence[u],
         outcome'[u] = outcome[u], pc'[u] = "store" => pc[u] = "store"
  PROVE  (WorkWhole(u) /\ KeptFor(u))'
BY DEF WorkWhole, KeptFor

\* A computation that ends keeps the work as it is, without a place in it.
LEMMA EndsWhole ==
  ASSUME NaturalInv, WholeInv, NEW t \in Thread, NEW o, Ends(t, o),
         at[t] # "none", NEW calls \in Seq({"answered", "failed"}),
         work' = work \/ work' = [work EXCEPT ![t] = [work[t] EXCEPT !.calls = calls]]
                      \/ work' = [work EXCEPT ![t] = [work[t] EXCEPT !.read = sources]],
         \A u \in Thread \ {t} : evidence'[u] = evidence[u], DOMAIN evidence' = Thread,
         KeptFor(t)'
  PROVE  WholeInv'
<1>1. /\ online' = online /\ at' = [at EXCEPT ![t] = "none"]
      /\ pc' = [pc EXCEPT ![t] = "store"] /\ outcome' = [outcome EXCEPT ![t] = o]
  BY DEF Ends, Goes
<1>2. at \in [Thread -> Stage] /\ DOMAIN pc = Thread
  BY DEF NaturalInv, ReadsFresh
<1>3. DOMAIN work' = Thread /\ \A u \in Thread \ {t} : work'[u] = work[u]
  BY DEF WholeInv
<1>4. \A u \in Thread \ {t} : (WorkWhole(u) /\ KeptFor(u))'
  BY <1>1, <1>2, <1>3, OthersKeepTheirs DEF WholeInv
<1>5. WorkWhole(t)'
  <2>1. at'[t] = "none"
    BY <1>1, <1>2
  <2>2. DOMAIN work[t] = DOMAIN NoWork /\ work[t].packs \in Seq(Packs)
    BY DEF WholeInv, WorkWhole
  <2>3. DOMAIN work'[t] = DOMAIN NoWork /\ work'[t].packs = work[t].packs
    BY <2>2 DEF WholeInv, NoWork
  <2> QED
    BY <2>1, <2>2, <2>3 DEF WorkWhole
<1> QED
  BY <1>1, <1>3, <1>4, <1>5 DEF WholeInv

\* A step inside a computation concerns one thread's work.
LEMMA InsideWhole ==
  ASSUME NaturalInv, WholeInv, NEW t \in Thread, at[t] # "none" \/ pc[t] = "compute",
         UNCHANGED vars, online' = online, NEW next, Goes(t, next),
         \A u \in Thread \ {t} : work'[u] = work[u] /\ evidence'[u] = evidence[u],
         DOMAIN work' = Thread, DOMAIN evidence' = Thread,
         WorkWhole(t)'
  PROVE  WholeInv'
<1>1. /\ at \in [Thread -> Stage] /\ pc[t] = "compute" /\ pc' = pc /\ outcome' = outcome
      /\ at' = [at EXCEPT ![t] = next]
  BY DEF NaturalInv, ReadsFresh, vars, Goes
<1>2. \A u \in Thread \ {t} : (WorkWhole(u) /\ KeptFor(u))'
  BY <1>1, OthersKeepTheirs DEF WholeInv
<1>3. KeptFor(t)'
  BY <1>1 DEF KeptFor
<1> QED
  BY <1>1, <1>2, <1>3 DEF WholeInv

\* No step of a computation takes an answer for whole that is not.
LEMMA ComputingWhole ==
  ASSUME NaturalInv, WholeInv, NEW t \in Thread, Computing(t)
  PROVE  WholeInv'
<1>1. /\ DOMAIN work = Thread /\ DOMAIN evidence = Thread /\ at \in [Thread -> Stage]
      /\ WorkWhole(t) /\ sources \in Nat \ {0}
      /\ {"aim", "left", "read", "packs", "calls"} = DOMAIN work[t]
  BY CacheAssumption DEF NaturalInv, ReadsFresh, KeysKnown, Version, WholeInv, WorkWhole, NoWork
<1> USE DEF Goes, Gathers, Inside
<1>2. CASE Begin(t)
  <2>1. PICK w : /\ work' = [work EXCEPT ![t] = w]
                 /\ \/ online /\ w = [NoWork EXCEPT !.aim = "live"] /\ Goes(t, "plan")
                    \/ /\ Goes(t, "retrieve")
                       /\ w = [NoWork EXCEPT !.aim = "offline", !.left = LocalQueries(key[t].question)]
    BY <1>2 DEF Begin
  <2>2. /\ DOMAIN w = DOMAIN NoWork /\ w.packs = <<>> /\ w.calls = <<>> /\ w.read = 0
        /\ \/ online /\ w.aim = "live" /\ Goes(t, "plan")
           \/ w.aim = "offline" /\ Goes(t, "retrieve")
    BY <2>1 DEF NoWork
  <2>3. w.packs \in Seq(Packs)
    BY <2>2
  <2>4. WorkWhole(t)' /\ \E next : Goes(t, next)
    BY <1>1, <1>2, <2>1, <2>2, <2>3 DEF Begin, WorkWhole
  <2> QED
    BY <1>1, <1>2, <2>1, <2>4, InsideWhole DEF Begin
<1>3. CASE CallGenerator(t)
  <2>1. WorkWhole(t)'
    BY <1>1, <1>3 DEF CallGenerator, WorkWhole
  <2> QED
    BY <1>1, <1>3, <2>1, InsideWhole DEF CallGenerator
<1>4. CASE PlanFails(t)
  <2>1. /\ work'[t].aim = "fallback" /\ at'[t] = "retrieve" /\ work'[t].packs = work[t].packs
        /\ DOMAIN work'[t] = DOMAIN work[t]
    BY <1>1, <1>4 DEF PlanFails
  <2>2. WorkWhole(t)'
    BY <1>1, <2>1 DEF WorkWhole
  <2> QED
    BY <1>1, <1>4, <2>2, InsideWhole DEF PlanFails
<1>5. CASE PlanAnswers(t)
  <2>1. /\ at[t] = "planning" /\ Ends(t, "cacheable") /\ evidence' = evidence
        /\ work' = [work EXCEPT ![t] = [work[t] EXCEPT !.calls = Answered]]
    BY <1>5 DEF PlanAnswers, Delivers, Answered
  <2>2. online /\ work[t].read = 0 /\ work[t].packs = <<>>
    BY <1>1, <2>1 DEF WorkWhole
  <2>3. /\ online' /\ work'[t].calls = Answered /\ work'[t].read = 0 /\ work'[t].packs = <<>>
    BY <1>1, <2>1, <2>2 DEF Ends
  <2>4. KeptFor(t)'
    BY <2>3 DEF KeptFor, FoundNothing, Answered
  <2>5. Answered \in Seq({"answered", "failed"})
    BY DEF Answered
  <2> QED
    BY <1>1, <2>1, <2>4, <2>5, EndsWhole
<1>6. CASE PlanSearches(t)
  <2>1. PICK n \in 1 .. MaxQueries :
          work' = [work EXCEPT ![t] = [work[t] EXCEPT !.left = n, !.calls = <<"answered">>]]
    BY <1>6 DEF PlanSearches
  <2>2. /\ at[t] = "planning" /\ at'[t] = "retrieve" /\ DOMAIN work'[t] = DOMAIN work[t]
        /\ work'[t].packs = work[t].packs /\ work'[t].aim = work[t].aim
        /\ work'[t].calls = Answered /\ work'[t].left \in Nat \ {0}
    BY <1>1, <1>6, <2>1, NaturalAssumption DEF PlanSearches, Answered
  <2>3. WorkWhole(t)'
    BY <1>1, <1>6, <2>2 DEF WorkWhole, PlanSearches
  <2> QED
    BY <1>1, <1>6, <2>1, <2>3, InsideWhole DEF PlanSearches
<1>7. CASE ReadSources(t)
  <2>1. /\ at[t] = "retrieve" /\ at'[t] = "search" /\ DOMAIN work'[t] = DOMAIN work[t]
        /\ work'[t].packs = work[t].packs /\ work'[t].aim = work[t].aim
        /\ work'[t].calls = work[t].calls /\ work'[t].read = sources
    BY <1>1, <1>7 DEF ReadSources
  <2>2. WorkWhole(t)'
    BY <1>1, <1>7, <2>1 DEF WorkWhole, ReadSources
  <2> QED
    BY <1>1, <1>7, <2>2, InsideWhole DEF ReadSources
<1>8. CASE FindsNothing(t)
  <2>1. PICK version \in {0, sources} :
          /\ version = 0 <=> work[t].left = 0
          /\ work' = [work EXCEPT ![t] = [work[t] EXCEPT !.left = 0, !.read = version]]
    BY <1>8 DEF FindsNothing
  <2>2. /\ at[t] = "retrieve" /\ at'[t] = "select" /\ DOMAIN work'[t] = DOMAIN work[t]
        /\ work'[t].packs = work[t].packs /\ work'[t].aim = work[t].aim
        /\ work'[t].calls = work[t].calls /\ work'[t].read = version
    BY <1>1, <1>8, <2>1 DEF FindsNothing
  <2>3. WorkWhole(t)'
    BY <1>1, <1>8, <2>1, <2>2 DEF WorkWhole, FindsNothing
  <2> QED
    BY <1>1, <1>8, <2>1, <2>3, InsideWhole DEF FindsNothing
<1>9. CASE SourcesRefused(t)
  <2>1. at[t] = "retrieve" /\ Ends(t, "error") /\ evidence' = evidence
        /\ work' = [work EXCEPT ![t] = [work[t] EXCEPT !.read = sources]]
    BY <1>9 DEF SourcesRefused
  <2>2. KeptFor(t)'
    BY <2>1 DEF KeptFor, Ends, WholeInv
  <2>3. <<>> \in Seq({"answered", "failed"})
    OBVIOUS
  <2> QED
    BY <1>1, <2>1, <2>2, <2>3, EndsWhole
<1>10. CASE CallEmbedder(t)
  <2>1. WorkWhole(t)'
    BY <1>1, <1>10 DEF CallEmbedder, WorkWhole
  <2> QED
    BY <1>1, <1>10, <2>1, InsideWhole DEF CallEmbedder
<1>11. CASE SearchReturns(t)
  <2>1. PICK pack \in Packs :
          work' = [work EXCEPT ![t] = [work[t] EXCEPT !.left = @ - 1, !.packs = Append(@, pack)]]
    BY <1>11 DEF SearchReturns
  <2>2. /\ at[t] = "searching" /\ at'[t] \in {"search", "select"} /\ DOMAIN work'[t] = DOMAIN work[t]
        /\ work'[t].packs = Append(work[t].packs, pack) /\ work'[t].aim = work[t].aim
        /\ work'[t].calls = work[t].calls /\ work'[t].read = work[t].read
    BY <1>1, <1>11, <2>1 DEF SearchReturns
  <2>3. work'[t].packs \in Seq(Packs)
    BY <1>1, <2>2 DEF WorkWhole
  <2>4. WorkWhole(t)'
    BY <1>1, <1>11, <2>2, <2>3 DEF WorkWhole, SearchReturns
  <2> QED
    BY <1>1, <1>11, <2>1, <2>4, InsideWhole DEF SearchReturns
<1>12. CASE SearchFails(t)
  <2>1. at[t] = "searching" /\ Ends(t, "error") /\ work' = work /\ evidence' = evidence
    BY <1>12 DEF SearchFails
  <2>2. KeptFor(t)'
    BY <2>1 DEF KeptFor, Ends, WholeInv
  <2>3. <<>> \in Seq({"answered", "failed"})
    OBVIOUS
  <2> QED
    BY <1>1, <2>1, <2>2, <2>3, EndsWhole
<1>13. CASE Selects(t)
  <2>1. PICK chosen : /\ SelectEvidence(work[t].packs, chosen)
                      /\ evidence' = [evidence EXCEPT ![t] = chosen]
    BY <1>13 DEF Selects
  <2>2. at[t] = "select" /\ work' = work /\ work[t].packs \in Seq(Packs)
    BY <1>1, <1>13 DEF Selects, WorkWhole
  <2>3. chosen = {} => FoundNothing(work[t].packs)
    BY <2>1, <2>2, EmptySelection
  <2>4. CASE work[t].aim = "live"
    <3>1. Goes(t, "final") /\ UNCHANGED <<vars, online>>
      BY <1>13, <2>4 DEF Selects
    <3>2. WorkWhole(t)'
      BY <1>1, <2>1, <2>2, <2>3, <2>4, <3>1 DEF WorkWhole
    <3> QED
      BY <1>1, <2>1, <2>2, <3>1, <3>2, InsideWhole
  <2>5. CASE work[t].aim # "live"
    <3>1. Ends(t, "transient")
      BY <1>13, <2>5 DEF Selects, Delivers
    <3>2. KeptFor(t)'
      BY <3>1 DEF KeptFor, Ends, WholeInv
    <3>3. <<>> \in Seq({"answered", "failed"})
      OBVIOUS
    <3> QED
      BY <1>1, <2>1, <2>2, <3>1, <3>2, <3>3, EndsWhole
  <2> QED
    BY <2>4, <2>5
<1>14. CASE FinalAnswers(t)
  <2> DEFINE calls == Append(work[t].calls, "answered")
  <2>1. /\ at[t] = "finalizing" /\ Ends(t, "cacheable") /\ evidence' = evidence
        /\ work' = [work EXCEPT ![t] = [work[t] EXCEPT !.calls = calls]]
    BY <1>14 DEF FinalAnswers, Delivers
  <2>2. /\ online /\ work[t].read # 0 /\ work[t].calls = Answered
        /\ evidence[t] = {} => FoundNothing(work[t].packs)
    BY <1>1, <2>1 DEF WorkWhole
  <2>3. calls = <<"answered", "answered">> /\ Len(<<"answered", "answered">>) = 2
    BY <2>2, AppendToOne DEF Answered
  <2>4. calls \in Seq({"answered", "failed"})
    BY <2>2 DEF Answered
  <2> HIDE DEF calls
  <2>5. /\ online' /\ work'[t].calls = calls /\ work'[t].read = work[t].read
        /\ work'[t].packs = work[t].packs
    BY <1>1, <2>1, <2>2 DEF Ends
  <2>6. KeptFor(t)'
    BY <2>1, <2>2, <2>3, <2>5 DEF KeptFor
  <2> QED
    BY <1>1, <2>1, <2>4, <2>6, EndsWhole
<1>15. CASE FinalFails(t)
  <2> DEFINE calls == Append(work[t].calls, "failed")
  <2>1. /\ at[t] = "finalizing" /\ Ends(t, "transient") /\ evidence' = evidence
        /\ work' = [work EXCEPT ![t] = [work[t] EXCEPT !.calls = calls]]
    BY <1>15 DEF FinalFails, Delivers
  <2>2. work[t].calls = Answered
    BY <1>1, <2>1 DEF WorkWhole
  <2>3. calls \in Seq({"answered", "failed"})
    BY <2>2 DEF Answered
  <2> HIDE DEF calls
  <2>4. KeptFor(t)'
    BY <2>1 DEF KeptFor, Ends, WholeInv
  <2> QED
    BY <1>1, <2>1, <2>3, <2>4, EndsWhole
<1> QED
  BY <1>2, <1>3, <1>4, <1>5, <1>6, <1>7, <1>8, <1>9, <1>10, <1>11, <1>12, <1>13, <1>14, <1>15
     DEF Computing

LEMMA NextWholeInv == NaturalInv /\ WholeInv /\ [NaturalNext]_allVars => WholeInv'
<1> SUFFICES ASSUME NaturalInv, WholeInv, [NaturalNext]_allVars PROVE WholeInv'
  OBVIOUS
<1>1. /\ DOMAIN work = Thread /\ DOMAIN evidence = Thread /\ DOMAIN pc = Thread
      /\ at \in [Thread -> Stage]
  BY DEF NaturalInv, ReadsFresh, WholeInv
<1>2. ASSUME UNCHANGED <<online, at, work, evidence, outcome>>,
             \A u \in Thread : pc'[u] = "store" => pc[u] = "store"
      PROVE  WholeInv'
  BY <1>2, OthersKeepTheirs DEF WholeInv
<1>3. ASSUME NEW t \in Thread, Asks(t) \/ Serves(t) PROVE WholeInv'
  BY <1>1, <1>2, <1>3 DEF Asks, Serves, Request, Hit, Join, Lead, naturalVars
<1>4. ASSUME NEW t \in Thread, Computing(t) PROVE WholeInv'
  BY <1>4, ComputingWhole
<1>5. ASSUME NEW t \in Thread, Stores(t) PROVE WholeInv'
  <2>1. /\ pc[t] = "store" /\ UNCHANGED <<online, at>> /\ Completes(t)
        /\ work' = [work EXCEPT ![t] = NoWork] /\ evidence' = [evidence EXCEPT ![t] = {}]
        /\ outcome' = [outcome EXCEPT ![t] = "none"]
    BY <1>5 DEF Stores, Store, Gathers
  <2>2. pc'[t] = "idle" /\ \A u \in Thread \ {t} : pc'[u] = "store" => pc[u] = "store"
    BY <2>1 DEF Completes
  <2>3. at'[t] = "none" /\ work'[t] = NoWork
    BY <1>1, <2>1 DEF NaturalInv, ReadsFresh
  <2>4. NoWork.packs \in Seq(Packs)
    BY DEF NoWork
  <2>5. (WorkWhole(t) /\ KeptFor(t))'
    BY <2>2, <2>3, <2>4 DEF WorkWhole, KeptFor
  <2>6. \A u \in Thread \ {t} : (WorkWhole(u) /\ KeptFor(u))'
    BY <1>1, <2>1, <2>2, OthersKeepTheirs DEF WholeInv
  <2> QED
    BY <1>1, <2>1, <2>5, <2>6 DEF WholeInv
<1>6. CASE (Tick \/ Activate) /\ UNCHANGED naturalVars
  BY <1>2, <1>6 DEF Tick, Activate, naturalVars
<1>7. CASE UNCHANGED allVars
  BY <1>2, <1>7 DEF allVars, vars, naturalVars
<1> QED
  BY <1>3, <1>4, <1>5, <1>6, <1>7 DEF NaturalNext

\* Whichever calls fail and whatever is found: the cache keeps an answer only if
\* a model is there and answered every call of it, after the searches it asked
\* for; and that nothing was found is kept only when no search returned a record
\* of the target that has room (app.py 1682-1720, 2011-2138, 2713-2754).
THEOREM OnlyWholeAnswersKept == NaturalSpec => []KeptIsWhole
<1>1. NaturalInv /\ WholeInv /\ [NaturalNext]_allVars => (NaturalInv /\ WholeInv)'
  BY NextNaturalInv, NextWholeInv
<1>2. WholeInv => KeptIsWhole
  BY DEF WholeInv, KeptFor, KeptIsWhole, FoundNothing, Answered
<1> QED
  BY InitNaturalInv, InitWholeInv, <1>1, <1>2, PTL DEF NaturalSpec
=============================================================================
