--------------------------- MODULE HashTableProofs ---------------------------
(* Proofs about HashTable for tables of every size, every hash function and    *)
(* every sequence of calls, when probes visit the slots one after the other.   *)
EXTENDS HashTable, FiniteSetTheorems, TLAPS

\* What find_entry does, and what hashmap.h does for sizes that are powers of two.
Cyclic == Succ = [i \in Slot |-> IF i + 1 = Buckets THEN 0 ELSE i + 1]

\* While a probe runs, the slots it has passed hold other keys.
Passed ==
    phase = "probe" =>
        /\ start = Hash[call.key]
        /\ \A t \in Between(start, index) : key[t] \notin {NoKey, call.key}

TableInv ==
    /\ TypeOK
    /\ StoredOnce
    /\ ChainsUnbroken
    /\ Passed
    /\ AbortOnlyWhenFull

-----------------------------------------------------------------------------
(* Going round the table *)

\* The slots passed one turn later are those passed before and the slot left.
LEMMA PassedOneMore ==
    ASSUME Cyclic, NEW h \in Slot, NEW i \in Slot, Succ[i] # h
    PROVE  \A t \in Between(h, Succ[i]) : t \in Between(h, i) \/ t = i
<1>1. Buckets \in Nat \ {0} /\ Succ[i] = IF i + 1 = Buckets THEN 0 ELSE i + 1
    BY BucketsAssumption DEF Cyclic
<1>2. QED
    BY <1>1 DEF Between, Slot

\* A probe back at the slot it started from has passed every slot.
LEMMA PassedAll ==
    ASSUME Cyclic, NEW h \in Slot, NEW i \in Slot, Succ[i] = h
    PROVE  \A t \in Slot : t \in Between(h, i) \/ t = i
<1>1. Buckets \in Nat \ {0} /\ Succ[i] = IF i + 1 = Buckets THEN 0 ELSE i + 1
    BY BucketsAssumption DEF Cyclic
<1>2. QED
    BY <1>1 DEF Between, Slot

\* Of two slots, a probe passes one on the way to the other.
LEMMA OneBeforeOther ==
    ASSUME NEW h \in Slot, NEW i \in Slot, NEW s \in Slot, i # s
    PROVE  i \in Between(h, s) \/ s \in Between(h, i)
BY BucketsAssumption DEF Between, Slot

LEMMA BetweenSlots ==
    ASSUME NEW h \in Slot, NEW s \in Slot
    PROVE  Between(h, s) \subseteq Slot /\ Between(h, h) = {}
BY BucketsAssumption DEF Between, Slot

-----------------------------------------------------------------------------
LEMMA InitTableInv == Init => TableInv
<1> SUFFICES ASSUME Init PROVE TableInv
    OBVIOUS
<1>1. 0 \in Slot
    BY BucketsAssumption DEF Slot
<1>2. TypeOK
    BY <1>1 DEF Init, TypeOK
<1>3. StoredOnce /\ ChainsUnbroken /\ Passed /\ AbortOnlyWhenFull
    BY DEF Init, StoredOnce, ChainsUnbroken, Passed, AbortOnlyWhenFull
<1>4. QED
    BY <1>2, <1>3 DEF TableInv

\* Writing the key of the call where its probe has arrived.
LEMMA PutInv ==
    ASSUME TableInv, Arrived, Put, Return
    PROVE  TableInv'
<1> DEFINE k == call.key
<1>1. /\ index \in Slot /\ start \in Slot /\ k \in Keys /\ call.value \in Values
      /\ key \in [Slot -> Keys \cup {NoKey}] /\ value \in [Slot -> Values \cup {Null}]
      /\ k # NoKey
    BY NullAssumption DEF TableInv, TypeOK, Calls
<1>2. \A s \in Slot : key'[s] = IF s = index THEN k ELSE key[s]
    BY <1>1 DEF Put
<1>3. TypeOK'
    BY <1>1 DEF TableInv, TypeOK, Put, Return
<1>4. start = Hash[k] /\ \A t \in Between(start, index) : key[t] \notin {NoKey, k}
    BY DEF TableInv, Passed, Arrived
<1>5. \A s \in Slot : key[s] = k => s = index
    <2> SUFFICES ASSUME NEW s \in Slot, key[s] = k, s # index PROVE FALSE
        OBVIOUS
    <2>1. s \notin Between(start, index)
        BY <1>4
    <2>2. index \in Between(start, s)
        BY <1>1, <2>1, OneBeforeOther
    <2>3. key[index] # NoKey
        BY <1>1, <1>4, <2>2 DEF TableInv, ChainsUnbroken
    <2>4. key[index] = k
        BY <2>3 DEF Arrived
    <2>5. QED
        BY <1>1, <2>4 DEF TableInv, StoredOnce
<1>6. StoredOnce'
    BY <1>1, <1>2, <1>5 DEF TableInv, StoredOnce
<1>7. ChainsUnbroken'
    <2> SUFFICES ASSUME NEW s \in Slot, key'[s] # NoKey,
                        NEW t \in Between(Hash[key'[s]], s)
                 PROVE  key'[t] # NoKey
        BY DEF ChainsUnbroken
    <2>1. CASE s = index
        <3>1. t \in Between(start, index)
            BY <1>2, <1>4, <2>1
        <3>2. t \in Slot
            BY <1>1, <3>1, BetweenSlots
        <3>3. QED
            BY <1>1, <1>2, <1>4, <3>1, <3>2
    <2>2. CASE s # index
        <3>1. key'[s] = key[s] /\ key[s] \in Keys
            BY <1>1, <1>2, <2>2
        <3>2. Hash[key[s]] \in Slot
            BY <3>1, HashAssumption
        <3>3. t \in Slot /\ key[t] # NoKey
            BY <3>1, <3>2, BetweenSlots DEF TableInv, ChainsUnbroken
        <3>4. QED
            BY <1>1, <1>2, <3>3
    <2>3. QED
        BY <2>1, <2>2
<1>8. Passed' /\ AbortOnlyWhenFull'
    BY DEF Return, Passed, AbortOnlyWhenFull
<1>9. QED
    BY <1>3, <1>6, <1>7, <1>8 DEF TableInv

LEMMA NextTableInv ==
    ASSUME Cyclic, TableInv, [Next]_vars
    PROVE  TableInv'
<1>1. /\ TypeOK /\ index \in Slot /\ start \in Slot /\ call.key \in Keys
      /\ key \in [Slot -> Keys \cup {NoKey}] /\ value \in [Slot -> Values \cup {Null}]
    BY DEF TableInv, TypeOK, Calls
<1>2. ASSUME Begin PROVE TableInv'
    <2>1. call' \in Calls /\ Hash[call'.key] \in Slot /\ call'.key \in Keys
        BY <1>2, HashAssumption DEF Begin, Calls
    <2>2. TypeOK'
        BY <1>1, <1>2, <2>1 DEF Begin, TypeOK
    <2>3. Passed'
        <3>1. Between(Hash[call'.key], Hash[call'.key]) = {}
            BY <2>1, BetweenSlots
        <3>2. QED
            BY <1>2, <3>1 DEF Begin, Passed, Between
    <2>4. QED
        BY <1>2, <2>2, <2>3
           DEF Begin, TableInv, StoredOnce, ChainsUnbroken, AbortOnlyWhenFull
<1>3. ASSUME Probe PROVE TableInv'
    <2>1. /\ start = Hash[call.key]
          /\ \A t \in Between(start, index) : key[t] \notin {NoKey, call.key}
          /\ key[index] \notin {NoKey, call.key}
        BY <1>3 DEF Probe, TableInv, Passed
    <2>2. Succ[index] \in Slot
        BY <1>1, HashAssumption
    <2>3. TypeOK'
        BY <1>1, <1>3, <2>2 DEF Probe, TypeOK
    <2>4. StoredOnce' /\ ChainsUnbroken'
        BY <1>3 DEF Probe, TableInv, StoredOnce, ChainsUnbroken
    <2>5. CASE Succ[index] = start
        <3>1. \A t \in Slot : key[t] \notin {NoKey, call.key}
            BY <1>1, <2>1, <2>5, PassedAll
        <3>2. Passed' /\ AbortOnlyWhenFull'
            BY <1>3, <2>5, <3>1 DEF Probe, Passed, AbortOnlyWhenFull
        <3>3. QED
            BY <2>3, <2>4, <3>2 DEF TableInv
    <2>6. CASE Succ[index] # start
        <3>1. \A t \in Between(start, Succ[index]) : key[t] \notin {NoKey, call.key}
            BY <1>1, <2>1, <2>6, PassedOneMore
        <3>2. Passed' /\ AbortOnlyWhenFull'
            BY <1>3, <2>1, <2>6, <3>1 DEF Probe, Passed, AbortOnlyWhenFull, Between
        <3>3. QED
            BY <2>3, <2>4, <3>2 DEF TableInv
    <2>7. QED
        BY <2>5, <2>6
<1>4. ASSUME Return, UNCHANGED <<key, value>>, answer' \in Values \cup {Null}
      PROVE  TableInv'
    BY <1>1, <1>4 DEF TableInv, TypeOK, StoredOnce, ChainsUnbroken, Passed,
                      AbortOnlyWhenFull, Return
<1>5. ASSUME Find PROVE TableInv'
    BY <1>1, <1>4, <1>5 DEF Find
<1>6. ASSUME Overwrite PROVE TableInv'
    BY <1>6, PutInv DEF Overwrite
<1>7. ASSUME Add PROVE TableInv'
    BY <1>4, <1>7, PutInv DEF Add
<1>8. ASSUME Clear PROVE TableInv'
    <2>1. key' = [s \in Slot |-> NoKey]
        BY <1>8 DEF Clear
    <2>2. TypeOK'
        BY <1>1, <1>8, <2>1 DEF Clear, TypeOK
    <2>3. QED
        BY <1>8, <2>1, <2>2
           DEF Clear, TableInv, StoredOnce, ChainsUnbroken, Passed, AbortOnlyWhenFull
<1>9. ASSUME UNCHANGED vars PROVE TableInv'
    BY <1>9 DEF vars, TableInv, TypeOK, StoredOnce, ChainsUnbroken, Passed,
                AbortOnlyWhenFull, Calls
<1>10. QED
    BY <1>2, <1>3, <1>5, <1>6, <1>7, <1>8, <1>9 DEF Next, Aborted

\* A table whose probes visit every slot holds each key once, never loses a key
\* behind an empty slot, and gives up only when it is full.
THEOREM TableSound ==
    Cyclic => (Spec => [](TypeOK /\ StoredOnce /\ ChainsUnbroken /\ AbortOnlyWhenFull))
<1> SUFFICES ASSUME Cyclic
             PROVE  Spec => [](TypeOK /\ StoredOnce /\ ChainsUnbroken /\ AbortOnlyWhenFull)
    OBVIOUS
<1>1. Init => TableInv
    BY InitTableInv
<1>2. TableInv /\ [Next]_vars => TableInv'
    BY NextTableInv
<1>3. TableInv => TypeOK /\ StoredOnce /\ ChainsUnbroken /\ AbortOnlyWhenFull
    BY DEF TableInv
<1>4. QED
    BY <1>1, <1>2, <1>3, PTL DEF Spec

\* The types of the table and of the running call.
THEOREM TypesSound == Cyclic => (Spec => []TypeOK)
<1>1. [](TypeOK /\ StoredOnce /\ ChainsUnbroken /\ AbortOnlyWhenFull) => []TypeOK
    BY PTL
<1>2. QED
    BY <1>1, TableSound

\* overwrite and tryadd never leave a name in two slots, wherever its probe began.
THEOREM KeysSound == Cyclic => (Spec => []StoredOnce)
<1>1. [](TypeOK /\ StoredOnce /\ ChainsUnbroken /\ AbortOnlyWhenFull) => []StoredOnce
    BY PTL
<1>2. QED
    BY <1>1, TableSound

\* "hash table is full" is never reported of a table with room, or of a name that
\* the table holds.
THEOREM AbortSound == Cyclic => (Spec => []AbortOnlyWhenFull)
<1>1. [](TypeOK /\ StoredOnce /\ ChainsUnbroken /\ AbortOnlyWhenFull) => []AbortOnlyWhenFull
    BY PTL
<1>2. QED
    BY <1>1, TableSound

-----------------------------------------------------------------------------
(* The table implements a map *)

\* A slot with a key has a value: both are written by one call.
Filled == \A s \in Slot : key[s] # NoKey => value[s] \in Values

Entries == [k \in Keys |-> EntryOf(k)]
MapInv == TableInv /\ Filled

LEMMA InitMapInv == Init => MapInv
<1> SUFFICES ASSUME Init PROVE Filled
    BY InitTableInv DEF MapInv
<1>1. QED
    BY DEF Init, Filled

LEMMA NextMapInv ==
    ASSUME Cyclic, MapInv, [Next]_vars
    PROVE  MapInv'
<1>1. /\ TableInv /\ Filled /\ key \in [Slot -> Keys \cup {NoKey}]
      /\ value \in [Slot -> Values \cup {Null}] /\ call.value \in Values
    BY DEF MapInv, TableInv, TypeOK, Calls
<1>2. TableInv'
    BY <1>1, NextTableInv
<1>3. ASSUME Put PROVE Filled'
    BY <1>1, <1>3 DEF Put, Filled
<1>4. ASSUME UNCHANGED <<key, value>> PROVE Filled'
    BY <1>1, <1>4 DEF Filled
<1>5. ASSUME Clear PROVE Filled'
    BY <1>5 DEF Clear, Filled
<1>6. Filled'
    BY <1>1, <1>3, <1>4, <1>5
       DEF Next, Begin, Probe, Find, Overwrite, Add, Aborted, vars
<1>7. QED
    BY <1>2, <1>6 DEF MapInv

\* The entry of a key is the value of the one slot that holds it.
LEMMA EntryInSlot ==
    ASSUME StoredOnce, NEW k \in Keys, NEW s \in Slot, key[s] = k
    PROVE  EntryOf(k) = value[s]
<1>1. k # NoKey
    BY NullAssumption
<1>2. \A t \in Slot : key[t] = k => t = s
    BY <1>1 DEF StoredOnce
<1>3. QED
    BY <1>2 DEF EntryOf

LEMMA NoEntry ==
    ASSUME NEW k \in Keys, \A s \in Slot : key[s] # k
    PROVE  EntryOf(k) = Null
BY DEF EntryOf

\* The keys the map holds are those the slots hold.
LEMMA HeldKeys ==
    ASSUME MapInv, NEW k \in Keys
    PROVE  Entries[k] # Null <=> \E s \in Slot : key[s] = k
<1>1. Entries[k] = EntryOf(k)
    BY DEF Entries
<1>2. ASSUME NEW s \in Slot, key[s] = k PROVE EntryOf(k) # Null
    <2>1. EntryOf(k) = value[s]
        BY <1>2, EntryInSlot DEF MapInv, TableInv
    <2>2. value[s] \in Values
        BY <1>2, NullAssumption DEF MapInv, Filled
    <2>3. QED
        BY <2>1, <2>2, NullAssumption
<1>3. QED
    BY <1>1, <1>2, NoEntry

\* Where the probe of a key arrives, and nowhere else, is the key's slot.
LEMMA ArrivedAt ==
    ASSUME TableInv, Arrived
    PROVE  \A s \in Slot : key[s] = call.key => s = index
<1>1. index \in Slot /\ start \in Slot /\ call.key \in Keys
    BY DEF TableInv, TypeOK, Calls
<1>2. start = Hash[call.key] /\ \A t \in Between(start, index) : key[t] \notin {NoKey, call.key}
    BY DEF TableInv, Passed, Arrived
<1> SUFFICES ASSUME NEW s \in Slot, key[s] = call.key, s # index PROVE FALSE
    OBVIOUS
<1>3. index \in Between(start, s)
    BY <1>1, <1>2, OneBeforeOther
<1>4. key[index] # NoKey
    BY <1>1, <1>2, <1>3, NullAssumption DEF TableInv, ChainsUnbroken
<1>5. key[index] = call.key
    BY <1>4 DEF Arrived
<1>6. QED
    BY <1>1, <1>5, NullAssumption DEF TableInv, StoredOnce

\* The probe has found out what the map holds for the key.
LEMMA Answered ==
    ASSUME MapInv, Arrived
    PROVE  /\ Entries[call.key] = IF Holds THEN value[index] ELSE Null
           /\ Holds <=> Entries[call.key] # Null
<1>1. index \in Slot /\ call.key \in Keys /\ TableInv /\ StoredOnce
    BY DEF MapInv, TableInv, TypeOK, Calls
<1>2. Entries[call.key] = EntryOf(call.key)
    BY <1>1 DEF Entries
<1>3. \A s \in Slot : key[s] = call.key => s = index
    BY <1>1, ArrivedAt
<1>4. CASE Holds
    <2>1. key[index] = call.key
        BY <1>4 DEF Holds
    <2>2. EntryOf(call.key) = value[index]
        BY <1>1, <2>1, EntryInSlot
    <2>3. \E s \in Slot : key[s] = call.key
        BY <1>1, <2>1
    <2>4. Entries[call.key] # Null
        BY <1>1, <2>3, HeldKeys
    <2>5. QED
        BY <1>2, <1>4, <2>2, <2>4
<1>5. CASE ~Holds
    <2>1. \A s \in Slot : key[s] # call.key
        BY <1>3, <1>5 DEF Holds
    <2>2. QED
        BY <1>1, <1>2, <1>5, <2>1, NoEntry
<1>6. QED
    BY <1>4, <1>5

\* Writing the entry where the probe has arrived changes the map at its key.
LEMMA PutEntry ==
    ASSUME MapInv, MapInv', Arrived, Put
    PROVE  Entries' = [Entries EXCEPT ![call.key] = call.value]
<1>0. call.key \in Keys
    BY DEF MapInv, TableInv, TypeOK, Calls
<1> SUFFICES ASSUME NEW k \in Keys, k = call.key
             PROVE  Entries' = [Entries EXCEPT ![k] = call.value]
    BY <1>0
<1>1. /\ index \in Slot /\ k \in Keys /\ TableInv /\ StoredOnce /\ k # NoKey
      /\ key \in [Slot -> Keys \cup {NoKey}] /\ value \in [Slot -> Values \cup {Null}]
    BY NullAssumption DEF MapInv, TableInv, TypeOK, Calls
<1>2. /\ \A s \in Slot : key'[s] = IF s = index THEN k ELSE key[s]
      /\ \A s \in Slot : value'[s] = IF s = index THEN call.value ELSE value[s]
    BY <1>1 DEF Put
<1>3. \A s \in Slot : key[s] = k => s = index
    BY <1>1, ArrivedAt
<1>4. key[index] \in {NoKey, k}
    BY DEF Arrived
<1>5. EntryOf(k)' = call.value
    <2>1. \A t \in Slot : key'[t] = k <=> t = index
        BY <1>1, <1>2, <1>3
    <2>2. (CHOOSE s \in Slot : key'[s] = k) = index
        BY <1>1, <2>1
    <2>3. \E s \in Slot : key'[s] = k
        BY <1>1, <2>1
    <2>4. QED
        BY <1>1, <1>2, <2>2, <2>3 DEF EntryOf
<1>6. ASSUME NEW m \in Keys, m # k PROVE EntryOf(m)' = EntryOf(m)
    <2>1. m # NoKey
        BY NullAssumption
    <2>2. \A t \in Slot : key'[t] = m <=> key[t] = m
        BY <1>2, <1>4, <1>6, <2>1
    <2>3. CASE \E s \in Slot : key[s] = m
        <3>1. PICK s \in Slot : key[s] = m
            BY <2>3
        <3>2. EntryOf(m) = value[s]
            BY <1>1, <3>1, EntryInSlot
        <3>3. s # index
            BY <1>4, <1>6, <2>1, <3>1
        <3>4. key'[s] = m /\ \A t \in Slot : key'[t] = m => t = s
            BY <1>1, <2>1, <2>2, <3>1 DEF StoredOnce
        <3>5. (CHOOSE t \in Slot : key'[t] = m) = s
            BY <3>4
        <3>6. EntryOf(m)' = value'[s]
            BY <3>4, <3>5 DEF EntryOf
        <3>7. QED
            BY <1>2, <3>2, <3>3, <3>6
    <2>4. CASE \A s \in Slot : key[s] # m
        BY <2>2, <2>4 DEF EntryOf
    <2>5. QED
        BY <2>3, <2>4
<1>7. \A m \in Keys : EntryOf(m)' = IF m = k THEN call.value ELSE EntryOf(m)
    BY <1>5, <1>6
<1>8. QED
    BY <1>1, <1>7 DEF Entries

\* A full table holds as many keys as it has slots.
LEMMA FullTable ==
    ASSUME MapInv, \A s \in Slot : key[s] # NoKey
    PROVE  Cardinality({k \in Keys : Entries[k] # Null}) = Buckets
<1> DEFINE H == {k \in Keys : Entries[k] # Null}
<1>1. key \in [Slot -> Keys \cup {NoKey}] /\ StoredOnce
    BY DEF MapInv, TableInv, TypeOK
<1>2. \A s \in Slot : key[s] \in Keys
    BY <1>1
<1>3. \A s \in Slot : key[s] \in H
    BY <1>2, HeldKeys
<1>4. key \in [Slot -> H]
    BY <1>1, <1>3
<1>5. \A k \in H : \E s \in Slot : key[s] = k
    BY HeldKeys
<1>6. key \in Bijection(Slot, H)
    BY <1>1, <1>4, <1>5 DEF Bijection, Injection, Surjection, IsInjective, StoredOnce
<1>7. IsFiniteSet(Slot) /\ Cardinality(Slot) = Buckets
    <2>1. 0 \in Int /\ Buckets - 1 \in Int /\ ~(0 > Buckets - 1) /\ Buckets - 1 - 0 + 1 = Buckets
        BY BucketsAssumption
    <2>2. QED
        BY <2>1, FS_Interval DEF Slot
<1>8. QED
    BY <1>6, <1>7, FS_Bijection DEF ExistsBijection

LEMMA InitMap == Init => Map!Init
<1> SUFFICES ASSUME Init PROVE Map!Init
    OBVIOUS
<1>1. \A k \in Keys : EntryOf(k) = Null
    BY NullAssumption DEF Init, EntryOf
<1>2. Entries = [k \in Keys |-> Null]
    BY <1>1 DEF Entries
<1>3. QED
    BY <1>2 DEF Init, Map!Init, Map!Calls, Calls, Entries

\* Every step of the table is a step of the map, or one turn of a probe.
LEMMA StepMap ==
    ASSUME Cyclic, MapInv, MapInv', [Next]_vars
    PROVE  [Map!Next]_(Map!vars)
<1>1. /\ call \in Calls /\ call.key \in Keys /\ TableInv
      /\ phase \in {"idle", "probe", "abort"}
    BY DEF MapInv, TableInv, TypeOK, Calls
<1>2. ASSUME UNCHANGED <<key, value>> PROVE Entries' = Entries
    BY <1>2 DEF Entries, EntryOf
<1>3. ASSUME Begin PROVE Map!Next
    <2>1. Entries' = Entries
        BY <1>2, <1>3 DEF Begin
    <2>2. Map!Ask
        BY <1>3, <2>1 DEF Begin, Map!Ask, Map!Calls, Calls, Entries
    <2>3. QED
        BY <2>2 DEF Map!Next
<1>4. ASSUME Probe PROVE [Map!Next]_(Map!vars)
    <2>1. Entries' = Entries
        BY <1>2, <1>4 DEF Probe
    <2>2. CASE phase' = "probe"
        BY <1>4, <2>1, <2>2 DEF Probe, Map!vars, Entries
    <2>3. CASE phase' = "abort"
        <3>1. \A s \in Slot : key[s] \notin {NoKey, call.key}
            BY <1>4, <2>3 DEF MapInv, TableInv, AbortOnlyWhenFull, Probe
        <3>2. Cardinality({k \in Keys : Entries[k] # Null}) = Buckets
            BY <3>1, FullTable
        <3>3. ~(Entries[call.key] # Null)
            BY <1>1, <3>1, HeldKeys
        <3>4. phase = "probe" /\ call' = call /\ answer' = answer
            BY <1>4 DEF Probe
        <3>5. Map!Held = {k \in Keys : Entries[k] # Null}
            BY DEF Map!Held, Entries
        <3>6. Map!Cardinality(Map!Held) = Buckets /\ call.key \notin Map!Held
            <4>1. Cardinality(Map!Held) = Buckets /\ call.key \notin Map!Held
                BY <3>2, <3>3, <3>5, Zenon
            <4>2. Map!Cardinality(Map!Held) = Cardinality(Map!Held)
                BY DEF Map!Cardinality, Cardinality
            <4>3. QED
                BY <4>1, <4>2, Zenon
        <3>7. Map!Refuse
            BY <2>1, <2>3, <3>4, <3>6 DEF Map!Refuse, Entries
        <3>8. QED
            BY <3>7 DEF Map!Next
    <2>4. QED
        BY <1>4, <2>2, <2>3 DEF Probe
<1>5. ASSUME Find PROVE Map!Next
    <2>1. Entries' = Entries /\ Arrived
        BY <1>2, <1>5 DEF Find
    <2>2. answer' = Entries[call.key]
        BY <1>5, <2>1, Answered DEF Find
    <2>3. phase = "probe" /\ phase' = "idle" /\ call' = call /\ call.op = "find"
        BY <1>5, <2>1 DEF Find, Arrived, Return
    <2>4. Map!Return
        BY <2>1, <2>2, <2>3 DEF Map!Return, Map!Find, Entries
    <2>5. QED
        BY <2>4 DEF Map!Next
<1>6. ASSUME Overwrite PROVE Map!Next
    <2>1. Entries' = [Entries EXCEPT ![call.key] = call.value]
        BY <1>6, PutEntry DEF Overwrite
    <2>2. /\ phase = "probe" /\ phase' = "idle" /\ call' = call /\ call.op = "overwrite"
          /\ answer' = call.value
        BY <1>6 DEF Overwrite, Arrived, Return, Put
    <2>3. Map!Return
        BY <2>1, <2>2 DEF Map!Return, Map!Overwrite, Entries
    <2>4. QED
        BY <2>3 DEF Map!Next
<1>7. ASSUME Add PROVE Map!Next
    <2>1. phase = "probe" /\ phase' = "idle" /\ call' = call /\ call.op = "add" /\ Arrived
        BY <1>7 DEF Add, Arrived, Return
    <2>2. Holds <=> Entries[call.key] # Null
        BY <2>1, Answered
    <2>3. Map!Add
        <3>1. CASE Holds
            <4>1. answer' = Null /\ Entries' = Entries /\ Entries[call.key] # Null
                BY <1>2, <1>7, <2>2, <3>1 DEF Add
            <4>2. QED
                BY <1>1, <2>1, <4>1 DEF Map!Add, Map!Held, Entries
        <3>2. CASE ~Holds
            <4>1. Put /\ Entries[call.key] = Null
                BY <1>7, <2>2, <3>2 DEF Add
            <4>2. Entries' = [Entries EXCEPT ![call.key] = call.value] /\ answer' = call.value
                BY <2>1, <4>1, PutEntry DEF Put
            <4>3. QED
                BY <1>1, <2>1, <4>1, <4>2 DEF Map!Add, Map!Held, Entries
        <3>3. QED
            BY <3>1, <3>2
    <2>4. Map!Return
        BY <2>1, <2>3 DEF Map!Return
    <2>5. QED
        BY <2>4 DEF Map!Next
<1>8. ASSUME Clear PROVE Map!Next
    <2>1. \A k \in Keys : EntryOf(k)' = Null
        BY <1>8, NullAssumption DEF Clear, EntryOf
    <2>2. Entries' = [k \in Keys |-> Null]
        BY <2>1 DEF Entries
    <2>3. Map!Clear
        BY <1>8, <2>2 DEF Clear, Map!Clear, Entries
    <2>4. QED
        BY <2>3 DEF Map!Next
<1>9. ASSUME UNCHANGED vars PROVE UNCHANGED Map!vars
    <2>1. Entries' = Entries
        BY <1>2, <1>9 DEF vars
    <2>2. QED
        BY <1>9, <2>1 DEF vars, Map!vars, Entries
<1>10. QED
    BY <1>3, <1>4, <1>5, <1>6, <1>7, <1>8, <1>9 DEF Next, Aborted

\* Whatever collides, a table whose probes visit every slot answers each call
\* as a map of its capacity does, and refuses only a new key when it is full.
THEOREM MapSound == Cyclic => (Spec => Map!Init /\ [][Map!Next]_(Map!vars))
<1> SUFFICES ASSUME Cyclic PROVE Spec => Map!Init /\ [][Map!Next]_(Map!vars)
    OBVIOUS
<1>1. Init => MapInv /\ Map!Init
    BY InitMapInv, InitMap
<1>2. MapInv /\ [Next]_vars => MapInv'
    BY NextMapInv
<1>3. MapInv /\ MapInv' /\ [Next]_vars => [Map!Next]_(Map!vars)
    BY StepMap
<1>4. QED
    BY <1>1, <1>2, <1>3, PTL DEF Spec
=============================================================================
