------------------------------ MODULE HashTable ------------------------------
(* The open-addressing tables of the compiler: mini_hashset (the names of one  *)
(* scope), const_hashmap (constants) and the tables of hashmap.h (symbols and  *)
(* types).  They differ in size and in how a probe goes to the next slot, a    *)
(* parameter here.  Entries are never removed one by one: a scope's table is   *)
(* invalidated as a whole when a later scope reuses it.                        *)
(*                                                                             *)
(* One step is one turn of the probing loop; the slot a key starts from is     *)
(* given by Hash, so that collisions are chosen rather than computed.          *)
EXTENDS Integers, FiniteSets

CONSTANTS
    Keys,
    Values,
    Buckets,      \* array_len, the modulus of the hash
    Hash,         \* the slot a key's probe starts at
    Succ,         \* the slot a probe goes to after each slot
    Operations,   \* the operations of this table
    Clears,       \* the table is reused: arr_mini_hashset_push
    NoKey,        \* the key of an empty slot (key.data = NULL)
    Null          \* the null pointer an operation may return

Slot == 0..(Buckets - 1)

ASSUME BucketsAssumption == Buckets \in Nat \ {0}
ASSUME HashAssumption == Hash \in [Keys -> Slot] /\ Succ \in [Slot -> Slot]
ASSUME NullAssumption == NoKey \notin Keys /\ Null \notin Values
ASSUME OperationsAssumption == Operations \subseteq {"find", "overwrite", "add"}

VARIABLES
    key,      \* the key in each slot
    value,    \* the value in each slot; kept when the key is invalidated
    call,     \* operation, key and value of the running call
    index,
    start,
    phase,    \* "idle", "probe", or "abort" once the loop gives up
    answer    \* what the last call returned

vars == <<key, value, call, index, start, phase, answer>>

Calls == [op : Operations, key : Keys, value : Values]

\* The tables are zeroed memory.
Init ==
    /\ key = [s \in Slot |-> NoKey]
    /\ value = [s \in Slot |-> Null]
    /\ call \in Calls
    /\ index = 0
    /\ start = 0
    /\ phase = "idle"
    /\ answer = Null

Begin ==
    /\ phase = "idle"
    /\ call' \in Calls
    /\ index' = Hash[call'.key]
    /\ start' = Hash[call'.key]
    /\ phase' = "probe"
    /\ UNCHANGED <<key, value, answer>>

\* mutant: the probe runs off the end
ProbeOn ==
    /\ phase = "probe"
    /\ key[index] \notin {NoKey, call.key}
    /\ index' = index + 1
    /\ phase' = IF index' = start THEN "abort" ELSE "probe"
    /\ UNCHANGED <<key, value, call, start, answer>>

\* mutant: the probe may pass the key it looks for
ProbePast ==
    /\ phase = "probe"
    /\ key[index] # NoKey
    /\ index' = Succ[index]
    /\ phase' = IF Succ[index] = start THEN "abort" ELSE "probe"
    /\ UNCHANGED <<key, value, call, start, answer>>

\* mutant: the probe gives up one slot early
ProbeShort ==
    /\ phase = "probe"
    /\ key[index] \notin {NoKey, call.key}
    /\ index' = Succ[index]
    /\ phase' = IF Succ[Succ[index]] = start THEN "abort" ELSE "probe"
    /\ UNCHANGED <<key, value, call, start, answer>>

\* A slot that holds another key.
Probe ==
    /\ phase = "probe"
    /\ key[index] \notin {NoKey, call.key}
    /\ index' = Succ[index]
    /\ phase' = IF Succ[index] = start THEN "abort" ELSE "probe"
    /\ UNCHANGED <<key, value, call, start, answer>>

\* The loop has stopped at the slot of the key, or at an empty one.
Arrived == phase = "probe" /\ key[index] \in {NoKey, call.key}
Holds == key[index] = call.key

Put ==
    /\ key' = [key EXCEPT ![index] = call.key]
    /\ value' = [value EXCEPT ![index] = call.value]
    /\ answer' = call.value

Return ==
    /\ phase' = "idle"
    /\ UNCHANGED <<call, index, start>>

Find ==
    /\ Arrived /\ call.op = "find"
    /\ answer' = IF Holds THEN value[index] ELSE Null
    /\ Return
    /\ UNCHANGED <<key, value>>

Overwrite ==
    /\ Arrived /\ call.op = "overwrite"
    /\ Put
    /\ Return

\* mutant: the entry is replaced
AddAlways ==
    /\ Arrived /\ call.op = "add"
    /\ Put
    /\ Return

Add ==
    /\ Arrived /\ call.op = "add"
    /\ IF Holds
       THEN answer' = Null /\ UNCHANGED <<key, value>>
       ELSE Put
    /\ Return

\* mutant: the first slot is left valid
ClearAllButFirst ==
    /\ Clears /\ phase = "idle"
    /\ key' = [s \in Slot |-> IF s = 0 THEN key[s] ELSE NoKey]
    /\ UNCHANGED <<value, call, index, start, phase, answer>>

\* mini_hashset_clear invalidates the keys and leaves the values.
Clear ==
    /\ Clears /\ phase = "idle"
    /\ key' = [s \in Slot |-> NoKey]
    /\ UNCHANGED <<value, call, index, start, phase, answer>>

Aborted == phase = "abort" /\ UNCHANGED vars

Next == Begin \/ Probe \/ Find \/ Overwrite \/ Add \/ Clear \/ Aborted

Spec == Init /\ [][Next]_vars

\* A call is a loop of the only thread: it keeps running.
FairSpec == Spec /\ WF_vars(Probe \/ Find \/ Overwrite \/ Add)

-----------------------------------------------------------------------------
(* Properties *)

TypeOK ==
    /\ key \in [Slot -> Keys \cup {NoKey}]
    /\ value \in [Slot -> Values \cup {Null}]
    /\ call \in Calls
    /\ index \in Slot /\ start \in Slot
    /\ phase \in {"idle", "probe", "abort"}
    /\ answer \in Values \cup {Null}

\* A key sits in one slot: two entries of one name would disagree after the
\* first assignment to it.
StoredOnce ==
    \A s, t \in Slot : key[s] = key[t] /\ key[s] # NoKey => s = t

\* The slots a probe from h passes before it reaches s, going round.
Between(h, s) == IF h <= s THEN h..(s - 1) ELSE (h..(Buckets - 1)) \cup (0..(s - 1))

\* No empty slot lies between the slot a key hashes to and the slot it is in, so
\* that the probe which looks for it cannot stop too early, whatever was added,
\* overwritten and cleared since.
ChainsUnbroken ==
    \A s \in Slot : key[s] # NoKey =>
        \A t \in Between(Hash[key[s]], s) : key[t] # NoKey

\* The message "hash table is full" is true: the compiler gives up only when no
\* slot is empty and none holds the name.
AbortOnlyWhenFull ==
    phase = "abort" => \A s \in Slot : key[s] \notin {NoKey, call.key}

\* The table implements a map: the entry of a key is the value in its slot.  It
\* answers every call as the map does, and gives up only at its capacity.
EntryOf(k) ==
    IF \E s \in Slot : key[s] = k THEN value[CHOOSE s \in Slot : key[s] = k] ELSE Null
Map == INSTANCE Dictionary WITH
    map <- [k \in Keys |-> EntryOf(k)],
    Capacity <- Buckets,
    state <- CASE phase = "idle" -> "idle"
               [] phase = "probe" -> "asked"
               [] phase = "abort" -> "refused"
ImplementsMap == Map!Spec

\* A lookup ends, with an answer or with the diagnostic.
LookupsEnd == phase = "probe" ~> phase # "probe"
=============================================================================
