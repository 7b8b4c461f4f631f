----------------------------- MODULE Dictionary -----------------------------
(* What the compiler relies on when it keeps names in a table: a partial map  *)
(* with a capacity.  A call is asked, and answered in one step from the map;  *)
(* a table with no room left may refuse a key it does not hold.               *)
EXTENDS Integers, FiniteSets

CONSTANTS
    Keys, Values,
    Capacity,     \* entries the table has room for
    Operations,   \* what a caller may ask
    Null          \* no entry

VARIABLES
    map,      \* the entry of each key, or Null
    call,     \* the call being answered
    state,    \* "idle", "asked" or "refused"
    answer    \* what the last call returned

vars == <<map, call, state, answer>>

Calls == [op : Operations, key : Keys, value : Values]
Held == {k \in Keys : map[k] # Null}

Init ==
    /\ map = [k \in Keys |-> Null]
    /\ call \in Calls
    /\ state = "idle"
    /\ answer = Null

Ask ==
    /\ state = "idle"
    /\ call' \in Calls
    /\ state' = "asked"
    /\ UNCHANGED <<map, answer>>

\* tryfind, has_entry
Find ==
    /\ call.op = "find"
    /\ answer' = map[call.key]
    /\ UNCHANGED map

\* overwrite: the entry afterwards
Overwrite ==
    /\ call.op = "overwrite"
    /\ map' = [map EXCEPT ![call.key] = call.value]
    /\ answer' = call.value

\* tryadd: an entry is never replaced, and the caller is told
Add ==
    /\ call.op = "add"
    /\ IF call.key \in Held
       THEN answer' = Null /\ UNCHANGED map
       ELSE /\ map' = [map EXCEPT ![call.key] = call.value]
            /\ answer' = call.value

Return ==
    /\ state = "asked"
    /\ Find \/ Overwrite \/ Add
    /\ state' = "idle"
    /\ UNCHANGED call

Refuse ==
    /\ state = "asked"
    /\ call.key \notin Held
    /\ Cardinality(Held) = Capacity
    /\ state' = "refused"
    /\ UNCHANGED <<map, call, answer>>

\* A table reused for another scope starts empty.
Clear ==
    /\ state = "idle"
    /\ map' = [k \in Keys |-> Null]
    /\ UNCHANGED <<call, state, answer>>

Next == Ask \/ Return \/ Refuse \/ Clear

\* Every call is answered or refused.
Spec == Init /\ [][Next]_vars /\ WF_vars(Return \/ Refuse)
=============================================================================
