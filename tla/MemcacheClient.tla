--------------------------- MODULE MemcacheClient ---------------------------
(***************************************************************************)
(* The memcached.Client that statsCollectingClient wraps                  *)
(* (src/src/memcached/stats_collecting_client.go), as its callers see it: *)
(* GetMulti, Increment and Add on a memcached server, each one atomic on   *)
(* the server, each answered to its caller, who then takes the answer.    *)
(*                                                                         *)
(* The outcomes are those of gomemcache: GetMulti returns the items found  *)
(* and, on a network error, whatever part of them arrived; Increment of a *)
(* missing key is ErrCacheMiss; Add of a present key is ErrNotStored; any  *)
(* call may fail with another error after the server applied it or before.*)
(* This module is also what the wrapper promises: statsCollectingClient   *)
(* refines it (StatsCollectingClient!MemcacheClientRefined).              *)
(***************************************************************************)
EXTENDS Naturals, Sequences, FiniteSets, Functions, TLC

CONSTANTS
    Keys,        \* memcached keys
    Callers,     \* goroutines sharing the client
    KeySeqs,     \* the keys slices GetMulti is called with
    Deltas,      \* Increment deltas and Add values
    MaxValue,    \* bound on a stored value
    MaxErrors    \* bound on the network errors of a behaviour

VARIABLES
    items,       \* the items on the server: stored key -> value
    ret,         \* caller -> the answer waiting for it, or None
    nErr         \* network errors so far

None == [op |-> "none"]

\* The item map GetMulti returns for the keys of S: the present ones.
Found(S) == Restrict(items, S \cap DOMAIN items)

Present(k) == k \in DOMAIN items
Store(k, v) == items' = (k :> v) @@ items

GetReply(m, e) == [op |-> "get", found |-> m, err |-> e]
IncrReply(v, e) == [op |-> "incr", val |-> v, err |-> e]
AddReply(e) == [op |-> "add", err |-> e]

Values == 0..MaxValue
ItemMaps == UNION {[S -> Values] : S \in SUBSET Keys}
Replies ==
    {GetReply(m, e) : m \in ItemMaps, e \in {"nil", "other"}}
    \cup {IncrReply(v, e) : v \in Values, e \in {"nil", "miss", "other"}}
    \cup {AddReply(e) : e \in {"nil", "notStored", "other"}}

TypeOK ==
    /\ items \in ItemMaps
    /\ ret \in [Callers -> Replies \cup {None}]
    /\ nErr \in 0..MaxErrors

Init ==
    /\ items = [k \in {} |-> 0]
    /\ ret = [c \in Callers |-> None]
    /\ nErr = 0

Answer(c, r) == ret' = [ret EXCEPT ![c] = r]

\* A network error, counted against MaxErrors.
NetError == nErr < MaxErrors /\ nErr' = nErr + 1

\* GetMulti(keys): the items found; on an error, the part that arrived.
GetMulti(c, ks) ==
    LET m == Found(Range(ks)) IN
    /\ ret[c] = None
    /\ \/ Answer(c, GetReply(m, "nil")) /\ UNCHANGED nErr
       \/ NetError /\ \E S \in SUBSET DOMAIN m :
                         Answer(c, GetReply(Restrict(m, S), "other"))
    /\ UNCHANGED items

\* Increment(key, delta): the new value, or ErrCacheMiss for a missing key.
\* A failed call may or may not have reached the server.
Increment(c, k, d) ==
    /\ ret[c] = None
    /\ Present(k) => items[k] + d <= MaxValue
    /\ \/ /\ ~Present(k)
          /\ Answer(c, IncrReply(0, "miss"))
          /\ UNCHANGED <<items, nErr>>
       \/ /\ Present(k)
          /\ items' = [items EXCEPT ![k] = @ + d]
          /\ Answer(c, IncrReply(items[k] + d, "nil"))
          /\ UNCHANGED nErr
       \/ /\ NetError
          /\ Answer(c, IncrReply(0, "other"))
          /\ \/ UNCHANGED items
             \/ Present(k) /\ items' = [items EXCEPT ![k] = @ + d]

\* Add(item): stores it unless the key is present (ErrNotStored).
Add(c, k, v) ==
    /\ ret[c] = None
    /\ \/ /\ ~Present(k)
          /\ Store(k, v)
          /\ Answer(c, AddReply("nil"))
          /\ UNCHANGED nErr
       \/ /\ Present(k)
          /\ Answer(c, AddReply("notStored"))
          /\ UNCHANGED <<items, nErr>>
       \/ /\ NetError
          /\ Answer(c, AddReply("other"))
          /\ \/ UNCHANGED items
             \/ ~Present(k) /\ Store(k, v)

\* The caller takes its answer.
Consume(c) ==
    /\ ret[c] # None
    /\ ret' = [ret EXCEPT ![c] = None]
    /\ UNCHANGED <<items, nErr>>

Next ==
    \E c \in Callers :
        \/ \E ks \in KeySeqs : GetMulti(c, ks)
        \/ \E k \in Keys, d \in Deltas : Increment(c, k, d) \/ Add(c, k, d)
        \/ Consume(c)

Spec == Init /\ [][Next]_<<items, ret, nErr>>
=============================================================================
