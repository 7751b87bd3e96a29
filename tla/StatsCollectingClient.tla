------------------------ MODULE StatsCollectingClient ------------------------
(***************************************************************************)
(* statsCollectingClient (src/src/memcached/stats_collecting_client.go):  *)
(* a memcached.Client that forwards every call to the client it wraps and *)
(* counts, in ten metrics counters, the keys asked for, the keys found    *)
(* and the outcome of each call.  The client is shared by the goroutines  *)
(* serving rate-limit requests, so the steps of their calls interleave:   *)
(* GetMulti adds to keys_requested before it calls the inner client and   *)
(* counts its outcome after; Increment and Add count after the call.  The *)
(* counters are atomic, each Add or Inc is one step.                      *)
(*                                                                         *)
(* The inner client is MemcacheClient with its answers in `inner`; the    *)
(* wrapper refines MemcacheClient with the answers it returns itself.     *)
(***************************************************************************)
EXTENDS Naturals, Sequences, FiniteSets

CONSTANTS Keys, Callers, KeySeqs, Deltas, MaxValue, MaxErrors,
          MaxCalls   \* bound on the calls of a behaviour

VARIABLES
    items, nErr,   \* the memcached server, as in MemcacheClient
    inner,         \* caller -> the inner client's answer, or None
    pc,            \* caller -> where its call is
    arg,           \* caller -> the keys slice of its GetMulti
    out,           \* caller -> what the wrapper returned to it, or None
    ctr,           \* the statsCollectingClient counters
    calls          \* calls made so far, against MaxCalls

vars == <<items, nErr, inner, pc, arg, out, ctr, calls>>

Inner == INSTANCE MemcacheClient WITH ret <- inner
None == Inner!None

\* The fields of statsCollectingClient, one metrics counter each.
Counters == {"multiGetSuccess", "multiGetError", "incrementSuccess",
             "incrementMiss", "incrementError", "addSuccess", "addError",
             "addNotStored", "keysRequested", "keysFound"}

Bump(names, n) == ctr' = [x \in Counters |->
                            IF x \in names THEN ctr[x] + n ELSE ctr[x]]

\* CollectStats: every counter starts at zero; no call is under way.
Init ==
    /\ Inner!Init
    /\ inner = [c \in Callers |-> None]
    /\ pc = [c \in Callers |-> "idle"]
    /\ arg = [c \in Callers |-> <<>>]
    /\ out = [c \in Callers |-> None]
    /\ ctr = [x \in Counters |-> 0]
    /\ calls = 0

\* A caller starts a call when it holds no answer; the call is counted.
Idle(c) == pc[c] = "idle" /\ out[c] = None
StartCall == calls < MaxCalls /\ calls' = calls + 1

\* A GetMulti that counted one requested key per call.
GetMultiBeginCountsCall(c, ks) ==
    /\ Idle(c) /\ StartCall
    /\ Bump({"keysRequested"}, 1)
    /\ pc' = [pc EXCEPT ![c] = "getCall"]
    /\ arg' = [arg EXCEPT ![c] = ks]
    /\ UNCHANGED <<items, nErr, inner, out>>

\* GetMulti: scc.keysRequested.Add(uint64(len(keys))).
GetMultiBegin(c, ks) ==
    /\ Idle(c) /\ StartCall
    /\ Bump({"keysRequested"}, Len(ks))
    /\ pc' = [pc EXCEPT ![c] = "getCall"]
    /\ arg' = [arg EXCEPT ![c] = ks]
    /\ UNCHANGED <<items, nErr, inner, out>>

\* results, err := scc.c.GetMulti(keys)
GetMultiCall(c) ==
    /\ pc[c] = "getCall"
    /\ Inner!GetMulti(c, arg[c])
    /\ pc' = [pc EXCEPT ![c] = "getEnd"]
    /\ UNCHANGED <<arg, out, ctr, calls>>

\* Count the outcome and return results, err as they came.
GetMultiEnd(c) ==
    LET r == inner[c] IN
    /\ pc[c] = "getEnd"
    /\ IF r.err # "nil"
       THEN Bump({"multiGetError"}, 1)
       ELSE /\ ctr' = [ctr EXCEPT !["keysFound"] = @ + Cardinality(DOMAIN r.found),
                                  !["multiGetSuccess"] = @ + 1]
    /\ out' = [out EXCEPT ![c] = r]
    /\ inner' = [inner EXCEPT ![c] = None]
    /\ pc' = [pc EXCEPT ![c] = "idle"]
    /\ UNCHANGED <<items, nErr, arg, calls>>

\* newValue, err = scc.c.Increment(key, delta)
IncrementCall(c, k, d) ==
    /\ Idle(c) /\ StartCall
    /\ Inner!Increment(c, k, d)
    /\ pc' = [pc EXCEPT ![c] = "incrEnd"]
    /\ UNCHANGED <<arg, out, ctr>>

\* The counter of an error, by the switch on err.
IncrCounter == [nil |-> "incrementSuccess", miss |-> "incrementMiss",
                other |-> "incrementError"]
AddCounter == [nil |-> "addSuccess", notStored |-> "addNotStored",
               other |-> "addError"]

IncrementEnd(c) ==
    /\ pc[c] = "incrEnd"
    /\ Bump({IncrCounter[inner[c].err]}, 1)
    /\ out' = [out EXCEPT ![c] = inner[c]]
    /\ inner' = [inner EXCEPT ![c] = None]
    /\ pc' = [pc EXCEPT ![c] = "idle"]
    /\ UNCHANGED <<items, nErr, arg, calls>>

\* err := scc.c.Add(item)
AddCall(c, k, v) ==
    /\ Idle(c) /\ StartCall
    /\ Inner!Add(c, k, v)
    /\ pc' = [pc EXCEPT ![c] = "addEnd"]
    /\ UNCHANGED <<arg, out, ctr>>

\* A wrapper that reported ErrNotStored as success.
AddEndSwallowNotStored(c) ==
    LET r == inner[c] IN
    /\ pc[c] = "addEnd"
    /\ Bump({AddCounter[r.err]}, 1)
    /\ out' = [out EXCEPT ![c] = IF r.err = "notStored"
                                 THEN [r EXCEPT !.err = "nil"] ELSE r]
    /\ inner' = [inner EXCEPT ![c] = None]
    /\ pc' = [pc EXCEPT ![c] = "idle"]
    /\ UNCHANGED <<items, nErr, arg, calls>>

AddEnd(c) ==
    /\ pc[c] = "addEnd"
    /\ Bump({AddCounter[inner[c].err]}, 1)
    /\ out' = [out EXCEPT ![c] = inner[c]]
    /\ inner' = [inner EXCEPT ![c] = None]
    /\ pc' = [pc EXCEPT ![c] = "idle"]
    /\ UNCHANGED <<items, nErr, arg, calls>>

\* The caller takes what the wrapper returned.
Consume(c) ==
    /\ out[c] # None
    /\ out' = [out EXCEPT ![c] = None]
    /\ UNCHANGED <<items, nErr, inner, pc, arg, ctr, calls>>

Next ==
    \E c \in Callers :
        \/ \E ks \in KeySeqs : GetMultiBegin(c, ks)
        \/ GetMultiCall(c) \/ GetMultiEnd(c)
        \/ \E k \in Keys, d \in Deltas : IncrementCall(c, k, d) \/ AddCall(c, k, d)
        \/ IncrementEnd(c) \/ AddEnd(c)
        \/ Consume(c)

Spec == Init /\ [][Next]_vars

-----------------------------------------------------------------------------
TypeOK ==
    /\ Inner!TypeOK
    /\ inner \in [Callers -> Inner!Replies \cup {None}]
    /\ out \in [Callers -> Inner!Replies \cup {None}]
    /\ pc \in [Callers -> {"idle", "getCall", "getEnd", "incrEnd", "addEnd"}]
    /\ ctr \in [Counters -> Nat]

\* keys_found never exceeds keys_requested, in any interleaving of the
\* goroutines sharing the client: GetMulti adds len(keys) before the call
\* and len(results) after it, and results holds only keys it asked for.
\* A dashboard's hit ratio keys_found / keys_requested is then at most 1.
KeysFoundAtMostRequested == ctr["keysFound"] <= ctr["keysRequested"]

\* The wrapper is transparent: with the answer of a call taken to be the
\* inner client's until the wrapper returns and what the wrapper returned
\* after, statsCollectingClient behaves as the memcached client it wraps.
AbsRet == [c \in Callers |-> IF pc[c] \in {"getEnd", "incrEnd", "addEnd"}
                             THEN inner[c] ELSE out[c]]
Abs == INSTANCE MemcacheClient WITH ret <- AbsRet
MemcacheClientRefined == Abs!Spec
=============================================================================
