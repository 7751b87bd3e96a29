--------------------------- MODULE AtomicCounter ---------------------------
(***************************************************************************)
(* What HotKeyBatcher.Submit promises its caller (DoLimit's hot path,     *)
(* src/unnamed/part_004 lines 218-221 and 305-312): it behaves like one   *)
(* INCRBY of hitsAddend on the key's counter, executed atomically, whose   *)
(* reply is the counter right after this very increment -- or it fails,   *)
(* with the increment applied or not.                                      *)
(*                                                                         *)
(* Several calls may take effect in one step (a Redis pipeline applies    *)
(* them back to back); they are then ordered one after the other, and     *)
(* each caller is told its own place in that order.  Other clients of the *)
(* same Redis increment the counters too.  There is no liveness here: a   *)
(* call is not promised an answer (see EveryWaiterAnswered).              *)
(***************************************************************************)
EXTENDS Naturals, FiniteSets, Functions

CONSTANTS Keys, W, Hits

VARIABLES
    counter,   \* key -> counter value in Redis
    req,       \* caller -> the call not yet taken effect, or NoReq
    ans,       \* caller -> the answer waiting for it
    st         \* caller -> "idle" | "waiting" | "done"

NoReq == [key |-> "none"]
NoResult == [kind |-> "none"]
ErrResult == [kind |-> "err"]
ValResult(v) == [kind |-> "val", val |-> v]

Waiting == {w \in W : req[w] # NoReq}

\* Sum of the hits of the calls of S on key k whose place is at most n.
HitsUpTo(S, ord, k, n) ==
    SumFunctionOnSet([w \in S |-> req[w].hits],
                     {w \in S : req[w].key = k /\ ord[w] <= n})

Init ==
    /\ counter = [k \in Keys |-> 0]
    /\ req = [w \in W |-> NoReq]
    /\ ans = [w \in W |-> NoResult]
    /\ st = [w \in W |-> "idle"]

Call(w, k, h) ==
    /\ st[w] = "idle"
    /\ req' = [req EXCEPT ![w] = [key |-> k, hits |-> h]]
    /\ st' = [st EXCEPT ![w] = "waiting"]
    /\ UNCHANGED <<counter, ans>>

\* The calls of S take effect, in the order ord, and each is told the
\* counter after its own increment.
Apply(S) ==
    /\ S # {} /\ S \subseteq Waiting
    /\ \E ord \in Injection(S, 1..Cardinality(S)) :
          /\ counter' = [k \in Keys |->
                           counter[k] + HitsUpTo(S, ord, k, Cardinality(S))]
          /\ ans' = [w \in W |->
                       IF w \in S
                       THEN ValResult(counter[req[w].key]
                                      + HitsUpTo(S, ord, req[w].key, ord[w]))
                       ELSE ans[w]]
    /\ req' = [w \in W |-> IF w \in S THEN NoReq ELSE req[w]]
    /\ UNCHANGED st

\* The calls of S fail; those on the keys of K were applied nonetheless.
Fail(S, K) ==
    /\ S # {} /\ S \subseteq Waiting
    /\ counter' = [k \in Keys |->
                     IF k \in K
                     THEN counter[k] + SumFunctionOnSet([w \in S |-> req[w].hits],
                                                        {w \in S : req[w].key = k})
                     ELSE counter[k]]
    /\ ans' = [w \in W |-> IF w \in S THEN ErrResult ELSE ans[w]]
    /\ req' = [w \in W |-> IF w \in S THEN NoReq ELSE req[w]]
    /\ UNCHANGED st

\* Another client's INCRBY k 1.
External(k) ==
    /\ counter' = [counter EXCEPT ![k] = @ + 1]
    /\ UNCHANGED <<req, ans, st>>

Receive(w) ==
    /\ st[w] = "waiting" /\ ans[w] # NoResult
    /\ st' = [st EXCEPT ![w] = "done"]
    /\ ans' = [ans EXCEPT ![w] = NoResult]
    /\ UNCHANGED <<counter, req>>

Next ==
    \/ \E w \in W, k \in Keys, h \in Hits : Call(w, k, h)
    \/ \E S \in SUBSET W : Apply(S) \/ \E K \in SUBSET Keys : Fail(S, K)
    \/ \E k \in Keys : External(k)
    \/ \E w \in W : Receive(w)

Spec == Init /\ [][Next]_<<counter, req, ans, st>>
=============================================================================
