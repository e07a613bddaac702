----------------------------- MODULE OncePerKey -----------------------------
(* What an idempotency key promises to whoever retries a call: within the  *)
(* life time of its record the key has at most one effect, and a           *)
(* successful answer is always the answer of an effect of the same         *)
(* request.  Locks, snapshots, records and retries are not mentioned:      *)
(* AgentActions and Rewards implement this.                                *)
EXTENDS Integers

CONSTANTS
    Keys,   \* idempotency keys, each with its caller and operation
    TTL     \* life time of the record of a key

VARIABLES
    effects,  \* what has been done under each key: [at, request, result]
    telling   \* successful answers on their way: [key, request, result]

vars == <<effects, telling>>

Init ==
    /\ effects = [k \in Keys |-> {}]
    /\ telling = {}

AnswerOf(k, e) == [key |-> k, request |-> e.request, result |-> e.result]

\* Something is done under key k, long after what was done under it before.
Apply(k) ==
    \E e \in effects'[k] :
       /\ \A f \in effects[k] : e.at >= f.at + TTL
       /\ effects' = [effects EXCEPT ![k] = @ \cup {e}]
       /\ telling' \subseteq telling \cup {AnswerOf(k, e)}

\* A caller is told what was done for this very request.
Answer(k) ==
    /\ \E e \in effects[k] : telling' \subseteq telling \cup {AnswerOf(k, e)}
    /\ UNCHANGED effects

\* Answers arrive, or get lost.
Silence ==
    /\ telling' \subseteq telling
    /\ UNCHANGED effects

Next == Silence \/ \E k \in Keys : Apply(k) \/ Answer(k)

Spec == Init /\ [][Next]_vars

=============================================================================
