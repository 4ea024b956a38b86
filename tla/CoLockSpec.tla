----------------------------- MODULE CoLockSpec -----------------------------
(***************************************************************************)
(* What the coroutine locks promise: who holds which lock.                  *)
(***************************************************************************)
CONSTANTS
  Co,                \* the coroutines
  Holds              \* pairs of a lock and "shared" or "alone"

VARIABLE held        \* the locks a coroutine holds and how

Conflict(h, i) == h[1] = i[1] /\ "alone" \in {h[2], i[2]}

Init == held = [c \in Co |-> {}]

Acquire(c, h) ==
  /\ \A d \in Co : \A i \in held[d] : ~Conflict(h, i)
  /\ held' = [held EXCEPT ![c] = @ \cup {h}]
Release(c, h) ==
  /\ h \in held[c]
  /\ held' = [held EXCEPT ![c] = @ \ {h}]

Next == \E c \in Co, h \in Holds : Acquire(c, h) \/ Release(c, h)
Spec == Init /\ [][Next]_held
=============================================================================
