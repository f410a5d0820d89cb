------------------------------ MODULE Delivery ------------------------------
(***************************************************************************)
(* What a push cycle promises about the readings it was given, whatever    *)
(* the target answers: each reading is settled at most once, a cycle       *)
(* returns only when all of its readings are, and one that ends by an      *)
(* exception settles no more of them.                                      *)
(***************************************************************************)
CONSTANTS
  Cycles,
  BatchOf     \* the readings each cycle was called with

VARIABLES
  outcome,    \* what became of each reading
  returned,   \* the cycles that have returned
  raised      \* the cycles that an exception has ended

vars == <<outcome, returned, raised>>

Readings == UNION {BatchOf[c] : c \in Cycles}

Settled == {"delivered", "dead_lettered", "given_up"}

Over == returned \union raised

Init ==
  /\ outcome = [r \in Readings |-> "pending"]
  /\ returned = {} /\ raised = {}

(* Any number of pending readings get an outcome in one step, but none of  *)
(* a cycle that is over.                                                   *)
Settle ==
  /\ outcome' \in [Readings -> Settled \union {"pending"}]
  /\ \A r \in Readings : outcome[r] # "pending" => outcome'[r] = outcome[r]
  /\ \A c \in Over : \A r \in BatchOf[c] : outcome'[r] = outcome[r]

Return(c) ==
  /\ c \notin Over
  /\ returned' = returned \union {c}
  /\ \A r \in BatchOf[c] : outcome'[r] # "pending"
  /\ UNCHANGED raised

Raise(c) ==
  /\ c \notin Over
  /\ raised' = raised \union {c}
  /\ UNCHANGED returned

Next ==
  Settle /\ \/ UNCHANGED <<returned, raised>>
            \/ \E c \in Cycles : Return(c) \/ Raise(c)

Spec == Init /\ [][Next]_vars
=============================================================================
