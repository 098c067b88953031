----------------------- MODULE MCTransactionPipeline ------------------------
(***************************************************************************)
(* TransactionPipeline for TLC: which faults happen, and how often.        *)
(***************************************************************************)
EXTENDS TransactionPipeline, TLC

CONSTANTS deposit, withdrawal, w1, w2, a1, a2

NoFaults == [k \in FaultKinds |-> 0]
WithFaults(kinds) == [k \in FaultKinds |-> IF k \in kinds THEN 1 ELSE 0]

\* Messages, restarts and replicas misbehave once each, and a letter is replayed.
Unreliable == WithFaults(FaultKinds \ {"await", "mark"})

\* Nothing is dropped: one awaited query throws, one mark is not written, and an
\* operator asks twice for a replay.
Handover == [WithFaults({"await", "mark"}) EXCEPT !["replay"] = 2]

Symmetry == Permutations({w1, w2})
=============================================================================
