------------------------------ MODULE MCMonopoly -------------------------------
(* Claims with a memory: what was there to be claimed when a relay began.       *)
EXTENDS MCClaimFairly

VARIABLE pending    \* history: the jobs that were due and free when r made its first pass

HistoryInit == Init /\ pending = [r \in Relays |-> {}]

Remember ==
    pending' = [r \in Relays |->
        IF phase[r] = "claim" /\ phase'[r] \in {"top up", "commit"} THEN due \ RowsLocked ELSE pending[r]]

HistorySpec == HistoryInit /\ [][Next /\ Remember]_<<vars, pending>>

\* dispatch_jobs.py: a flooding tenant cannot monopolise a batch while other tenants have pending
\* work. Not counted as pending: what comes after the first pass, and what another relay has locked.
NoMonopoly ==
    [][\A r \in Relays, u \in Users :
        phase[r] # "commit" /\ phase'[r] = "commit" /\ Share(u, hand'[r]) > PerUserLimit =>
        \/ \E j \in hand'[r] : UserOf[j] # u
        \/ \A j \in pending[r] \cap (due \ RowsLocked) : UserOf[j] = u]_<<vars, pending>>
===============================================================================
