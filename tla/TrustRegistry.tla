--------------------------- MODULE TrustRegistry ---------------------------
(***************************************************************************)
(* What the persistent whitelist promises: an operator grants trust, the   *)
(* registry stores everything granted so far, and a restart brings back    *)
(* exactly what was stored.  UserTrust shows under which circumstances     *)
(* engine.go and its JSON file keep this promise.                          *)
(***************************************************************************)
CONSTANT Entries   \* process names and PIDs that can be trusted

VARIABLES trusted, \* what the monitor trusts now
          stored   \* what a restart brings back

Init == trusted \subseteq Entries /\ stored = trusted

Grant == \E names \in SUBSET Entries : /\ trusted' = trusted \cup names
                                       /\ UNCHANGED stored

Store == stored' = trusted /\ UNCHANGED trusted

Restart == trusted' = stored /\ UNCHANGED stored

Next == Grant \/ Store \/ Restart

Spec == Init /\ [][Next]_<<trusted, stored>>

=============================================================================
