---------------------------- MODULE MCTenantGate ----------------------------
(* Small instances of TenantGate. *)
EXTENDS TenantGate, TLC

CONSTANTS acme, globex, acmeAdmin, acmeViewer, acmeSpare, globexAdmin, s1, s2

\* Administrators' keys, one of them not issued yet, and a viewer's.
GateKeyTenant == [k \in {acmeAdmin, acmeSpare, acmeViewer} |-> acme] @@ (globexAdmin :> globex)
GateKeyRole == [k \in {acmeAdmin, acmeSpare, globexAdmin} |-> "admin"] @@ (acmeViewer :> "viewer")

MCConfig == [t \in {acme, globex} |-> [limit |-> 1, settings |-> s1]]

LimitUpdates == [limit : {0, 1, 3}, settings : {Null}]
SomeUpdates == {[limit |-> 0, settings |-> Null], [limit |-> Null, settings |-> s2]}

\* Nothing tells one thread from another.
Threads == Permutations(Workers)

\* One tenant whose keys are an administrator's and a viewer's.
OneKeyTenant == (acmeAdmin :> acme) @@ (acmeViewer :> acme)
OneKeyRole == (acmeAdmin :> "admin") @@ (acmeViewer :> "viewer")
OneConfig == [t \in {acme} |-> [limit |-> 1, settings |-> s1]]
=============================================================================
