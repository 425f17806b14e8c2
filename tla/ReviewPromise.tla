---------------------------- MODULE ReviewPromise ----------------------------
(***************************************************************************)
(* What a mapping run promises its clients, without graph, checkpoints or  *)
(* requests: the fields are settled, those that are left open wait for one *)
(* review, the review leaves none open, and only then is a document        *)
(* published, once.                                                        *)
(***************************************************************************)
CONSTANTS Fields, Certain   \* Certain: fields that never need a reviewer

VARIABLES phase, open       \* open: the fields that have no outcome yet

promiseVars == <<phase, open>>

Init == phase = "absent" /\ open = Fields

Begin ==
    /\ phase = "absent"
    /\ phase' = "working"
    /\ UNCHANGED open

Settle ==
    /\ phase = "working"
    /\ open' \in SUBSET (Fields \ Certain)
    /\ phase' = IF open' = {} THEN "reviewed" ELSE "waiting"

Review ==
    /\ phase = "waiting"
    /\ open' = {}
    /\ phase' = "reviewed"

Publish ==
    /\ phase = "reviewed"
    /\ phase' = "published"
    /\ UNCHANGED open

Next == Begin \/ Settle \/ Review \/ Publish

Spec == Init /\ [][Next]_promiseVars
=============================================================================
