---------------------------- MODULE JobLifecycle ----------------------------
(***************************************************************************)
(* What the broker promises about a job, without queues, polls or nodes:   *)
(* it is queued once, handed to one node (or spoils in the queue), and     *)
(* then either answered or lost; nothing hands a lost or answered job out  *)
(* again.  An answer is kept for good by a durable store.                  *)
(***************************************************************************)
CONSTANT Job

VARIABLES
  durable,  \* TRUE for the SQLite store, FALSE for the in-memory one
  status

Init ==
  /\ durable \in BOOLEAN
  /\ status = [j \in Job |-> "new"]

(* Some jobs, all in state `from`, move to state `to` together.            *)
Move(from, to) ==
  \E S \in SUBSET { j \in Job : status[j] = from } :
    status' = [j \in Job |-> IF j \in S THEN to ELSE status[j]]

(* One job at a time moves from state `from` to state `to`.                *)
MoveOne(from, to) ==
  \E j \in Job : status[j] = from /\ status' = [status EXCEPT ![j] = to]

Submit  == MoveOne("new", "queued")
HandOut == MoveOne("queued", "held")
Finish  == MoveOne("held", "done")
Drop    == Move("held", "lost")
Spoil   == MoveOne("queued", "lost")

(* A store in memory forgets the queue and the answers with its process.   *)
Forget ==
  /\ ~durable
  /\ status' = [j \in Job |-> IF status[j] \in {"queued", "done"} THEN "lost" ELSE status[j]]

Next ==
  /\ UNCHANGED durable
  /\ Submit \/ HandOut \/ Finish \/ Drop \/ Spoil \/ Forget

Spec == Init /\ [][Next]_<<durable, status>>
=============================================================================
