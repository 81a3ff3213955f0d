------------------------------ MODULE MCBroker ------------------------------
(* Small instances of Broker.                                              *)
EXTENDS Broker

CONSTANTS j1, j2, n1, n2, s1, s2

Prompts == [j \in Job |-> IF j = j1 THEN 5 ELSE 3]

(* One runtime counts tokens, the other leaves it to the worker.           *)
Answers ==
  [j \in Job |->
     IF j = j1
     THEN [runtime |-> "ollama", response |-> 7, prompt_eval_count |-> 2, eval_count |-> Absent]
     ELSE [runtime |-> "lm-studio", content |-> Absent, text |-> 0,
           prompt_tokens |-> Absent, completion_tokens |-> Absent]]

(* A rate card with a rebate, which may come out negative.                 *)
RateCard(tokens) == PayoutFormula(tokens) - 4

(* The pay of the jobs under it.                                           *)
ASSUME Rebated == Pay = [j \in Job |-> IF j = j1 THEN 2 ELSE -1]

Under(faults, durable, longPoll, keyed) ==
  [faults |-> faults, durable |-> durable, longPoll |-> longPoll, keyed |-> keyed]

(* Every fault at once, on both stores, and the faults under which the     *)
(* ledger stays exact; a coordinator with keys.                            *)
FromCalmToHostile ==
  { Under(Fault, TRUE, TRUE, FALSE),
    Under(Fault \ {"busy"}, FALSE, FALSE, FALSE),
    Under({"abort", "lost", "runtime", "stop", "unreadable", "clock"}, TRUE, TRUE, FALSE),
    Under({"lost", "crash"}, TRUE, FALSE, TRUE) }

(* Store statements throw.                                                 *)
BusyStore == { Under({"busy"}, TRUE, TRUE, FALSE) }

(* Nothing fails, and the coordinator has keys.                            *)
Keyed == { Under({}, TRUE, TRUE, TRUE) }
=============================================================================
