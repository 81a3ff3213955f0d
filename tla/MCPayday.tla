------------------------------ MODULE MCPayday ------------------------------
(* A small instance of Payday.                                             *)
EXTENDS Payday

CONSTANTS j1, j2, n1, n2, s1, r1, r2

Prompts == [j \in Job |-> IF j = j1 THEN 5 ELSE 3]

Answers ==
  [j \in Job |-> [runtime |-> "ollama", response |-> IF j = j1 THEN 6 ELSE 2,
                  prompt_eval_count |-> Absent, eval_count |-> Absent]]

(* A coordinator on which nothing interrupts a report, and one whose       *)
(* statements throw and whose process ends.                                *)
Coordinators ==
  { [faults |-> faults, durable |-> TRUE, longPoll |-> FALSE, keyed |-> FALSE] :
      faults \in {{}, {"busy", "crash"}} }

(* One dependable 1:1 pass at a time, and passes that die, cannot mark or *)
(* are mistyped.                                                           *)
Operators ==
  { [faults |-> {"rpc"}, pools |-> {NoPool}, chunkSize |-> 1],
    [faults |-> {"busy", "crash", "options"}, pools |-> {NoPool, 3}, chunkSize |-> 2] }
=============================================================================
