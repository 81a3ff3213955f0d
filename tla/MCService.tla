------------------------------ MODULE MCService ------------------------------
(* Small instances of Service.                                             *)
EXTENDS Service

CONSTANTS j1, j2, n1, n2, s1

Prompts == [j \in Job |-> 4]
Answers ==
  [j \in Job |-> [runtime |-> "ollama", response |-> 4,
                  prompt_eval_count |-> Absent, eval_count |-> Absent]]

Under(faults, durable, longPoll, keyed) ==
  [faults |-> faults, durable |-> durable, longPoll |-> longPoll, keyed |-> keyed]

(* Nothing fails; pollers give up, runtimes fail and payloads spoil;       *)
(* settlement fails and clocks are set back; consumers have deadlines and  *)
(* send what does not parse; a coordinator without a store ends; and with  *)
(* API keys, of which one consumer has none, everything fails at once.     *)
Deployments ==
  { Under({}, TRUE, TRUE, FALSE),
    Under({"abort", "runtime", "unreadable"}, TRUE, TRUE, FALSE),
    Under({"rpc", "clock"}, TRUE, FALSE, FALSE),
    Under({"late", "malformed"}, TRUE, FALSE, FALSE),
    Under({"crash"}, FALSE, FALSE, FALSE),
    Under(Fault, FALSE, FALSE, TRUE) }
=============================================================================
