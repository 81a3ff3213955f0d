------------------------------- MODULE Worker -------------------------------
(***************************************************************************)
(* What a node makes of the answer of its local runtime, and what the      *)
(* coordinator makes of that: the token counts of a result                 *)
(* (packages/node/src/worker.ts) and their price (payoutFormula in         *)
(* packages/coordinator/src/server.ts).  Texts are their lengths.  A       *)
(* runtime that is down, answers with an error or with something that does *)
(* not parse makes runJob throw (Broker!RunJobFails); what is left are the *)
(* answers below, in which every count may be absent.                      *)
(***************************************************************************)
EXTENDS Integers

CONSTANT Absent   \* a field that is not there

ASSUME WorkerAssumption == Absent \notin Nat

(* x ?? y                                                                  *)
Or(x, y) == IF x = Absent THEN y ELSE x

(* About four characters per token, and at least one.                      *)
EstimateTokens(length) == IF length = 0 THEN 1 ELSE (length + 3) \div 4

(* Ollama counts each side by itself.                                      *)
OllamaAnswer(count) ==
  [ runtime : {"ollama"}, response : count,
    prompt_eval_count : count \cup {Absent}, eval_count : count \cup {Absent} ]

RunJobOllama(prompt, answer) ==
  [ tokensIn  |-> Or(answer.prompt_eval_count, EstimateTokens(prompt)),
    tokensOut |-> Or(answer.eval_count, EstimateTokens(answer.response)) ]

(* LM Studio answers chats and completions in different fields.            *)
LmStudioAnswer(count) ==
  [ runtime : {"lm-studio"}, content : count \cup {Absent}, text : count \cup {Absent},
    prompt_tokens : count \cup {Absent}, completion_tokens : count \cup {Absent} ]

RunJobLmStudio(prompt, answer) ==
  LET output == Or(answer.content, Or(answer.text, 0))
  IN  [ tokensIn  |-> Or(answer.prompt_tokens, EstimateTokens(prompt)),
        tokensOut |-> Or(answer.completion_tokens, EstimateTokens(output)) ]

Tokens(prompt, answer) ==
  IF answer.runtime = "lm-studio"
  THEN RunJobLmStudio(prompt, answer)
  ELSE RunJobOllama(prompt, answer)

PayoutFormula(tokens) == tokens.tokensIn + tokens.tokensOut * 2
=============================================================================
