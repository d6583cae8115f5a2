---------------------------- MODULE RuntimeCalls ----------------------------
(***************************************************************************)
(* What becomes of a call to the runtime (lmrs/runtime_client.py).  vLLM   *)
(* answers with a JSON object or the call comes to one of several faults,  *)
(* none of which leaves the client as an exception: a probe that fails     *)
(* lists no model, a completion that fails is a failure signal.  What an   *)
(* object says of models is the runtime's to decide.                       *)
(***************************************************************************)

\* Refused or unknown host; no answer within the timeout; a status that is
\* not a success; a body that is not a JSON object.
Faults == {"unavailable", "timed out", "HTTP error", "unreadable"}

Responses == Faults \cup {"object"}

\* list_models, where the runtime lists these models.
ListModels(response, models) ==
  [ok |-> response \notin Faults, served |-> IF response \in Faults THEN {} ELSE models]

\* Mutant: a runtime that lists some model will do.
IsSomeModelServed(response, models, m) == ListModels(response, models)

\* is_model_served.
IsModelServed(response, models, m) ==
  LET listed == ListModels(response, models)
  IN [listed EXCEPT !.ok = @ /\ m \in listed.served]

\* RuntimeClient.execute of an admitted request.  Any object passes for a
\* completion, even one without choices.
Execute(response) == IF response \in Faults THEN "failed" ELSE "executed"
=============================================================================
