----------------------------- MODULE TestWorker -----------------------------
(***************************************************************************)
(* What the end-to-end tests have in common: a Playwright worker at one of *)
(* the awaits of a spec file, loops that poll until a timeout, and a new   *)
(* worker for a retry (playwright.config.ts).                              *)
(***************************************************************************)
EXTENDS Naturals

CONSTANTS
  MaxPolls,     \* the polls that fit into a timeout
  MaxWorkers    \* the first worker and those of the retries

ASSUME WorkerBoundsAssumption == MaxPolls \in Nat \ {0} /\ MaxWorkers \in Nat \ {0}

VARIABLES
  pc,       \* the await the worker is at
  polls,    \* of the loop it is in
  worker,   \* which worker runs
  failed    \* whether a test or a hook of it has failed

workerVars == <<pc, polls, worker, failed>>

WorkerInit(place) == pc = place /\ polls = 0 /\ worker = 1 /\ failed = FALSE

Leave(to) == pc' = to /\ polls' = 0 /\ UNCHANGED <<worker, failed>>

Goto(from, to) == pc = from /\ Leave(to)

FailTo(hook) == pc' = hook /\ polls' = 0 /\ failed' = TRUE /\ UNCHANGED worker

TimedOut == polls + 1 >= MaxPolls

PollAgain == ~TimedOut /\ polls' = polls + 1 /\ UNCHANGED <<pc, worker, failed>>

\* Playwright retries what failed with a new worker.
Retried == failed /\ worker < MaxWorkers

NewWorker(to) ==
  Retried /\ worker' = worker + 1 /\ pc' = to /\ polls' = 0 /\ failed' = FALSE

=============================================================================
