--------------------------- MODULE LearningPaths ---------------------------
(***************************************************************************)
(* useLearningPathData: the paths come from the proxy, or, when that       *)
(* fails, from a file of the app; until one of them is there, the page     *)
(* shows that it is loading.                                               *)
(***************************************************************************)

VARIABLES
  api,        \* useAsync: "loading", "value", "nothing" (an answer of null), "error"
  fallback,   \* fetchData: "none", "fetching", "done", "failed"
  effectFor,  \* what the effect ran for last
  data, error, isLoading

learningVars == <<api, fallback, effectFor, data, error, isLoading>>

LearningInit ==
  /\ api = "loading" /\ fallback = "none" /\ effectFor = "none"
  /\ data = "none" /\ error = FALSE /\ isLoading = TRUE

(* getLearningPathData: an address, credentials and a request, each of     *)
(* which may fail; a status that is not ok is an error as well.            *)
ApiAnswers(how) ==
  /\ api = "loading"
  /\ api' = how
  /\ UNCHANGED <<fallback, effectFor, data, error, isLoading>>

(* The effect, after each render in which one of what it depends on is     *)
(* another.                                                                *)
LearningEffect ==
  /\ effectFor # api
  /\ effectFor' = api
  /\ IF api = "error"
     THEN /\ error' = TRUE /\ fallback' = "fetching"
          /\ UNCHANGED <<data, isLoading>>
     ELSE /\ data' = IF api = "value" THEN "api" ELSE data
          /\ isLoading' = (isLoading /\ api # "value")
          /\ UNCHANGED <<fallback, error>>
  /\ UNCHANGED api

(* The file is there and is JSON.                                          *)
FallbackFetched ==
  /\ fallback = "fetching"
  /\ fallback' = "done" /\ data' = "file" /\ isLoading' = FALSE
  /\ UNCHANGED <<api, effectFor, error>>

\* Mutant: a failure is recorded and the page goes on loading.
FallbackFailsLoading ==
  /\ fallback = "fetching"
  /\ fallback' = "failed" /\ error' = TRUE
  /\ UNCHANGED <<api, effectFor, data, isLoading>>

FallbackFails ==
  /\ fallback = "fetching"
  /\ fallback' = "failed" /\ error' = TRUE /\ isLoading' = FALSE
  /\ UNCHANGED <<api, effectFor, data>>

LearningNext ==
  \/ \E how \in {"value", "nothing", "error"} : ApiAnswers(how)
  \/ LearningEffect \/ FallbackFetched \/ FallbackFails

(* What the page renders.                                                  *)
LearningPathCards ==
  IF isLoading THEN "progress" ELSE IF data = "none" THEN "error" ELSE data
=============================================================================
