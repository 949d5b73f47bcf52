------------------------------ MODULE MSClient ------------------------------
(***************************************************************************)
(* Class MSClient of e2e-tests: what CI jobs that run at the same time     *)
(* change in Azure. The microsoft spec adds its redirect URL to the one    *)
(* app registration before it deploys and removes it afterwards; the ldap  *)
(* spec adds a rule to the one network security group and deletes it       *)
(* afterwards. Azure is external: it keeps what was last written, and      *)
(* refuses a rule whose priority another rule has.                         *)
(***************************************************************************)
EXTENDS Naturals, FiniteSets

CONSTANTS
  Jobs,             \* the CI jobs; each has a redirect URL and a rule name of its own
  FirstPriority     \* the lowest priority that a job tries

ASSUME FirstPriorityAssumption == FirstPriority \in Nat

VARIABLES
  job,            \* each job's spec: "microsoft" or "ldap"
  step,           \* the request each job is at
  redirectUris,   \* of the app registration: the jobs whose URL is there
  currentUrls,    \* the list that a job has read
  stale,          \* history: the jobs whose list has been overtaken by a write
  overwritten,    \* history: those whose URL came or went with such a list of another
  rules,          \* of the group: job -> priority
  priority,       \* availablePriority of each job
  cleanup,        \* the jobs that hold a cleanup function
  faulted         \* history: the jobs that died, whose hook after the tests had a request
                  \* fail, or whose rule is there though the request for it failed

uriVars == <<redirectUris, currentUrls, stale, overwritten>>
ruleVars == <<rules, priority, cleanup>>
msVars == <<job, step, uriVars, ruleVars, faulted>>

MSInit ==
  /\ job \in [Jobs -> {"microsoft", "ldap"}]
  /\ step = [j \in Jobs |-> IF job[j] = "microsoft" THEN "getUrls" ELSE "getRules"]
  /\ redirectUris = {} /\ currentUrls = [j \in Jobs |-> {}]
  /\ stale = {} /\ overwritten = {}
  /\ rules = [j \in {} |-> FirstPriority] /\ priority = [j \in Jobs |-> FirstPriority]
  /\ cleanup = {} /\ faulted = {}

JobGoto(j, from, to) == step[j] = from /\ step' = [step EXCEPT ![j] = to] /\ UNCHANGED job

-----------------------------------------------------------------------------
(* addAppRedirectUrlsAsync and removeAppRedirectUrlsAsync                  *)

Reading == {j \in Jobs : step[j] \in {"addUrl", "removeUrl"}}

WriteUrls(j, urls) ==
  /\ redirectUris' = urls
  /\ overwritten' = overwritten \cup
       {k \in Jobs \ {j} : j \in stale /\ (k \in urls <=> k \notin redirectUris)}
  /\ stale' = Reading \ {j}
  /\ UNCHANGED currentUrls

GetAppRedirectUrls(j) ==
  /\ JobGoto(j, "getUrls", "addUrl") \/ JobGoto(j, "getUrlsAgain", "removeUrl")
  /\ currentUrls' = [currentUrls EXCEPT ![j] = redirectUris]
  /\ stale' = stale \ {j}
  /\ UNCHANGED <<redirectUris, overwritten, ruleVars, faulted>>

\* Mutant: the job's list is the whole list.
AddAppRedirectUrlsReplace(j) ==
  /\ JobGoto(j, "addUrl", "test")
  /\ WriteUrls(j, {j})
  /\ UNCHANGED <<ruleVars, faulted>>

AddAppRedirectUrls(j) ==
  /\ JobGoto(j, "addUrl", "test")
  /\ WriteUrls(j, currentUrls[j] \cup {j})
  /\ UNCHANGED <<ruleVars, faulted>>

RemoveAppRedirectUrls(j) ==
  /\ JobGoto(j, "removeUrl", "done")
  /\ WriteUrls(j, currentUrls[j] \ {j})
  /\ UNCHANGED <<ruleVars, faulted>>

-----------------------------------------------------------------------------
(* allowPublicIpInNSG                                                      *)

Priorities == {rules[k] : k \in DOMAIN rules}

\* The group, the template rule and the rules are read, and a priority chosen.
ListRules(j) ==
  /\ JobGoto(j, "getRules", "createRule")
  /\ priority' = [priority EXCEPT ![j] =
       CHOOSE p \in FirstPriority .. FirstPriority + Cardinality(Jobs) :
         p \notin Priorities
         /\ \A q \in FirstPriority .. p - 1 : q \in Priorities]
  /\ UNCHANGED <<rules, cleanup, uriVars, faulted>>

PutRule(j) ==
  /\ priority[j] \notin Priorities
  /\ rules' = [k \in DOMAIN rules \cup {j} |-> IF k = j THEN priority[j] ELSE rules[k]]

TakeRule(j) == rules' = [k \in DOMAIN rules \ {j} |-> rules[k]]

\* Of two jobs that chose one priority, the second is refused and goes without.
BeginCreateRule(j) ==
  /\ \/ PutRule(j) /\ JobGoto(j, "createRule", "pollRule")
     \/ /\ priority[j] \in Priorities /\ JobGoto(j, "createRule", "test")
        /\ UNCHANGED rules
  /\ UNCHANGED <<priority, cleanup, uriVars, faulted>>

\* Mutant: the spec does not store the cleanup function.
RuleCreatedUnstored(j) ==
  /\ JobGoto(j, "pollRule", "test")
  /\ UNCHANGED <<ruleVars, uriVars, faulted>>

RuleCreated(j) ==
  /\ JobGoto(j, "pollRule", "test") /\ cleanup' = cleanup \cup {j}
  /\ UNCHANGED <<rules, priority, uriVars, faulted>>

\* The cleanup function: the rule by its name, which nobody else deletes.
DeleteRule(j) ==
  /\ j \in cleanup /\ JobGoto(j, "cleanup", "done")
  /\ TakeRule(j)
  /\ UNCHANGED <<priority, cleanup, uriVars, faulted>>

NoCleanup(j) ==
  /\ j \notin cleanup /\ JobGoto(j, "cleanup", "done")
  /\ UNCHANGED <<ruleVars, uriVars, faulted>>

-----------------------------------------------------------------------------
TestsEnd(j) ==
  /\ JobGoto(j, "test", IF job[j] = "microsoft" THEN "getUrlsAgain" ELSE "cleanup")
  /\ UNCHANGED <<ruleVars, uriVars, faulted>>

(* What has become of the request that a job was at when it broke off: it  *)
(* may have been done all the same, and a rule may fail to be provisioned. *)
BrokenOff(j) ==
  /\ \/ /\ stale' = stale \ {j}
        /\ UNCHANGED <<redirectUris, currentUrls, overwritten, rules>>
     \/ step[j] = "addUrl" /\ WriteUrls(j, currentUrls[j] \cup {j}) /\ UNCHANGED rules
     \/ step[j] = "removeUrl" /\ WriteUrls(j, currentUrls[j] \ {j}) /\ UNCHANGED rules
     \/ step[j] = "createRule" /\ PutRule(j) /\ UNCHANGED uriVars
     \/ /\ step[j] = "pollRule" \/ (step[j] = "cleanup" /\ j \in cleanup)
        /\ TakeRule(j) /\ UNCHANGED uriVars
  /\ UNCHANGED <<priority, cleanup>>

(* A request throws. The hook before the tests catches it around the rule  *)
(* and not around the redirect URL, and then the hook after them still     *)
(* runs; that one catches it around both.                                  *)
RequestFails(j) ==
  /\ BrokenOff(j)
  /\ \/ /\ \E s \in {"getUrls", "addUrl"} : JobGoto(j, s, "getUrlsAgain")
        /\ UNCHANGED faulted
     \/ /\ \E s \in {"getRules", "createRule", "pollRule"} : JobGoto(j, s, "test")
        /\ faulted' = faulted \cup ({j} \cap DOMAIN rules')
     \/ /\ \E s \in {"getUrlsAgain", "removeUrl", "cleanup"} : JobGoto(j, s, "done")
        /\ faulted' = faulted \cup {j}

\* The job is cancelled, or the process cannot be killed and the hook ends there.
JobDies(j) ==
  /\ BrokenOff(j) /\ step[j] # "done" /\ JobGoto(j, step[j], "done")
  /\ faulted' = faulted \cup {j}

JobNext(j) ==
  \/ GetAppRedirectUrls(j) \/ AddAppRedirectUrls(j) \/ RemoveAppRedirectUrls(j)
  \/ ListRules(j) \/ BeginCreateRule(j) \/ RuleCreated(j) \/ DeleteRule(j) \/ NoCleanup(j)
  \/ TestsEnd(j) \/ RequestFails(j) \/ JobDies(j)

MSNext == \E j \in Jobs : JobNext(j)

-----------------------------------------------------------------------------
(* The login of a job works only with its redirect URL registered: while a *)
(* job tests, its URL is there, whatever requests fail and jobs die. Only  *)
(* another job's list that was overtaken before it was written may have    *)
(* taken this very job's URL.                                              *)
RedirectKept ==
  \A j \in Jobs \ overwritten : job[j] = "microsoft" /\ step[j] = "test" => j \in redirectUris

(* A job leaves neither its URL nor its rule behind, even when a request   *)
(* before its tests failed, done or not. The exceptions: a job that died   *)
(* or failed in the hook that cleans up; a rule that is there though its   *)
(* creation failed, for which no cleanup function is returned; and a URL   *)
(* that another job's overtaken list has brought back.                     *)
LeftClean ==
  \A j \in Jobs \ faulted : step[j] = "done" =>
    j \notin DOMAIN rules /\ (j \in overwritten \/ j \notin redirectUris)
=============================================================================
