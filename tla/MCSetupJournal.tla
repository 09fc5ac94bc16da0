---------------------------- MODULE MCSetupJournal ----------------------------
(* Instances of SetupJournal: what setup and setup --refresh plan for the     *)
(* collector's job, alone or with the search worker's.                        *)
EXTENDS SetupJournal, TLC

CONSTANTS plist, search_plist, collector, search

OneFile == <<plist>>
OneDefinition == [r \in Roles |-> plist]
BothFiles == <<plist, search_plist>>
BothDefinition == (collector :> plist) @@ (search :> search_plist)

Intent(of_collector, of_search) ==
  [r \in Roles |-> IF r = collector THEN of_collector ELSE of_search]

\* A first setup or a changed one, which also retires an earlier release's job;
\* a refresh that leaves the job alone, and one that restarts it if it is loaded
\* (its journal says ensure_running then, and files only otherwise).
CollectorPlans ==
  { [intent |-> Intent("ensure_running", "keep"), guarded |-> FALSE, retires |-> TRUE],
    [intent |-> Intent("keep", "keep"), guarded |-> FALSE, retires |-> FALSE],
    [intent |-> Intent("restart_if_loaded", "keep"), guarded |-> FALSE, retires |-> FALSE] }

\* Setup that turns search on, and off; a refresh of both jobs.
SearchPlans ==
  { [intent |-> Intent("ensure_running", "ensure_running"), guarded |-> TRUE, retires |-> TRUE],
    [intent |-> Intent("ensure_running", "ensure_stopped"), guarded |-> TRUE, retires |-> FALSE],
    [intent |-> Intent("restart_if_loaded", "restart_if_loaded"), guarded |-> TRUE,
     retires |-> FALSE] }

EveryPlan == CollectorPlans \cup SearchPlans

Bounds(edit, take, crash, fault) ==
  ("edit" :> edit) @@ ("take" :> take) @@ ("crash" :> crash) @@ ("fault" :> fault)
\* One of each kind of event.
SetupBudget == Bounds(1, 1, 1, 1)
OneFault == Bounds(0, 0, 0, 1)

None == {}
PlistGone == {plist}
CollectorOnly == {collector}
BothRoles == {collector, search}
==============================================================================
