--------------------------- MODULE ReloadOverlap ---------------------------
(***************************************************************************)
(* A graceful reload: the new process boots while the worker threads of    *)
(* the old one still run.  ORPHAN_STALENESS_SECONDS (service.py) exists to *)
(* keep the boot-time reclaim of the new process off the operations of     *)
(* such workers.                                                           *)
(***************************************************************************)
EXTENDS ServerOperation

\* The new process has its own creation lock and its own _live_workers; the
\* old one answers no more requests.  Taken when no worker is just starting.
Reload ==
    /\ crashes < MaxCrashes
    /\ crashes' = crashes + 1
    /\ Serving
    /\ \A r \in Requests : pc[r] = "idle"
    /\ \A op \in Ops : pc[op] # "spawned"
    /\ Goto(Main, "boot")
    /\ lock' = NoThread
    /\ live' = {}
    /\ UNCHANGED <<row, age, obj, at, target, seen, worldVars, shown, audited, faults>>

NextWithReload == Next \/ Reload

SpecWithReload == Init /\ [][NextWithReload]_vars

\* "prevents a new worker from racing against a still-running worker in
\* graceful-reload scenarios": while a worker waits for the executor, which has
\* no heartbeat, its operation stays active.
ReloadSparesRestart == \A w \in Ops : pc[w] = "await" => Active(w)
=============================================================================
