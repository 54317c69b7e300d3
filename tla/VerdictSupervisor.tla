------------------------- MODULE VerdictSupervisor -------------------------
(***************************************************************************)
(* The supervisor of the Verdict helper (verdict_supervisor.rs), the       *)
(* switch it keeps in the settings file, which other settings are written  *)
(* to as well (envfile.rs), and the life of the daemon around it: orderly  *)
(* stop, death, start.  Time passes in health checks: HEALTH_INTERVAL_SECS *)
(* lie between two of them, and ages of restarts are counted in those.     *)
(***************************************************************************)
EXTENDS Naturals, FiniteSets

CONSTANTS
    Requests,         \* requests that may be under way at once
    RESTART_LIMIT,
    RESTART_WINDOW    \* RESTART_WINDOW_SECS in health checks

ASSUME SupervisorAssumption ==
    RESTART_LIMIT \in Nat /\ RESTART_WINDOW \in Nat \ {0}

VARIABLES
    env,        \* the settings file, as far as the switch goes
    daemon,     \* "up", "stopping" after shutdown(), "down"
    enabled,    \* Supervisor.enabled, .proc, .restarts, .failed
    proc,
    restarts,
    failed,
    orphan,     \* a helper runs that no supervisor owns
    requests,   \* request -> what it does and where it is, or Idle
    relaunched  \* ages of the restarts that no owner asked for: a history

supervisor == <<enabled, proc, restarts, failed>>

supervisorVars == <<env, daemon, supervisor, orphan, requests, relaunched>>

Ages == 0 .. RESTART_WINDOW

(* the line of the switch *)
Switch == {"on", "off", "missing"}

Request == [does : {"on", "off", "other"}, at : {"idle", "read", "create", "write", "apply"},
            seen : Switch]

Idle == [does |-> "other", at |-> "idle", seen |-> "missing"]

Failures == {"stopped", "needs_uv"}

SupervisorTypeOK ==
    /\ env \in Switch
    /\ daemon \in {"up", "stopping", "down"}
    /\ enabled \in BOOLEAN
    /\ proc \in {"alive", "exited", "none"}
    /\ restarts \subseteq Ages
    /\ failed \in Failures \cup {"none"}
    /\ orphan \in BOOLEAN
    /\ requests \in [Requests -> Request]
    /\ relaunched \subseteq Ages

SupervisorInit ==
    /\ env \in Switch /\ daemon = "down"
    /\ enabled = FALSE /\ proc = "none" /\ restarts = {} /\ failed = "none"
    /\ orphan \in BOOLEAN
    /\ requests = [r \in Requests |-> Idle]
    /\ relaunched = {}

-----------------------------------------------------------------------------
(* launch: RealHost kills a helper left over before it spawns its own; it  *)
(* may fail before or after that, or find no `uv` first of all.            *)
Launch ==
    \/ proc' = "alive" /\ failed' = "none" /\ orphan' = FALSE
    \/ proc' = proc /\ failed' = "needs_uv" /\ UNCHANGED orphan
    \/ proc' = proc /\ failed' = "stopped" /\ (orphan' = orphan \/ orphan' = FALSE)

Forgotten == proc' = proc   \* mutant

(* Supervisor::kill *)
Kill == proc' = "none"

(* Supervisor::set_enabled; the owner's word makes a new budget *)
SetEnabled(on) ==
    /\ enabled' = on
    /\ IF ~on THEN Kill /\ failed' = "none" /\ UNCHANGED <<restarts, orphan, relaunched>>
       ELSE IF proc = "none" THEN restarts' = {} /\ relaunched' = {} /\ Launch
       ELSE UNCHANGED <<proc, restarts, failed, orphan, relaunched>>

RetryOnlyStopped == enabled /\ failed = "stopped"   \* mutant

MayRetry == enabled /\ failed \in Failures

(* POST /verdict/retry *)
Retry ==
    /\ daemon \in {"up", "stopping"} /\ MayRetry
    /\ restarts' = {} /\ relaunched' = {} /\ Launch
    /\ UNCHANGED <<env, daemon, enabled, requests>>

Older(ages) == {a + 1 : a \in ages} \cap Ages

(* `retain`: those inside the window *)
Recent == {a \in Older(restarts) : a < RESTART_WINDOW}

BudgetNeverSpent == FALSE   \* mutant

BudgetSpent == Cardinality(Recent) >= RESTART_LIMIT

ExitNotNoticed == FALSE   \* mutant

Exited == proc = "exited"

GiveUp == /\ proc' = "none" /\ restarts' = Recent /\ failed' = "stopped" /\ UNCHANGED orphan

(* launch from tick, where proc was set to None *)
Relaunch ==
    /\ restarts' = Recent \cup {0}
    /\ \/ proc' = "alive" /\ failed' = "none" /\ orphan' = FALSE
       \/ proc' = "none" /\ failed' = "needs_uv" /\ UNCHANGED orphan
       \/ proc' = "none" /\ failed' = "stopped" /\ (orphan' = orphan \/ orphan' = FALSE)

(* Supervisor::tick, each HEALTH_INTERVAL_SECS *)
Tick ==
    /\ daemon = "up"
    /\ IF ~Exited THEN /\ restarts' = Older(restarts) /\ relaunched' = Older(relaunched)
                       /\ UNCHANGED <<proc, failed, orphan>>
       ELSE IF BudgetSpent THEN GiveUp /\ relaunched' = Older(relaunched)
       ELSE Relaunch /\ relaunched' = Older(relaunched) \cup {0}
    /\ UNCHANGED <<env, daemon, enabled, requests>>

-----------------------------------------------------------------------------
(* Requests that write the settings file: read it, write it whole, and for *)
(* the switch apply it under the supervisor's lock.                        *)

Ask(r, does) ==
    /\ daemon = "up" /\ requests[r] = Idle
    /\ requests' = [requests EXCEPT ![r] = [does |-> does, at |-> "read", seen |-> "missing"]]
    /\ UNCHANGED <<env, daemon, supervisor, orphan, relaunched>>

AskedAt(r, stage) == requests[r].at = stage

(* envfile::upsert: read_to_string *)
ReadFile(r) ==
    /\ AskedAt(r, "read")
    /\ requests' = [requests EXCEPT ![r].at = "create", ![r].seen = env]
    /\ UNCHANGED <<env, daemon, supervisor, orphan, relaunched>>

(* fs::write empties the file *)
CreateFile(r) ==
    /\ AskedAt(r, "create")
    /\ env' = "missing"
    /\ requests' = [requests EXCEPT ![r].at = "write"]
    /\ UNCHANGED <<daemon, supervisor, orphan, relaunched>>

Upserted(seen, does) == IF does = "other" THEN seen ELSE does

(* and writes every line that was read, its own replaced *)
WriteFile(r) ==
    /\ AskedAt(r, "write")
    /\ env' = Upserted(requests[r].seen, requests[r].does)
    /\ requests' = [requests EXCEPT ![r] =
           IF @.does = "other" THEN Idle ELSE [@ EXCEPT !.at = "apply", !.seen = "missing"]]
    /\ UNCHANGED <<daemon, supervisor, orphan, relaunched>>

(* create_dir_all, or fs::write before or after it emptied the file, fails *)
(* and the request ends with nothing applied.                              *)
UpsertFails(r) ==
    /\ \E stage \in {"read", "create", "write"} : AskedAt(r, stage)
    /\ requests' = [requests EXCEPT ![r] = Idle]
    /\ UNCHANGED <<env, daemon, supervisor, orphan, relaunched>>

Apply(r) ==
    /\ AskedAt(r, "apply")
    /\ SetEnabled(requests[r].does = "on")
    /\ requests' = [requests EXCEPT ![r] = Idle]
    /\ UNCHANGED <<env, daemon>>

-----------------------------------------------------------------------------
(* The daemon and the helper. *)

HelperExits ==
    /\ \/ proc = "alive" /\ proc' = "exited" /\ orphan' = orphan
       \/ orphan /\ orphan' = FALSE /\ proc' = proc
    /\ UNCHANGED <<env, daemon, enabled, restarts, failed, requests, relaunched>>

(* spawn(): a new supervisor, the switch as the file has it *)
DaemonStarts ==
    /\ daemon = "down" /\ daemon' = "up"
    /\ enabled' = (env # "off")
    /\ restarts' = {}
    /\ IF env # "off" THEN Launch ELSE UNCHANGED <<proc, failed, orphan>>
    /\ UNCHANGED <<env, requests, relaunched>>

(* SIGTERM: the health checks stop, shutdown() kills the helper *)
DaemonStops ==
    /\ daemon = "up" /\ daemon' = "stopping"
    /\ Kill
    /\ UNCHANGED <<env, enabled, restarts, failed, orphan, requests, relaunched>>

Gone ==
    /\ daemon' = "down"
    /\ enabled' = FALSE /\ proc' = "none" /\ restarts' = {} /\ failed' = "none"
    /\ orphan' = (orphan \/ proc = "alive")
    /\ requests' = [r \in Requests |-> Idle]
    /\ relaunched' = {}
    /\ UNCHANGED env

(* the runtime waits for the blocking calls that have begun *)
DaemonExits ==
    /\ daemon = "stopping" /\ \A r \in Requests : requests[r] = Idle
    /\ Gone

DaemonDies == daemon # "down" /\ Gone

RequestStep(r) ==
    ReadFile(r) \/ CreateFile(r) \/ WriteFile(r) \/ UpsertFails(r) \/ Apply(r)

SupervisorNext ==
    \/ Tick \/ Retry \/ HelperExits
    \/ DaemonStarts \/ DaemonStops \/ DaemonExits \/ DaemonDies
    \/ \E r \in Requests : RequestStep(r) \/ \E does \in {"on", "off", "other"} : Ask(r, does)

SupervisorSpec == SupervisorInit /\ [][SupervisorNext]_supervisorVars

SupervisorFairness ==
    /\ WF_supervisorVars(Tick) /\ WF_supervisorVars(DaemonExits)
    /\ \A r \in Requests : WF_supervisorVars(RequestStep(r))

-----------------------------------------------------------------------------
(* There is no state the owner cannot get out of: while the switch is on,  *)
(* either a helper runs or is about to be noticed as gone, or a failure is *)
(* shown that Retry answers (tick and retry do nothing without one).       *)
NeverStuck ==
    daemon = "up" /\ enabled => proc # "none" \/ MayRetry

(* A helper runs only while the switch is on and no failure is shown, and  *)
(* a helper left over by a dead daemon never runs beside it, so that the   *)
(* port is free (set_enabled, launch, kill_stale_helper).                  *)
OneHelper ==
    /\ proc # "none" => enabled /\ failed = "none"
    /\ proc = "alive" => ~orphan

(* A helper that keeps crashing is restarted at most RESTART_LIMIT times   *)
(* in any window, unless the owner asks (FR-03).                           *)
RestartsAreRationed ==
    Cardinality({a \in relaunched : a < RESTART_WINDOW}) <= RESTART_LIMIT

(* A crash is answered: the helper is started again or its failure shown,  *)
(* or the switch is turned or the daemon goes first.                       *)
CrashIsAnswered ==
    (daemon = "up" /\ proc = "exited")
        ~> (proc = "alive" \/ failed # "none" \/ ~enabled \/ daemon # "up")
=============================================================================
