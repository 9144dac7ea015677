------------------------- MODULE OwnedEnvironments --------------------------
(* The Docker environments of one Run: the resources an invocation creates   *)
(* under names of its own, the ledger that names them durably before they    *)
(* exist, the watcher that outlives its owner, and the reconciliation every  *)
(* continuation starts with (isolated_worker.py, owner_watch.py, and         *)
(* reconcile of container.py).                                               *)
(*                                                                           *)
(* The Docker daemon carries out a request of a client that is gone, or      *)
(* drops it, at any later time, and any removal may fail or hang.            *)

EXTENDS Naturals

CONSTANTS
  Env,       \* environments: each has a fresh name and is used once
  Gateway,   \* environments with a network and a proxy of their own
  Thread,    \* threads of the Run's controller
  NoThread

ASSUME EnvironmentAssumption == Gateway \subseteq Env /\ NoThread \notin Thread

VARIABLES
  controller,  \* "down", "reconcile" or "up": the holder of the Run's lock
  swept,       \* ledger entries this reconciliation has removed or found absent
  thread,      \* whether a thread may go on invoking
  docker,      \* what the daemon has, or still may create
  ledger,      \* the last state recorded for a resource
  at,          \* where the owner of an environment stands
  user,        \* the thread that opened it
  pending,     \* pending_creations
  known,       \* confirmed_resources
  named,       \* resources close would remove
  tried,       \* resources this close has tried to remove
  raised,      \* the exception its owner propagates
  watcher,     \* the ownership watcher
  clear,       \* resources the watcher's round has confirmed
  window       \* environments whose in-flight-creation window is over

daemon == <<docker, ledger>>
candidate == <<at, user, pending, known, named, tried, raised>>
watch == <<watcher, clear, window>>
vars == <<controller, swept, thread, daemon, candidate, watch>>

Resource == {"network", "proxy", "container"}
Wanted(e) == IF e \in Gateway THEN Resource ELSE {"container"}

(* Resources are created in this order and removed in the opposite one.      *)
Rank == [network |-> 1, proxy |-> 2, container |-> 3]
First(r, set) == r \in set /\ \A s \in set : Rank[r] <= Rank[s]
Last(r, set) == r \in set /\ \A s \in set : Rank[s] <= Rank[r]

TypeOK ==
  /\ controller \in {"down", "reconcile", "up"}
  /\ swept \subseteq Env \X Resource
  /\ thread \in [Thread -> {"on", "off"}]
  /\ docker \in [Env -> [Resource -> {"absent", "inflight", "present"}]]
  /\ ledger \in [Env -> [Resource -> {"none", "intent", "created", "removed"}]]
  /\ at \in [Env -> {"unused", "open", "asked", "session", "closing", "closed"}]
  /\ user \in [Env -> Thread \cup {NoThread}]
  /\ pending \in [Env -> SUBSET Resource] /\ known \in [Env -> SUBSET Resource]
  /\ named \in [Env -> SUBSET Resource] /\ tried \in [Env -> SUBSET Resource]
  /\ \A e \in Env : pending[e] \cap known[e] = {} /\ known[e] \subseteq Wanted(e)
  /\ raised \in [Env -> {"none", "timeout", "error"}]
  /\ watcher \in [Env -> {"none", "watching", "cleaning", "released", "finished", "dead"}]
  /\ clear \in [Env -> SUBSET Resource]
  /\ window \subseteq Env

Init ==
  /\ controller = "down" /\ swept = {}
  /\ thread = [t \in Thread |-> "off"]
  /\ docker = [e \in Env |-> [r \in Resource |-> "absent"]]
  /\ ledger = [e \in Env |-> [r \in Resource |-> "none"]]
  /\ at = [e \in Env |-> "unused"] /\ user = [e \in Env |-> NoThread]
  /\ pending = [e \in Env |-> {}] /\ known = [e \in Env |-> {}]
  /\ named = [e \in Env |-> {}] /\ tried = [e \in Env |-> {}]
  /\ raised = [e \in Env |-> "none"]
  /\ watcher = [e \in Env |-> "none"] /\ clear = [e \in Env |-> {}] /\ window = {}

Live(e) == at[e] \notin {"unused", "closed"}
Moves(e, place) == at' = [at EXCEPT ![e] = place]
Records(e, r, state) == ledger' = [ledger EXCEPT ![e][r] = state]

-----------------------------------------------------------------------------
(* The Docker daemon.                                                        *)

(* A request in flight is carried out or dropped.                            *)
DaemonCreates(e, r) ==
  /\ docker[e][r] = "inflight"
  /\ \E outcome \in {"present", "absent"} : docker' = [docker EXCEPT ![e][r] = outcome]
  /\ UNCHANGED <<controller, swept, thread, ledger, candidate, watch>>

(* docker rm: a network is not removed under the containers attached to it,  *)
(* which are attached once their creation was confirmed.  A missing name is  *)
(* a confirmation, also while its creation is in flight.                     *)
Removable(e, r) ==
  r = "network" =>
    \A s \in Resource \ {r} : docker[e][s] = "present" => ledger[e][s] = "intent"

Gone(e, r) ==
  docker' = [docker EXCEPT ![e][r] = IF @ = "present" THEN "absent" ELSE @]

-----------------------------------------------------------------------------
(* The controller.                                                           *)

Begin ==
  /\ controller = "down"
  /\ controller' = "reconcile"
  /\ UNCHANGED <<swept, thread, daemon, candidate, watch>>

Named(e, r) == ledger[e][r] \notin {"none", "removed"}

(* reconcile removes every resource a ledger names and does not call removed.*)
ReconcileRemoves(e, r) ==
  /\ controller = "reconcile" /\ Named(e, r) /\ <<e, r>> \notin swept
  /\ Removable(e, r)
  /\ r = "network" => \A s \in Resource \ {r} : Named(e, s) => <<e, s>> \in swept
  /\ Gone(e, r)
  /\ IF ledger[e][r] = "created" THEN Records(e, r, "removed") ELSE UNCHANGED ledger
  /\ swept' = swept \cup {<<e, r>>}
  /\ UNCHANGED <<controller, thread, candidate, watch>>

(* RESOURCE_CLEANUP_UNCONFIRMED.                                             *)
ReconcileFails ==
  /\ controller = "reconcile"
  /\ controller' = "down" /\ swept' = {}
  /\ UNCHANGED <<thread, daemon, candidate, watch>>

(* Mutated form: an intent that was swept counts as reconciled.              *)
ReconcileEndsTrusting ==
  /\ controller = "reconcile"
  /\ \A e \in Env, r \in Resource : Named(e, r) => <<e, r>> \in swept
  /\ controller' = "up" /\ swept' = {}
  /\ thread' = [t \in Thread |-> "on"]
  /\ UNCHANGED <<daemon, candidate, watch>>

(* RESOURCE_CREATION_UNCERTAIN: an intent is never reconciled away.          *)
ReconcileEnds ==
  /\ controller = "reconcile"
  /\ \A e \in Env, r \in Resource : Named(e, r) => <<e, r>> \in swept
  /\ IF \E e \in Env, r \in Resource : ledger[e][r] = "intent"
     THEN controller' = "down" /\ UNCHANGED thread
     ELSE controller' = "up" /\ thread' = [t \in Thread |-> "on"]
  /\ swept' = {}
  /\ UNCHANGED <<daemon, candidate, watch>>

Exit ==
  /\ controller = "up" /\ \A e \in Env : ~Live(e)
  /\ controller' = "down" /\ thread' = [t \in Thread |-> "off"]
  /\ UNCHANGED <<swept, daemon, candidate, watch>>

(* The process dies: the watchers read the end of their pipes.               *)
Crash ==
  /\ controller # "down"
  /\ controller' = "down" /\ swept' = {} /\ thread' = [t \in Thread |-> "off"]
  /\ at' = [e \in Env |-> IF Live(e) THEN "closed" ELSE at[e]]
  /\ pending' = [e \in Env |-> {}] /\ known' = [e \in Env |-> {}]
  /\ named' = [e \in Env |-> {}] /\ tried' = [e \in Env |-> {}]
  /\ raised' = [e \in Env |-> "none"]
  /\ watcher' = [e \in Env |-> IF watcher[e] = "watching" THEN "cleaning" ELSE watcher[e]]
  /\ UNCHANGED <<daemon, user, clear, window>>

-----------------------------------------------------------------------------
(* One environment, from __enter__ to close.                                 *)

(* The watcher is running before anything is created.                        *)
Open(t, e) ==
  /\ controller = "up" /\ thread[t] = "on" /\ at[e] = "unused"
  /\ \A f \in Env : user[f] = t => ~Live(f)
  /\ Moves(e, "open")
  /\ user' = [user EXCEPT ![e] = t]
  /\ named' = [named EXCEPT ![e] = Wanted(e) \ {"container"}]
  /\ watcher' = [watcher EXCEPT ![e] = "watching"]
  /\ UNCHANGED <<controller, swept, thread, daemon, pending, known, tried, raised, clear, window>>

Missing(e) == Wanted(e) \ known[e]

(* Mutated form: the ledger learns of a resource once it exists.             *)
AskUnrecorded(e, r) ==
  /\ at[e] = "open" /\ First(r, Missing(e)) /\ watcher[e] # "dead"
  /\ pending' = [pending EXCEPT ![e] = @ \cup {r}]
  /\ named' = [named EXCEPT ![e] = @ \cup {r}]
  /\ docker' = [docker EXCEPT ![e][r] = "inflight"]
  /\ Moves(e, "asked")
  /\ UNCHANGED <<controller, swept, thread, ledger, user, known, tried, raised, watch>>

(* The intent is durable, then the daemon is asked to create.                *)
Ask(e, r) ==
  /\ at[e] = "open" /\ First(r, Missing(e)) /\ watcher[e] # "dead"
  /\ Records(e, r, "intent")
  /\ pending' = [pending EXCEPT ![e] = @ \cup {r}]
  /\ named' = [named EXCEPT ![e] = @ \cup {r}]
  /\ docker' = [docker EXCEPT ![e][r] = "inflight"]
  /\ Moves(e, "asked")
  /\ UNCHANGED <<controller, swept, thread, user, known, tried, raised, watch>>

(* The daemon replied: the creation is confirmed in memory and the ledger.   *)
Created(e, r) ==
  /\ at[e] = "asked" /\ First(r, Missing(e)) /\ docker[e][r] = "present" /\ watcher[e] # "dead"
  /\ Records(e, r, "created")
  /\ known' = [known EXCEPT ![e] = @ \cup {r}]
  /\ pending' = [pending EXCEPT ![e] = @ \ {r}]
  /\ Moves(e, "open")
  /\ UNCHANGED <<controller, swept, thread, docker, user, named, tried, raised, watch>>

Ready(e) ==
  /\ at[e] = "open" /\ Missing(e) = {}
  /\ Moves(e, "session")
  /\ UNCHANGED <<controller, swept, thread, daemon, user, pending, known, named, tried, raised, watch>>

(* close begins: after the session, after a cancellation or a deadline (the  *)
(* client is killed, the request is not), or after a failure such as a       *)
(* nonzero exit, a failed probe or a lost watcher.                           *)
Close(e) ==
  /\ \/ at[e] = "session" /\ raised' = [raised EXCEPT ![e] = "none"]
     \/ at[e] \in {"open", "asked", "session"} /\ raised' = [raised EXCEPT ![e] = "timeout"]
     \/ /\ \/ at[e] \in {"open", "session"}
           \/ at[e] = "asked" /\ (watcher[e] = "dead" \/ \A r \in Resource : docker[e][r] # "inflight")
        /\ raised' = [raised EXCEPT ![e] = "error"]
  /\ Moves(e, "closing")
  /\ tried' = [tried EXCEPT ![e] = {}]
  /\ UNCHANGED <<controller, swept, thread, daemon, user, pending, known, named, watch>>

Untried(e) == named[e] \ tried[e]

CloseRemoves(e, r) ==
  /\ at[e] = "closing" /\ Last(r, Untried(e)) /\ Removable(e, r)
  /\ Gone(e, r)
  /\ IF r \in known[e] THEN Records(e, r, "removed") ELSE UNCHANGED ledger
  /\ named' = [named EXCEPT ![e] = @ \ {r}]
  /\ UNCHANGED <<controller, swept, thread, at, user, pending, known, tried, raised, watch>>

CloseRemovalFails(e, r) ==
  /\ at[e] = "closing" /\ Last(r, Untried(e))
  /\ tried' = [tried EXCEPT ![e] = @ \cup {r}]
  /\ UNCHANGED <<controller, swept, thread, daemon, at, user, pending, known, named, raised, watch>>

(* The end of close: the watcher is released when every removal and every    *)
(* creation is confirmed, and reads the end of its pipe otherwise.           *)
Lets(e, confirmed) ==
  watcher' = [watcher EXCEPT ![e] =
    IF @ # "watching" THEN @ ELSE IF confirmed THEN "released" ELSE "cleaning"]

(* An adapter error ends the thread; a timeout is retried, or ends it too.   *)
(* What the owner kept in memory is gone with it.                            *)
Ends(e, exception) ==
  /\ Moves(e, "closed")
  /\ raised' = [raised EXCEPT ![e] = "none"]
  /\ pending' = [pending EXCEPT ![e] = {}] /\ known' = [known EXCEPT ![e] = {}]
  /\ named' = [named EXCEPT ![e] = {}] /\ tried' = [tried EXCEPT ![e] = {}]
  /\ \/ exception # "error" /\ UNCHANGED thread
     \/ exception # "none" /\ thread' = [thread EXCEPT ![user[e]] = "off"]

(* Mutated form: what was never confirmed to exist needs no watcher.         *)
CloseEndsConfirmed(e) ==
  /\ at[e] = "closing" /\ named[e] = {}
  /\ Lets(e, TRUE)
  /\ Ends(e, raised[e])
  /\ UNCHANGED <<controller, swept, daemon, user, clear, window>>

CloseEnds(e) ==
  /\ at[e] = "closing" /\ named[e] = {}
  /\ Lets(e, pending[e] = {})
  /\ Ends(e, raised[e])
  /\ UNCHANGED <<controller, swept, daemon, user, clear, window>>

(* A close begun inside _docker is followed by the one of the context.       *)
ClosesAgain(e) ==
  /\ raised[e] = "timeout"
  /\ raised' = [raised EXCEPT ![e] = "error"]
  /\ tried' = [tried EXCEPT ![e] = {}]
  /\ UNCHANGED <<at, thread, pending, known, named>>

(* A removal failed, which is a RuntimeError after the others were tried, or *)
(* it hangs, which leaves close at once.                                     *)
CloseFails(e) ==
  /\ at[e] = "closing" /\ named[e] # {}
  /\ Lets(e, FALSE)
  /\ ClosesAgain(e) \/ Ends(e, "error")
  /\ UNCHANGED <<controller, swept, daemon, user, clear, window>>

-----------------------------------------------------------------------------
(* The watcher of an environment.                                            *)

WatcherDies(e) ==
  /\ watcher[e] \in {"watching", "cleaning"}
  /\ watcher' = [watcher EXCEPT ![e] = "dead"]
  /\ UNCHANGED <<controller, swept, thread, daemon, candidate, clear, window>>

(* Mutated form: the watcher knows of the container only.                    *)
WatcherRemovesContainer(e, r) ==
  /\ watcher[e] = "cleaning" /\ r \in {"container"} \ clear[e] /\ Removable(e, r)
  /\ Gone(e, r)
  /\ clear' = [clear EXCEPT ![e] = @ \cup {r}]
  /\ UNCHANGED <<controller, swept, thread, ledger, candidate, watcher, window>>

(* One removal of a round; one that fails is made again in the next round.   *)
WatcherRemoves(e, r) ==
  /\ watcher[e] = "cleaning" /\ r \in Wanted(e) \ clear[e] /\ Removable(e, r)
  /\ Gone(e, r)
  /\ clear' = [clear EXCEPT ![e] = @ \cup {r}]
  /\ UNCHANGED <<controller, swept, thread, ledger, candidate, watcher, window>>

WindowPasses(e) ==
  /\ watcher[e] = "cleaning" /\ e \notin window
  /\ window' = window \cup {e}
  /\ UNCHANGED <<controller, swept, thread, daemon, candidate, watcher, clear>>

Finishes(e) ==
  /\ watcher' = [watcher EXCEPT ![e] = "finished"]
  /\ clear' = [clear EXCEPT ![e] = {}] /\ window' = window \ {e}

NextRound(e) == clear' = [clear EXCEPT ![e] = {}] /\ UNCHANGED <<watcher, window>>

(* Mutated form: the watcher gives up when the window is over.               *)
RoundEndsInAnyCase(e) ==
  /\ watcher[e] = "cleaning"
  /\ IF e \in window THEN Finishes(e) ELSE NextRound(e)
  /\ UNCHANGED <<controller, swept, thread, daemon, candidate>>

(* A round is over: done when the window is and every name was confirmed;    *)
(* a name that was never asked for is confirmed by any attempt.              *)
RoundEnds(e) ==
  /\ watcher[e] = "cleaning"
  /\ IF e \in window /\ Wanted(e) \subseteq clear[e] THEN Finishes(e) ELSE NextRound(e)
  /\ UNCHANGED <<controller, swept, thread, daemon, candidate>>

ResourceStep(e, r) ==
  \/ DaemonCreates(e, r) \/ ReconcileRemoves(e, r) \/ WatcherRemoves(e, r)
  \/ Ask(e, r) \/ Created(e, r) \/ CloseRemoves(e, r) \/ CloseRemovalFails(e, r)

EnvStep(e) ==
  \/ Ready(e) \/ Close(e) \/ CloseEnds(e) \/ CloseFails(e)
  \/ WatcherDies(e) \/ WindowPasses(e) \/ RoundEnds(e)

Next ==
  \/ Begin \/ ReconcileFails \/ ReconcileEnds \/ Exit \/ Crash
  \/ \E t \in Thread, e \in Env : Open(t, e)
  \/ \E e \in Env : EnvStep(e)
  \/ \E e \in Env, r \in Resource : ResourceStep(e, r)

Spec == Init /\ [][Next]_vars

(* The daemon answers the watcher sooner or later; nothing else is promised. *)
Fairness == \A e \in Env, r \in Resource : WF_vars(WatcherRemoves(e, r))

FairSpec == Spec /\ Fairness

-----------------------------------------------------------------------------
(* What exists, or may still come to exist, is named by the ledger as not    *)
(* removed, whoever died between the request, the reply and the record.      *)
NothingForgotten ==
  \A e \in Env, r \in Resource : docker[e][r] # "absent" => Named(e, r)

(* A controller continues a Run only when no resource of an earlier one      *)
(* exists and none can appear any more (reconcile).                          *)
ContinuesClean ==
  [][controller = "reconcile" /\ controller' = "up" =>
       \A e \in Env, r \in Resource : docker[e][r] = "absent"]_vars

(* What the host of the Docker daemon is promised (ResourceCustody): each    *)
(* name is used once and only by a running controller, what is recorded      *)
(* stays recorded until it is gone for good, and no Run continues before.    *)
ResourceName == Env \X Resource
Record ==
  [n \in ResourceName |->
     CASE ledger[n[1]][n[2]] = "none" -> "fresh"
       [] ledger[n[1]][n[2]] = "removed" -> "struck"
       [] OTHER -> "recorded"]
Existing == {n \in ResourceName : docker[n[1]][n[2]] # "absent"}
Custody == INSTANCE ResourceCustody WITH
  Name <- ResourceName, running <- controller = "up", record <- Record, existing <- Existing
CustodyKept == Custody!Spec

(* A watcher is released only when its environment is gone for good (close). *)
ReleasedMeansGone ==
  \A e \in Env : watcher[e] = "released" => \A r \in Resource : docker[e][r] = "absent"

(* What outlives a watcher that finished is a resource whose creation nobody *)
(* confirmed: its intent blocks every continuation of the Run (watch).       *)
OnlyIntentsOutliveWatcher ==
  \A e \in Env, r \in Resource :
    watcher[e] = "finished" /\ docker[e][r] # "absent" => ledger[e][r] = "intent"

(* Once its owner is lost, every resource whose creation was confirmed       *)
(* disappears, unless the watcher is killed as well.                         *)
LostOwnerReleases ==
  \A e \in Env : watcher[e] = "cleaning" ~>
    \/ watcher[e] = "dead"
    \/ \A r \in Resource : ledger[e][r] # "intent" => docker[e][r] = "absent"

=============================================================================
