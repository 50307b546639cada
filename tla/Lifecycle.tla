----------------------------- MODULE Lifecycle ------------------------------
(***************************************************************************)
(* The life of one process in time: main.rs from the start to the exit,    *)
(* the state behind /healthz (health.rs), the SIGTERM handler, and the     *)
(* watchers as far as main and the endpoint see them: which call they wait *)
(* for, with its retries, and how it ends.  What a pass writes is the      *)
(* business of Resources.                                                  *)
(*                                                                         *)
(* There is one thread.  A task in a stretch without awaits holds it, and  *)
(* while it does (slow file operations) time passes and nobody else runs.  *)
(* Otherwise whatever is due happens before time goes on.                  *)
(***************************************************************************)
EXTENDS Retry, FiniteSets

CONSTANTS
    Pairs,       \* the (kind, namespace) pairs, one watcher each
    Modes,       \* the values METHOD may have: "WATCH", "SLEEP", "LIST"
    CallTime,    \* how long a call may be unanswered (its client's timeout)
    Rest,        \* SLEEP_TIME and ERROR_THROTTLE_SLEEP
    Extra,       \* bound on the further pages and .url fetches of a pass
    Period,      \* the sleep of the monitor loop, 5 seconds
    Threshold    \* K8S_CONTACT_THRESHOLD_SECONDS, 60

VARIABLES
    mode,        \* METHOD
    main,        \* where run() is, and the time left of what it awaits
    handler,     \* the SIGTERM handler is installed
    signal,      \* SIGTERM: "none", "caught", or "lost" before the handler
    watcher,     \* the call or sleep each pair is in
    synced,      \* the pairs whose initial pass is complete
    listening,   \* the health server is bound
    ready,       \* Health.ready
    registered,  \* Health.watchers is filled
    contact,     \* the age of last_contact_ms, up to Threshold + 1
    answer,      \* what the endpoint has just answered
    silent,      \* auxiliary: time for which no watcher got or uses an answer
    stalled,     \* auxiliary: the part of contact during which a task held the thread
    overdue,     \* auxiliary: time since a watcher died, without stalls
    bootAge      \* auxiliary: length of the initial sync, without stalls and scripts

health == <<listening, ready, registered>>
ages == <<contact, silent, stalled, overdue, bootAge>>
vars == <<mode, main, handler, signal, watcher, synced, health, answer, ages>>

ASSUME LifecycleAssumption ==
    /\ IsFiniteSet(Pairs) /\ Pairs # {}
    /\ Modes \subseteq {"WATCH", "SLEEP", "LIST"}
    /\ CallTime \in Nat \ {0} /\ Rest \in Nat \ {0} /\ Extra \in Nat
    /\ Period \in Nat \ {0} /\ Threshold \in Nat /\ Period <= Threshold
-----------------------------------------------------------------------------
Watcher == [pc: {"off", "list", "busy", "fetch", "script", "request", "connect", "watch",
                 "sleep", "dead"},
            try: 0..Total, asleep: BOOLEAN, timer: Nat, extra: 0..Extra]
At(pc) == [pc |-> pc, try |-> 0, asleep |-> FALSE, timer |-> 0, extra |-> 0]
For(pc, time) == [At(pc) EXCEPT !.timer = time]
Busy(extra) == [At("busy") EXCEPT !.extra = extra]

(* Attempt n of a call: the delay before it, if any, then the call itself. *)
Attempt(pc, n, extra) ==
    [pc |-> pc, try |-> n, asleep |-> Delay(n) > 0, extra |-> extra,
     timer |-> IF Delay(n) > 0 THEN Delay(n) ELSE CallTime]
Again(p) == Attempt(watcher[p].pc, watcher[p].try + 1, watcher[p].extra)

InFlight(p, pc) == watcher[p].pc = pc /\ ~watcher[p].asleep
Outcomes(p, all) == IF watcher[p].timer = 0 THEN {"transport"} ELSE all

Alive == main.pc \in {"start", "version", "boot", "spawn", "monitor"}
Booting == main.pc = "boot"
Dead(p) == watcher[p].pc = "dead"

(* The thread: main's stretches, and those in which files are written. *)
FreeOfPasses == \A p \in Pairs : watcher[p].pc # "busy"       \* mutant: main has its own
Free == main.pc \notin {"start", "spawn"} /\ \A p \in Pairs : watcher[p].pc # "busy"

Exit(status) ==
    /\ main' = [pc |-> status, left |-> 0]
    /\ watcher' = [p \in Pairs |-> At("off")]

Set(p, state) == watcher' = [watcher EXCEPT ![p] = state] /\ UNCHANGED main

Heard == silent' = 0 /\ UNCHANGED <<contact, stalled, overdue, bootAge>>
update_k8s_contact == contact' = 0 /\ stalled' = 0
-----------------------------------------------------------------------------
(***************************************************************************)
(* main: start, initial sync, spawning                                     *)
(***************************************************************************)
(* Without a listener the process goes on, and nobody answers probes. *)
bind_listener == BOOLEAN
start_health_server == listening' \in bind_listener

(* Up to the first await: flags, LOG_CONFIG, LABEL, FOLDER and the client's  *)
(* configuration may end the process; the health server is bound or not.     *)
Start ==
    /\ main.pc = "start"
    /\ \/ \E status \in {"exit0", "exit1", "exit2"} : Exit(status)
       \/ /\ main' \in {[pc |-> "version", left |-> CallTime], [pc |-> "boot", left |-> 0]}
          /\ UNCHANGED watcher
    /\ start_health_server
    /\ UNCHANGED <<mode, handler, signal, synced, ready, registered, ages>>

(* The spawned handler task runs as soon as main awaits something. *)
Install ==
    /\ ~handler
    /\ Alive /\ Free
    /\ handler' = TRUE
    /\ UNCHANGED <<mode, main, signal, watcher, synced, health, ages>>

(* server_version has no retry and no error; the namespace file may be missing. *)
AskVersion ==
    /\ main.pc = "version"
    /\ Free
    /\ \/ main' = [pc |-> "boot", left |-> 0] /\ UNCHANGED watcher
       \/ Exit("exit1")
    /\ UNCHANGED <<mode, handler, signal, synced, health, ages>>

Idle == \A p \in Pairs : watcher[p].pc = "off"

(* The loops over kinds and namespaces: one pass after the other. *)
BeginSync(p) ==
    /\ Booting /\ Free
    /\ Idle /\ p \notin synced
    /\ Set(p, Attempt("list", 0, Extra))
    /\ UNCHANGED <<mode, handler, signal, synced, health, ages>>

(* METHOD=LIST returns; otherwise main spawns the watchers without an await. *)
mark_ready ==
    /\ Booting /\ Free
    /\ synced = Pairs
    /\ ready' = TRUE
    /\ IF mode = "LIST" THEN Exit("exit0")
       ELSE main' = [pc |-> "spawn", left |-> 0] /\ UNCHANGED watcher
    /\ bootAge' = 0
    /\ UNCHANGED <<mode, handler, signal, synced, listening, registered, contact, silent,
                   stalled, overdue>>

(* A spawned watcher begins a pass, or a watch. *)
Loop == IF mode = "SLEEP" THEN Attempt("list", 0, Extra) ELSE For("connect", CallTime)

Spawn(p) ==
    /\ main.pc = "spawn"
    /\ watcher[p].pc = "off"
    /\ Set(p, Loop)
    /\ UNCHANGED <<mode, handler, signal, synced, health, ages>>

(* The first round of the monitor loop follows without an await. *)
register_watchers ==
    /\ main.pc = "spawn"
    /\ \A p \in Pairs : watcher[p].pc # "off"
    /\ registered' = TRUE
    /\ main' = [pc |-> "monitor", left |-> Period]
    /\ update_k8s_contact
    /\ UNCHANGED <<mode, handler, signal, watcher, synced, listening, ready,
                   silent, overdue, bootAge>>

(* Mutants: the contact is left to the watchers; all must be dead. *)
MonitorOnly ==
    /\ main.pc = "monitor" /\ main.left = 0
    /\ Free
    /\ IF \E p \in Pairs : Dead(p) THEN Exit("exit1")
       ELSE main' = [main EXCEPT !.left = Period] /\ UNCHANGED watcher
    /\ UNCHANGED <<mode, handler, signal, synced, health, ages>>
MonitorAll ==
    /\ main.pc = "monitor" /\ main.left = 0
    /\ Free
    /\ IF \A p \in Pairs : Dead(p) THEN Exit("exit1")
       ELSE main' = [main EXCEPT !.left = Period] /\ UNCHANGED watcher
    /\ update_k8s_contact
    /\ UNCHANGED <<mode, handler, signal, synced, health, silent, overdue, bootAge>>

(* The monitor loop: the contact first, then the watchers, then the sleep. *)
Monitor ==
    /\ main.pc = "monitor" /\ main.left = 0
    /\ Free
    /\ IF \E p \in Pairs : Dead(p) THEN Exit("exit1")
       ELSE main' = [main EXCEPT !.left = Period] /\ UNCHANGED watcher
    /\ update_k8s_contact
    /\ UNCHANGED <<mode, handler, signal, synced, health, silent, overdue, bootAge>>
-----------------------------------------------------------------------------
(***************************************************************************)
(* A pass or a watch of one pair                                           *)
(***************************************************************************)
(* The delay before an attempt is over, or the sleep before the next round. *)
WakeUp(p) ==
    /\ Alive /\ Free
    /\ watcher[p].timer = 0
    /\ \/ watcher[p].asleep /\ Set(p, [watcher[p] EXCEPT !.asleep = FALSE, !.timer = CallTime])
       \/ watcher[p].pc = "sleep" /\ Set(p, Loop)
    /\ UNCHANGED <<mode, handler, signal, synced, health, ages>>

(* An error ends the process during the initial sync; a watcher dies of an   *)
(* API error 500 and throttles after any other.                              *)
Fail(p, outcome) ==
    IF Booting THEN Exit("exit1")
    ELSE Set(p, IF outcome = "error500" THEN At("dead") ELSE For("sleep", Rest))

(* list_page, or read_named, with its transport retries; another may follow. *)
ListPage(p) ==
    /\ InFlight(p, "list") /\ Free
    /\ \E outcome \in Outcomes(p, ApiOutcomes) :
         \/ /\ outcome = "answer" /\ Heard
            /\ \/ Set(p, Busy(watcher[p].extra))
               \/ /\ watcher[p].extra > 0
                  /\ Set(p, Attempt("list", 0, watcher[p].extra - 1))
         \/ /\ outcome # "answer" /\ UNCHANGED ages
            /\ IF TransportGoesOn(watcher[p].try, outcome)
               THEN Set(p, Again(p)) ELSE Fail(p, outcome)
    /\ UNCHANGED <<mode, handler, signal, synced, health>>

(* watch_items makes one attempt only. *)
Connect(p) ==
    /\ InFlight(p, "connect") /\ Free
    /\ \E outcome \in Outcomes(p, ApiOutcomes) :
         IF outcome = "answer" THEN Set(p, At("watch")) /\ Heard
         ELSE Fail(p, outcome) /\ UNCHANGED ages
    /\ UNCHANGED <<mode, handler, signal, synced, health>>

(* An event tells main nothing, but refreshes the contact and is worked on. *)
Event(p) ==
    /\ watcher[p].pc = "watch" /\ Free
    /\ Set(p, Busy(Extra))
    /\ ready' = TRUE
    /\ update_k8s_contact
    /\ silent' = 0
    /\ UNCHANGED <<mode, handler, signal, synced, listening, registered, overdue, bootAge>>

(* The server ends the stream, or an error does. *)
StreamEnds(p) ==
    /\ watcher[p].pc = "watch" /\ Free
    /\ \/ Set(p, Loop)
       \/ \E outcome \in {"error", "error500", "transport"} : Fail(p, outcome)
    /\ UNCHANGED <<mode, handler, signal, synced, health, ages>>

(* The end of a pass or an event. *)
Finished(p) ==
    IF Booting THEN Set(p, At("off")) /\ synced' = synced \union {p}
    ELSE /\ Set(p, IF mode = "SLEEP" THEN For("sleep", Rest) ELSE At("watch"))
         /\ UNCHANGED synced

(* The request to REQ_URL: with the wrapped count no attempt is made. *)
Notify(p) == IF Attempts = 0 THEN Finished(p)
             ELSE Set(p, Attempt("request", 0, 0)) /\ UNCHANGED synced

(* Files are written up to a .url key, or all of them: then the hooks are    *)
(* next, or nothing has changed.                                             *)
Work(p) ==
    /\ watcher[p].pc = "busy"
    /\ \/ /\ watcher[p].extra > 0 /\ Attempts > 0
          /\ Set(p, Attempt("fetch", 0, watcher[p].extra - 1)) /\ UNCHANGED synced
       \/ Finished(p)
       \/ Set(p, At("script")) /\ UNCHANGED synced
       \/ Notify(p)
    /\ UNCHANGED <<mode, handler, signal, health, ages>>

(* SCRIPT ends when it likes; only a failure to start it is an error. *)
EndScript(p) ==
    /\ watcher[p].pc = "script" /\ Free
    /\ \/ Finished(p)
       \/ Notify(p)
       \/ Fail(p, "spawn") /\ UNCHANGED synced
    /\ UNCHANGED <<mode, handler, signal, health, ages>>

(* http::request, of a .url or of REQ_URL: whatever comes of it, the watcher *)
(* goes on.                                                                  *)
Request(p) ==
    /\ InFlight(p, "fetch") \/ InFlight(p, "request")
    /\ Free
    /\ \E outcome \in Outcomes(p, HttpOutcomes) :
         IF RequestGoesOn(watcher[p].try, outcome) THEN Set(p, Again(p)) /\ UNCHANGED synced
         ELSE IF watcher[p].pc = "fetch" THEN Set(p, Busy(watcher[p].extra)) /\ UNCHANGED synced
         ELSE Finished(p)
    /\ UNCHANGED <<mode, handler, signal, health, ages>>
-----------------------------------------------------------------------------
(***************************************************************************)
(* SIGTERM, probes, time                                                   *)
(***************************************************************************)
(* The kubelet stops the pod.  Without a handler the signal does nothing to  *)
(* process 1 of a container.                                                 *)
Sigterm ==
    /\ Alive
    /\ signal = "none"
    /\ signal' = IF handler THEN "caught" ELSE "lost"
    /\ UNCHANGED <<mode, main, handler, watcher, synced, health, ages>>

(* Mutant: the handler waits for the watchers. *)
TerminateIdle ==
    /\ signal = "caught"
    /\ Alive /\ Free
    /\ \A p \in Pairs : watcher[p].pc \in {"off", "watch", "sleep"}
    /\ Exit("exit0")
    /\ UNCHANGED <<mode, handler, signal, synced, health, ages>>

Terminate ==
    /\ signal = "caught"
    /\ Alive /\ Free
    /\ Exit("exit0")
    /\ UNCHANGED <<mode, handler, signal, synced, health, ages>>

status_body ==
    IF ~ready THEN "not_ready"
    ELSE IF contact > Threshold THEN "no_contact"
    ELSE IF registered /\ \E p \in Pairs : Dead(p) THEN "dead_watcher"
    ELSE "ok"

Probe ==
    /\ listening
    /\ Alive /\ Free
    /\ answer' = status_body
    /\ UNCHANGED <<mode, main, handler, signal, watcher, synced, health, ages>>

(* What is due when the thread is free happens before time passes. *)
Due ==
    \/ ~handler
    \/ signal = "caught"
    \/ main.pc = "monitor" /\ main.left = 0
    \/ main.pc = "version" /\ main.left = 0
    \/ Booting /\ Idle
    \/ \E p \in Pairs : /\ watcher[p].pc \in {"list", "connect", "fetch", "request", "sleep"}
                        /\ watcher[p].timer = 0

Later(age, bound) == IF age < bound THEN age + 1 ELSE age
Sooner(time) == IF time > 0 THEN time - 1 ELSE 0

(* Some watcher has an answer of the API, or an open watch. *)
Served == \E p \in Pairs : watcher[p].pc \in {"busy", "fetch", "script", "request", "watch"}

(* A call with all its attempts: no delay precedes the first two. *)
CallBudget(attempts) ==
    attempts * CallTime + (IF attempts > 2 THEN attempts - 2 ELSE 0) * Cap

(* One page, the further pages and fetches, and one request for each pair. *)
BootBudget == Cardinality(Pairs) * (2 + Extra) * CallBudget(Total + 1)

Tick ==
    /\ Alive /\ main.pc \notin {"start", "spawn"}
    /\ ~(Free /\ Due)
    /\ main' = [main EXCEPT !.left = Sooner(@)]
    /\ watcher' = [p \in Pairs |-> [watcher[p] EXCEPT !.timer = Sooner(@)]]
    /\ contact' = Later(contact, Threshold + 1)
    /\ silent' = IF Served THEN 0 ELSE Later(silent, Threshold + 1)
    /\ stalled' = IF Free THEN stalled ELSE Later(stalled, Threshold + 1)
    /\ overdue' = IF Free /\ \E p \in Pairs : Dead(p) THEN Later(overdue, Period + 1) ELSE overdue
    /\ bootAge' = IF Booting /\ Free /\ \A p \in Pairs : watcher[p].pc # "script"
                  THEN Later(bootAge, BootBudget + 1) ELSE bootAge
    /\ UNCHANGED <<mode, handler, signal, synced, health>>
-----------------------------------------------------------------------------
Init ==
    /\ mode \in Modes
    /\ main = [pc |-> "start", left |-> 0]
    /\ handler = FALSE
    /\ signal = "none"
    /\ watcher = [p \in Pairs |-> At("off")]
    /\ synced = {}
    /\ listening = FALSE /\ ready = FALSE /\ registered = FALSE
    /\ contact = 0 /\ silent = 0 /\ stalled = 0 /\ overdue = 0 /\ bootAge = 0
    /\ answer = "none"

Pass(p) == WakeUp(p) \/ ListPage(p) \/ Connect(p) \/ Work(p) \/ Request(p)

Other(p) == BeginSync(p) \/ Spawn(p) \/ Event(p) \/ StreamEnds(p) \/ EndScript(p)

Main == Start \/ Install \/ AskVersion \/ mark_ready \/ register_watchers \/ Monitor

Next == \/ Probe
        \/ /\ answer' = "none"
           /\ \/ Main \/ Sigterm \/ Terminate \/ Tick
              \/ \E p \in Pairs : Pass(p) \/ Other(p)

(* Fairness: a stretch without awaits ends, and a task that is woken again   *)
(* and again runs.  Nothing is promised of scripts, of the API or of those    *)
(* who probe.                                                                 *)
Stretch == /\ answer' = "none"
           /\ Start \/ register_watchers \/ \E p \in Pairs : Work(p) \/ Spawn(p)
Fairness == WF_vars(Stretch) /\ SF_vars(Terminate /\ answer' = "none")

Spec == Init /\ [][Next]_vars
FairSpec == Spec /\ Fairness
=============================================================================
