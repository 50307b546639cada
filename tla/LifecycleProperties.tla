------------------------ MODULE LifecycleProperties -------------------------
(***************************************************************************)
(* What the endpoint, the monitor loop, the retries and the SIGTERM        *)
(* handler promise.  The module adds no behaviour.                         *)
(***************************************************************************)
EXTENDS Lifecycle

Ended == {"exit0", "exit1", "exit2"}

(* The variables have their types. *)
TypeOK ==
    /\ mode \in Modes
    /\ main \in [pc: {"start", "version", "boot", "spawn", "monitor"} \union Ended, left: Nat]
    /\ handler \in BOOLEAN
    /\ signal \in {"none", "caught", "lost"}
    /\ watcher \in [Pairs -> Watcher]
    /\ synced \in SUBSET Pairs
    /\ listening \in BOOLEAN /\ ready \in BOOLEAN /\ registered \in BOOLEAN
    /\ contact \in 0..(Threshold + 1) /\ silent \in 0..(Threshold + 1)
    /\ stalled \in 0..(Threshold + 1)
    /\ overdue \in 0..(Period + 1) /\ bootAge \in 0..(BootBudget + 1)
    /\ answer \in {"none", "not_ready", "no_contact", "dead_watcher", "ok"}

(* "OK" means that every pair's initial pass is complete and every watcher is *)
(* running: mark_ready precedes the watchers and register_watchers follows    *)
(* them (main.rs:304-329), and a probe in between, or a watcher that dies     *)
(* before it is registered, must not get it past status_body.                 *)
OkIsHonest == answer = "ok" => synced = Pairs /\ \A p \in Pairs : ~Dead(p)

(* "NOT LIVE (K8s contact lost)" is no false alarm of an idle watcher, a long *)
(* script or a long initial sync: something has held the thread for about the *)
(* threshold (main.rs:331-345, health.rs:59-66).                              *)
NoFalseAlarm == answer = "no_contact" => stalled > Threshold - Period

(* A watcher's death ends the process within a period of the monitor loop,    *)
(* whatever the other watchers wait for (main.rs:331-345, resources.rs:734).  *)
MonitorOnTime == overdue <= Period

(* The initial sync ends, one way or the other, in the time that its calls    *)
(* may take, all retries and delays included (http.rs:193-199,                *)
(* kubeapi.rs:169-184); only a script or a slow volume can prolong it.        *)
BootOnTime == bootAge <= BootBudget

(* A SIGTERM that the handler has caught ends the process, whatever a watcher *)
(* waits for, a script that never returns included (main.rs:83-92).           *)
SigtermEnds == signal = "caught" ~> main.pc \in Ended

(* last_contact_ms is the time of the last successful contact (health.rs:21): *)
(* nobody is told "OK" while every call of every watcher has failed for       *)
(* longer than the threshold.                                                 *)
LiveMeansAnswered == answer = "ok" => silent <= Threshold
=============================================================================
