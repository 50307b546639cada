------------------------ MODULE LifecycleInvariants -------------------------
(***************************************************************************)
(* The inductive invariants behind the safety properties of the process:   *)
(* what each stretch of main means for the watchers, how far the contact   *)
(* and a dead watcher may age while the monitor loop sleeps, and what the  *)
(* calls that are still to come cost the initial sync.                     *)
(***************************************************************************)
EXTENDS LifecycleProperties

Running(p) == watcher[p].pc # "off"
SomeDead == \E p \in Pairs : Dead(p)

(* The initial sync has passes only, each until its pair is synced; the       *)
(* watchers start while main holds the thread, so each is in its first call   *)
(* when it lets go.  After the end nobody runs.                               *)
PhaseOfWatchers == \A p \in Pairs :
    /\ main.pc \in {"start", "version"} \union Ended => ~Running(p)
    /\ Booting => /\ watcher[p].pc \in {"off", "list", "busy", "fetch", "script", "request"}
                  /\ Running(p) => p \notin synced
    /\ main.pc = "spawn" => watcher[p].pc \in {"off", "list", "connect"}

(* mark_ready comes after the last pass, and the watchers are registered      *)
(* before the first round of the monitor loop.                                *)
PhaseOfHealth ==
    /\ main.pc \in {"spawn", "monitor"} \/ ready => synced = Pairs
    /\ main.pc \in {"start", "version", "boot"} => ~ready
    /\ main.pc = "monitor" => registered

PhaseInv == PhaseOfWatchers /\ PhaseOfHealth

(* OkIsHonest, made inductive. *)
HonestInv == PhaseInv /\ OkIsHonest

(* Between two rounds the contact ages by what is left of the sleep and by    *)
(* what the tasks held the thread for.                                        *)
ContactAge == main.pc = "monitor" =>
    /\ main.left <= Period
    /\ contact <= stalled + (Period - main.left)

(* NoFalseAlarm, made inductive. *)
AlarmInv == PhaseInv /\ ContactAge /\ NoFalseAlarm

(* A watcher that dies is found in the next round, which is less than a       *)
(* period away.                                                               *)
DeathAge ==
    /\ main.pc = "monitor" => /\ main.left <= Period
                              /\ SomeDead => overdue + main.left <= Period
    /\ Alive /\ ~SomeDead => overdue = 0

(* MonitorOnTime, made inductive. *)
MonitorInv == PhaseInv /\ DeathAge /\ MonitorOnTime

(* What the call a watcher is in may still take, all its attempts included,   *)
(* and what is left of its pass: further pages and fetches, and one request.  *)
CallLeft(w) == w.timer + (IF w.asleep THEN CallTime ELSE 0)
               + CallBudget(Total + 1) - CallBudget(w.try + 1)
CallsAfter(w) == IF w.pc \in {"list", "busy", "fetch"} THEN w.extra + 1
                 ELSE IF w.pc = "script" THEN 1 ELSE 0
PassLeft(w) == (IF w.pc \in {"list", "fetch", "request"} THEN CallLeft(w) ELSE 0)
               + CallsAfter(w) * CallBudget(Total + 1)
PassBudget == (2 + Extra) * CallBudget(Total + 1)

(* One pass at a time, each within its budget; those that are left have       *)
(* theirs.                                                                    *)
BootAge ==
    /\ Booting => /\ \A p, q \in Pairs : Running(p) /\ Running(q) => p = q
                  /\ \A p \in Pairs : Running(p) =>
                       bootAge + PassLeft(watcher[p])
                         + Cardinality(Pairs \ (synced \union {p})) * PassBudget <= BootBudget
                  /\ Idle => bootAge + Cardinality(Pairs \ synced) * PassBudget <= BootBudget
    /\ main.pc \in {"start", "version"} => bootAge = 0 /\ synced = {}

(* BootOnTime, made inductive. *)
BootInv == PhaseInv /\ BootAge /\ BootOnTime

(* What the proofs of the four properties rest on, as one run checks it: the  *)
(* phases of the process and of its endpoint, the ages of the contact, of the *)
(* death of a watcher and of the initial sync (main.rs:71-346).               *)
LifecycleInv == HonestInv /\ AlarmInv /\ MonitorInv /\ BootInv
=============================================================================
