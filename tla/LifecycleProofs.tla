-------------------------- MODULE LifecycleProofs ---------------------------
(***************************************************************************)
(* Theorems about the life of the process, for every number of watchers    *)
(* and every value of the times and limits: the types, the honest answer   *)
(* of the endpoint, no false alarm, the watcher that dies in time, and the *)
(* time of the initial sync.                                               *)
(***************************************************************************)
EXTENDS LifecycleInvariants, FiniteSetTheorems, TLAPS

-----------------------------------------------------------------------------
(* The retries *)

(* The number of attempts is Total + 1, unless the addition wraps to none. *)
LEMMA AttemptsValue == Attempts = Total + 1 \/ Attempts = 0
<1> DEFINE w == 2^Width
<1>1. w \in Int /\ Total \in Nat /\ Total < w
  BY RetryAssumption
<1> HIDE DEF w
<1>2. w \in Nat \ {0} /\ Total + 1 \in 0..w
  BY <1>1
<1>3. CASE Total + 1 = w
  BY <1>2, <1>3 DEF Attempts, w
<1>4. CASE Total + 1 < w
  BY <1>1, <1>2, <1>4 DEF Attempts, w
<1> QED
  BY <1>2, <1>3, <1>4

(* A delay is a length of time, and no longer than the cap. *)
LEMMA DelayBound == \A n \in Nat : Delay(n) \in 0..Cap
BY RetryAssumption DEF Delay

(* No delay precedes the first attempt and the first retry. *)
LEMMA NoEarlyDelay == \A n \in 0..1 : Delay(n) = 0
BY DEF Delay

(* A request that goes on has an attempt left. *)
LEMMA RequestHasNext ==
    ASSUME NEW n \in Nat, NEW outcome, RequestGoesOn(n, outcome)
    PROVE  n + 1 \in 0..Total
BY AttemptsValue, RetryAssumption DEF RequestGoesOn

(* So has a call of the API. *)
LEMMA TransportHasNext ==
    ASSUME NEW n \in Nat, NEW outcome, TransportGoesOn(n, outcome)
    PROVE  n + 1 \in 0..Total
BY RetryAssumption DEF TransportGoesOn

(* The budget of a call, and that of the whole initial sync, are numbers. *)
LEMMA CallBudgetType == \A n \in Nat : CallBudget(n) \in Nat
<1> SUFFICES ASSUME NEW n \in Nat PROVE CallBudget(n) \in Nat
  OBVIOUS
<1>1. n * CallTime \in Nat
  BY LifecycleAssumption
<1>2. (IF n > 2 THEN n - 2 ELSE 0) * Cap \in Nat
  BY RetryAssumption
<1> QED
  BY <1>1, <1>2 DEF CallBudget

(* A pass takes a number of time units. *)
LEMMA PassBudgetType == PassBudget \in Nat
BY CallBudgetType, RetryAssumption, LifecycleAssumption DEF PassBudget

(* The same for all passes. *)
LEMMA BootBudgetType == BootBudget \in Nat
<1>1. Cardinality(Pairs) \in Nat
  BY FS_CardinalityType, LifecycleAssumption
<1>2. (2 + Extra) * CallBudget(Total + 1) \in Nat
  BY PassBudgetType DEF PassBudget
<1>3. BootBudget = Cardinality(Pairs) * (2 + Extra) * CallBudget(Total + 1)
  BY DEF BootBudget
<1>4. Cardinality(Pairs) * (2 + Extra) * CallBudget(Total + 1) \in Nat
  BY <1>1, CallBudgetType, RetryAssumption, LifecycleAssumption
<1> QED
  BY <1>3, <1>4
-----------------------------------------------------------------------------
(* The types of what the actions build *)

(* A watcher in a state without a call, or in one that waits for a while. *)
LEMMA AtType ==
    ASSUME NEW pc \in {"off", "script", "watch", "sleep", "connect", "dead"}, NEW time \in Nat
    PROVE  At(pc) \in Watcher /\ For(pc, time) \in Watcher
<1>1. At(pc) \in Watcher
  BY RetryAssumption, LifecycleAssumption DEF At, Watcher
<1> QED
  BY <1>1 DEF For, Watcher

(* A watcher that writes files. *)
LEMMA BusyType == \A extra \in 0..Extra : Busy(extra) \in Watcher
<1>1. At("busy") \in Watcher
  BY RetryAssumption, LifecycleAssumption DEF At, Watcher
<1> QED
  BY <1>1 DEF Busy, Watcher

(* An attempt of a call. *)
LEMMA AttemptType ==
    ASSUME NEW pc \in {"list", "fetch", "request"}, NEW n \in 0..Total, NEW extra \in 0..Extra
    PROVE  Attempt(pc, n, extra) \in Watcher
<1>1. n \in Nat
  BY RetryAssumption
<1>2. Delay(n) \in Nat /\ CallTime \in Nat
  BY <1>1, DelayBound, RetryAssumption, LifecycleAssumption
<1> QED
  BY <1>2 DEF Attempt, Watcher

(* What a spawned watcher begins with. *)
LEMMA LoopType == Loop \in Watcher
<1>1. For("connect", CallTime) \in Watcher
  BY AtType, LifecycleAssumption
<1>2. Attempt("list", 0, Extra) \in Watcher
  BY AttemptType, RetryAssumption, LifecycleAssumption
<1> QED
  BY <1>1, <1>2 DEF Loop

(* The states of main and of the watchers. *)
MainType == main \in [pc: {"start", "version", "boot", "spawn", "monitor"} \union Ended, left: Nat]
WatcherType == watcher \in [Pairs -> Watcher]

(* One watcher changes. *)
LEMMA SetType ==
    ASSUME MainType, WatcherType, NEW p \in Pairs, NEW state \in Watcher, Set(p, state)
    PROVE  MainType' /\ WatcherType'
BY DEF Set, MainType, WatcherType

(* The process ends. *)
LEMMA ExitType ==
    ASSUME NEW status \in Ended, Exit(status)
    PROVE  MainType' /\ WatcherType'
<1>1. At("off") \in Watcher
  BY AtType
<1> QED
  BY <1>1 DEF Exit, MainType, WatcherType

(* An error ends the process, kills the watcher or makes it wait. *)
LEMMA FailType ==
    ASSUME MainType, WatcherType, NEW p \in Pairs, NEW outcome, Fail(p, outcome)
    PROVE  MainType' /\ WatcherType'
<1>1. At("dead") \in Watcher /\ For("sleep", Rest) \in Watcher
  BY AtType, LifecycleAssumption
<1>2. CASE Booting
  BY <1>2, ExitType DEF Fail, Ended
<1>3. CASE ~Booting
  BY <1>1, <1>3, SetType DEF Fail
<1> QED
  BY <1>2, <1>3

(* The end of a pass, and what precedes it. *)
LEMMA FinishedType ==
    ASSUME MainType, WatcherType, synced \in SUBSET Pairs, NEW p \in Pairs, Finished(p)
    PROVE  MainType' /\ WatcherType' /\ synced' \in SUBSET Pairs
<1>1. At("off") \in Watcher /\ At("watch") \in Watcher /\ For("sleep", Rest) \in Watcher
  BY AtType, LifecycleAssumption
<1> QED
  BY <1>1, SetType DEF Finished

(* The hooks of a pass keep the types. *)
LEMMA NotifyType ==
    ASSUME MainType, WatcherType, synced \in SUBSET Pairs, NEW p \in Pairs, Notify(p)
    PROVE  MainType' /\ WatcherType' /\ synced' \in SUBSET Pairs
<1>1. Attempt("request", 0, 0) \in Watcher
  BY AttemptType, RetryAssumption, LifecycleAssumption
<1> QED
  BY <1>1, SetType, FinishedType DEF Notify

(* The next attempt of the call a watcher is in. *)
LEMMA AgainType ==
    ASSUME WatcherType, NEW p \in Pairs, watcher[p].pc \in {"list", "fetch", "request"},
           watcher[p].try + 1 \in 0..Total
    PROVE  Again(p) \in Watcher
<1>1. watcher[p].extra \in 0..Extra
  BY DEF WatcherType, Watcher
<1> QED
  BY <1>1, AttemptType DEF Again
-----------------------------------------------------------------------------
(* Type correctness *)

(* The start has its types. *)
LEMMA InitType == Init => TypeOK
<1> SUFFICES ASSUME Init PROVE TypeOK
  OBVIOUS
<1>1. At("off") \in Watcher
  BY AtType
<1>2. watcher \in [Pairs -> Watcher]
  BY <1>1 DEF Init
<1>3. main \in [pc: {"start", "version", "boot", "spawn", "monitor"} \union Ended, left: Nat]
  BY DEF Init
<1>4. 0 \in 0..(Threshold + 1) /\ 0 \in 0..(Period + 1) /\ 0 \in 0..(BootBudget + 1)
  BY BootBudgetType, LifecycleAssumption
<1> QED
  BY <1>2, <1>3, <1>4 DEF Init, TypeOK

(* main, the watchers and the initial passes; every other variable changes in *)
(* few actions and by assignments of constants.                               *)
LEMMA MainNextType ==
    ASSUME TypeOK, Main
    PROVE  MainType' /\ WatcherType' /\ synced' \in SUBSET Pairs
<1> USE DEF health, ages
<1>1. MainType /\ WatcherType
  BY DEF TypeOK, MainType, WatcherType
<1>2. CASE Start
  <2>1. CASE \E status \in {"exit0", "exit1", "exit2"} : Exit(status)
    BY <1>2, <2>1, ExitType DEF Start, Ended, TypeOK
  <2>2. CASE /\ main' \in {[pc |-> "version", left |-> CallTime], [pc |-> "boot", left |-> 0]}
             /\ UNCHANGED watcher
    BY <1>1, <1>2, <2>2, LifecycleAssumption DEF Start, MainType, WatcherType, TypeOK
  <2> QED
    BY <1>2, <2>1, <2>2 DEF Start
<1>3. CASE Install
  BY <1>1, <1>3 DEF Install, MainType, WatcherType, TypeOK
<1>4. CASE AskVersion
  BY <1>1, <1>4, ExitType DEF AskVersion, MainType, WatcherType, Ended, TypeOK
<1>5. CASE mark_ready
  BY <1>1, <1>5, ExitType DEF mark_ready, MainType, WatcherType, Ended, TypeOK
<1>6. CASE register_watchers
  BY <1>1, <1>6, LifecycleAssumption DEF register_watchers, MainType, WatcherType, TypeOK
<1>7. CASE Monitor
  BY <1>1, <1>7, ExitType, LifecycleAssumption
     DEF Monitor, MainType, WatcherType, Ended, TypeOK
<1> QED
  BY <1>2, <1>3, <1>4, <1>5, <1>6, <1>7 DEF Main

(* A step within a pass keeps the types of the process and the watchers. *)
LEMMA PassNextType ==
    ASSUME TypeOK, NEW p \in Pairs, Pass(p)
    PROVE  MainType' /\ WatcherType' /\ synced' \in SUBSET Pairs
<1> USE DEF health, ages
<1>1. MainType /\ WatcherType /\ synced \in SUBSET Pairs
  BY DEF TypeOK, MainType, WatcherType
<1>2. watcher[p] \in Watcher /\ watcher[p].extra \in 0..Extra /\ watcher[p].try \in Nat
  BY <1>1, RetryAssumption DEF WatcherType, Watcher
<1>3. CASE WakeUp(p)
  <2>1. [watcher[p] EXCEPT !.asleep = FALSE, !.timer = CallTime] \in Watcher
    BY <1>2, LifecycleAssumption DEF Watcher
  <2> QED
    BY <1>1, <1>3, <2>1, SetType, LoopType DEF WakeUp
<1>4. CASE ListPage(p)
  <2>1. watcher[p].pc = "list"
    BY <1>4 DEF ListPage, InFlight
  <2>2. Busy(watcher[p].extra) \in Watcher
    BY <1>2, BusyType
  <2>3. watcher[p].extra > 0 => Attempt("list", 0, watcher[p].extra - 1) \in Watcher
    BY <1>2, AttemptType, RetryAssumption, LifecycleAssumption
  <2>4. \A outcome : TransportGoesOn(watcher[p].try, outcome) => Again(p) \in Watcher
    BY <1>1, <1>2, <2>1, TransportHasNext, AgainType
  <2> QED
    BY <1>1, <1>4, <2>2, <2>3, <2>4, SetType, FailType DEF ListPage
<1>5. CASE Connect(p)
  <2>1. At("watch") \in Watcher
    BY AtType
  <2> QED
    BY <1>1, <1>5, <2>1, SetType, FailType DEF Connect
<1>6. CASE Work(p)
  <2>1. watcher[p].extra > 0 => Attempt("fetch", 0, watcher[p].extra - 1) \in Watcher
    BY <1>2, AttemptType, RetryAssumption, LifecycleAssumption
  <2>2. At("script") \in Watcher
    BY AtType
  <2> QED
    BY <1>1, <1>6, <2>1, <2>2, SetType, FinishedType, NotifyType DEF Work
<1>7. CASE Request(p)
  <2>1. watcher[p].pc \in {"fetch", "request"}
    BY <1>7 DEF Request, InFlight
  <2>2. \A outcome : RequestGoesOn(watcher[p].try, outcome) => Again(p) \in Watcher
    BY <1>1, <1>2, <2>1, RequestHasNext, AgainType
  <2>3. Busy(watcher[p].extra) \in Watcher
    BY <1>2, BusyType
  <2> QED
    BY <1>1, <1>7, <2>2, <2>3, SetType, FinishedType DEF Request
<1> QED
  BY <1>3, <1>4, <1>5, <1>6, <1>7 DEF Pass

(* So do the other steps of a watcher. *)
LEMMA OtherNextType ==
    ASSUME TypeOK, NEW p \in Pairs, Other(p)
    PROVE  MainType' /\ WatcherType' /\ synced' \in SUBSET Pairs
<1> USE DEF health, ages
<1>1. MainType /\ WatcherType /\ synced \in SUBSET Pairs
  BY DEF TypeOK, MainType, WatcherType
<1>2. CASE BeginSync(p)
  <2>1. Attempt("list", 0, Extra) \in Watcher
    BY AttemptType, RetryAssumption, LifecycleAssumption
  <2> QED
    BY <1>1, <1>2, <2>1, SetType DEF BeginSync
<1>3. CASE Spawn(p)
  BY <1>1, <1>3, LoopType, SetType DEF Spawn
<1>4. CASE Event(p)
  <2>1. Busy(Extra) \in Watcher
    BY BusyType, LifecycleAssumption
  <2> QED
    BY <1>1, <1>4, <2>1, SetType DEF Event
<1>5. CASE StreamEnds(p)
  BY <1>1, <1>5, LoopType, SetType, FailType DEF StreamEnds
<1>6. CASE EndScript(p)
  BY <1>1, <1>6, FinishedType, NotifyType, FailType DEF EndScript
<1> QED
  BY <1>2, <1>3, <1>4, <1>5, <1>6 DEF Other

(* A tick brings every clock forward within its bound. *)
LEMMA TickType == ASSUME TypeOK, Tick, answer' = "none" PROVE TypeOK'
<1>1. MainType /\ WatcherType
  BY DEF TypeOK, MainType, WatcherType
<1>2. \A time \in Nat : Sooner(time) \in Nat
  BY DEF Sooner
<1>3. \A bound \in Nat : \A age \in 0..bound : Later(age, bound) \in 0..bound
  BY DEF Later
<1>4. MainType'
  BY <1>1, <1>2 DEF Tick, MainType
<1>5. ASSUME NEW p \in Pairs
      PROVE  [watcher[p] EXCEPT !.timer = Sooner(@)] \in Watcher
  <2>1. watcher[p] \in Watcher /\ Sooner(watcher[p].timer) \in Nat
    BY <1>1, <1>2 DEF WatcherType, Watcher
  <2> QED
    BY <2>1 DEF Watcher
<1>6. WatcherType'
  BY <1>5 DEF Tick, WatcherType
<1>7. /\ contact \in 0..(Threshold + 1) /\ stalled \in 0..(Threshold + 1)
      /\ silent \in 0..(Threshold + 1)
      /\ overdue \in 0..(Period + 1) /\ bootAge \in 0..(BootBudget + 1)
  BY DEF TypeOK
<1>8. /\ Threshold + 1 \in Nat /\ Period + 1 \in Nat /\ BootBudget + 1 \in Nat
  BY LifecycleAssumption, BootBudgetType
<1>9. /\ contact' = Later(contact, Threshold + 1)
      /\ silent' \in {0, Later(silent, Threshold + 1)}
      /\ stalled' \in {stalled, Later(stalled, Threshold + 1)}
      /\ overdue' \in {overdue, Later(overdue, Period + 1)}
      /\ bootAge' \in {bootAge, Later(bootAge, BootBudget + 1)}
  BY DEF Tick
<1>10. /\ contact' \in 0..(Threshold + 1) /\ stalled' \in 0..(Threshold + 1)
       /\ silent' \in 0..(Threshold + 1)
       /\ overdue' \in 0..(Period + 1) /\ bootAge' \in 0..(BootBudget + 1)
  <2>1. 0 \in 0..(Threshold + 1) /\ \A age \in 0..(Threshold + 1) :
            Later(age, Threshold + 1) \in 0..(Threshold + 1)
    BY <1>3, <1>8
  <2>2. \A age \in 0..(Period + 1) : Later(age, Period + 1) \in 0..(Period + 1)
    BY <1>3, <1>8
  <2>3. \A age \in 0..(BootBudget + 1) : Later(age, BootBudget + 1) \in 0..(BootBudget + 1)
    BY <1>3, <1>8
  <2> QED
    BY <1>7, <1>9, <2>1, <2>2, <2>3
<1> QED
  BY <1>4, <1>6, <1>10 DEF Tick, TypeOK, MainType, WatcherType, health

(* What is left to show of a step that is no tick. *)
Flags == /\ mode \in Modes /\ handler \in BOOLEAN /\ signal \in {"none", "caught", "lost"}
         /\ listening \in BOOLEAN /\ ready \in BOOLEAN /\ registered \in BOOLEAN
Ages == /\ contact \in 0..(Threshold + 1) /\ silent \in 0..(Threshold + 1)
        /\ stalled \in 0..(Threshold + 1)
        /\ overdue \in 0..(Period + 1) /\ bootAge \in 0..(BootBudget + 1)

(* Every age starts at zero. *)
LEMMA ZeroAge == /\ 0 \in 0..(Threshold + 1) /\ 0 \in 0..(Period + 1)
                 /\ 0 \in 0..(BootBudget + 1)
BY BootBudgetType, LifecycleAssumption

(* Every step but the passing of time keeps the flags and ages in range. *)
LEMMA FlagsType ==
    ASSUME TypeOK,
           Main \/ Sigterm \/ Terminate \/ \E p \in Pairs : Pass(p) \/ Other(p)
    PROVE  Flags' /\ Ages'
<1> USE DEF health, ages, Flags, Ages, Heard, update_k8s_contact
<1>1. Flags /\ Ages
  BY DEF TypeOK
<1>2. CASE Main
  BY <1>1, <1>2, ZeroAge DEF Main, Start, start_health_server, bind_listener, Install,
     AskVersion, mark_ready, register_watchers, Monitor
<1>3. CASE Sigterm \/ Terminate
  BY <1>1, <1>3 DEF Sigterm, Terminate
<1>4. ASSUME NEW p \in Pairs, Pass(p) PROVE Flags' /\ Ages'
  BY <1>1, <1>4, ZeroAge DEF Pass, WakeUp, ListPage, Connect, Work, Request
<1>5. ASSUME NEW p \in Pairs, Other(p) PROVE Flags' /\ Ages'
  BY <1>1, <1>5, ZeroAge DEF Other, BeginSync, Spawn, Event, StreamEnds, EndScript
<1> QED
  BY <1>2, <1>3, <1>4, <1>5

(* A step of any kind preserves the types. *)
LEMMA NextType == TypeOK /\ [Next]_vars => TypeOK'
<1> SUFFICES ASSUME TypeOK, [Next]_vars PROVE TypeOK'
  OBVIOUS
<1>1. MainType /\ WatcherType /\ synced \in SUBSET Pairs
  BY DEF TypeOK, MainType, WatcherType
<1>2. CASE UNCHANGED vars
  BY <1>2 DEF vars, health, ages, TypeOK
<1>3. CASE Probe
  BY <1>3 DEF Probe, status_body, health, ages, TypeOK
<1>4. CASE Tick /\ answer' = "none"
  BY <1>4, TickType
<1>5. CASE /\ Main \/ Sigterm \/ Terminate \/ \E p \in Pairs : Pass(p) \/ Other(p)
           /\ answer' = "none"
  <2>1. MainType' /\ WatcherType' /\ synced' \in SUBSET Pairs
    <3>1. CASE Sigterm \/ Terminate
      BY <1>1, <3>1, ExitType DEF Sigterm, Terminate, Ended, MainType, WatcherType
    <3> QED
      BY <1>5, <3>1, MainNextType, PassNextType, OtherNextType
  <2>2. Flags' /\ Ages'
    BY <1>5, FlagsType
  <2> QED
    BY <1>5, <2>1, <2>2 DEF MainType, WatcherType, Flags, Ages, TypeOK
<1> QED
  BY <1>2, <1>3, <1>4, <1>5 DEF Next

(* The variables of the process always have their types. *)
THEOREM LifecycleTypes == Spec => []TypeOK
<1>1. Init => TypeOK
  BY InitType
<1>2. TypeOK /\ [Next]_vars => TypeOK'
  BY NextType
<1> QED
  BY <1>1, <1>2, PTL DEF Spec
-----------------------------------------------------------------------------
(* What a step of a watcher means for the phases and the ages *)

(* Where a watcher is in the states the actions build. *)
LEMMA PcOf ==
    /\ \A pc : At(pc).pc = pc
    /\ \A pc, time : For(pc, time).pc = pc
    /\ \A extra : Busy(extra).pc = "busy"
    /\ \A pc, n, extra : Attempt(pc, n, extra).pc = pc
    /\ Loop.pc \in {"list", "connect"}
    /\ \A p \in Pairs : Again(p).pc = watcher[p].pc
<1>1. \A pc : At(pc).pc = pc
  BY DEF At
<1>2. \A pc, time : For(pc, time).pc = pc
  BY DEF At, For
<1>3. \A extra : Busy(extra).pc = "busy"
  BY DEF At, Busy
<1>4. \A pc, n, extra : Attempt(pc, n, extra).pc = pc
  BY DEF Attempt
<1> QED
  BY <1>1, <1>2, <1>3, <1>4 DEF Loop, Again

BootPcs == {"off", "list", "busy", "fetch", "script", "request"}

(* Watcher p goes to one of the states pcs; the others and main stay. *)
Goes(p, pcs) == /\ main' = main
                /\ watcher'[p].pc \in pcs
                /\ \A q \in Pairs \ {p} : watcher'[q] = watcher[q]

(* A watcher that is given a state goes to it; the others stay. *)
LEMMA SetGoes ==
    ASSUME WatcherType, NEW p \in Pairs, NEW state, Set(p, state)
    PROVE  /\ Goes(p, {state.pc}) /\ watcher'[p] = state
           /\ main' = main /\ \A q \in Pairs \ {p} : watcher'[q] = watcher[q]
BY DEF Set, Goes, WatcherType

(* The phases of main allow a watcher the step it takes. *)
Allowed(p) ==
    /\ Goes(p, {watcher'[p].pc})
    /\ main.pc \in {"start", "version"} \union Ended => watcher'[p].pc = "off" /\ synced' = synced
    /\ Booting => \/ watcher'[p].pc \in BootPcs /\ p \notin synced /\ synced' = synced
                  \/ watcher'[p].pc = "off" /\ synced' \in {synced, synced \union {p}}
    /\ main.pc = "spawn" => watcher'[p].pc \in {"off", "list", "connect"} /\ synced' = synced
    /\ main.pc = "monitor" => (Dead(p) => watcher'[p].pc = "dead") /\ synced' = synced

(* A pass that fails ends the initial sync, or kills its watcher. *)
LEMMA FailAllowed ==
    ASSUME WatcherType, NEW p \in Pairs, NEW outcome, Fail(p, outcome), ~Dead(p),
           main.pc \in {"boot", "monitor"}, synced' = synced
    PROVE  (Booting /\ Exit("exit1")) \/ Allowed(p)
BY SetGoes, PcOf DEF Fail, Allowed, Goes, Booting, Ended

(* A pass that ends goes on as the phase of main allows. *)
LEMMA FinishedAllowed ==
    ASSUME WatcherType, NEW p \in Pairs, Finished(p), ~Dead(p), main.pc \in {"boot", "monitor"}
    PROVE  Allowed(p)
BY SetGoes, PcOf DEF Finished, Allowed, Goes, BootPcs, Booting, Ended

(* So does a pass that has hooks to run. *)
LEMMA NotifyAllowed ==
    ASSUME WatcherType, NEW p \in Pairs, Notify(p), ~Dead(p), main.pc \in {"boot", "monitor"},
           Booting => p \notin synced
    PROVE  Allowed(p)
BY SetGoes, PcOf, FinishedAllowed DEF Notify, Allowed, Goes, BootPcs, Booting, Ended

(* A watcher that has something to do runs in the initial sync or later. *)
LEMMA RunsWhen ==
    ASSUME TypeOK, PhaseInv, NEW p \in Pairs, Running(p)
    PROVE  main.pc \in {"boot", "spawn", "monitor"} /\ (Booting => p \notin synced)
BY DEF PhaseInv, PhaseOfWatchers, Running, TypeOK

(* Every step of a pass is allowed, or it ends the process. *)
LEMMA PassAllowed ==
    ASSUME TypeOK, PhaseInv, NEW p \in Pairs, Pass(p)
    PROVE  (Booting /\ Exit("exit1") /\ synced' = synced) \/ Allowed(p)
<1>1. WatcherType
  BY DEF TypeOK, WatcherType
<1>2. CASE WakeUp(p)
  <2>1. main.pc \in {"version", "boot", "monitor"} /\ synced' = synced
    BY <1>2 DEF WakeUp, Alive, Free
  <2>2. CASE Set(p, [watcher[p] EXCEPT !.asleep = FALSE, !.timer = CallTime])
    <3>1. [watcher[p] EXCEPT !.asleep = FALSE, !.timer = CallTime].pc = watcher[p].pc
      BY <1>1 DEF WatcherType, Watcher
    <3> QED
      BY <1>1, <2>1, <2>2, <3>1, SetGoes
         DEF Allowed, Goes, PhaseInv, PhaseOfWatchers, Running, BootPcs, Booting, Ended, Dead
  <2>3. CASE watcher[p].pc = "sleep" /\ Set(p, Loop)
    BY <1>1, <2>1, <2>3, SetGoes, PcOf
       DEF Allowed, Goes, PhaseInv, PhaseOfWatchers, Running, BootPcs, Booting, Ended, Dead
  <2> QED
    BY <1>2, <2>2, <2>3 DEF WakeUp
<1>3. CASE ListPage(p)
  <2>1. /\ watcher[p].pc = "list" /\ ~Dead(p) /\ main.pc \in {"boot", "monitor"}
        /\ synced' = synced /\ (Booting => p \notin synced)
    BY <1>3, RunsWhen DEF ListPage, InFlight, Free, Dead, Running
  <2>2. \/ \E extra : Set(p, Busy(extra))
        \/ \E extra : Set(p, Attempt("list", 0, extra))
        \/ Set(p, Again(p))
        \/ \E outcome : Fail(p, outcome)
    BY <1>3 DEF ListPage
  <2>3. CASE \E outcome : Fail(p, outcome)
    BY <1>1, <2>1, <2>3, FailAllowed
  <2>4. ASSUME NEW state, Set(p, state), state.pc \in {"list", "busy"}
        PROVE  Allowed(p)
    BY <1>1, <2>1, <2>4, SetGoes DEF Allowed, Goes, BootPcs, Booting, Ended
  <2> QED
    BY <2>1, <2>2, <2>3, <2>4, PcOf
<1>4. CASE Connect(p)
  <2>1. watcher[p].pc = "connect" /\ ~Dead(p) /\ main.pc = "monitor" /\ synced' = synced
    BY <1>4, RunsWhen
       DEF Connect, InFlight, Free, Dead, Running, Booting, PhaseInv, PhaseOfWatchers
  <2>2. Set(p, At("watch")) \/ \E outcome : Fail(p, outcome)
    BY <1>4 DEF Connect
  <2> QED
    BY <1>1, <2>1, <2>2, SetGoes, PcOf, FailAllowed
       DEF Allowed, Goes, BootPcs, Booting, Ended
<1>5. CASE Work(p)
  <2>1. /\ watcher[p].pc = "busy" /\ ~Dead(p) /\ main.pc \in {"boot", "monitor"}
        /\ Booting => p \notin synced
    BY <1>5, RunsWhen DEF Work, Dead, Running, PhaseInv, PhaseOfWatchers
  <2>2. \/ \E extra : Set(p, Attempt("fetch", 0, extra)) /\ synced' = synced
        \/ Set(p, At("script")) /\ synced' = synced
        \/ Finished(p)
        \/ Notify(p)
    BY <1>5 DEF Work
  <2> QED
    BY <1>1, <2>1, <2>2, SetGoes, PcOf, FinishedAllowed, NotifyAllowed
       DEF Allowed, Goes, BootPcs, Booting, Ended
<1>6. CASE Request(p)
  <2>1. /\ watcher[p].pc \in {"fetch", "request"} /\ ~Dead(p)
        /\ main.pc \in {"boot", "monitor"} /\ (Booting => p \notin synced)
    BY <1>6, RunsWhen DEF Request, InFlight, Free, Dead, Running
  <2>2. \/ \E extra : Set(p, Busy(extra)) /\ synced' = synced
        \/ Set(p, Again(p)) /\ synced' = synced
        \/ Finished(p)
    BY <1>6 DEF Request
  <2> QED
    BY <1>1, <2>1, <2>2, SetGoes, PcOf, FinishedAllowed DEF Allowed, Goes, BootPcs, Booting, Ended
<1> QED
  BY <1>2, <1>3, <1>4, <1>5, <1>6 DEF Pass

(* The same for the other steps of a watcher. *)
LEMMA OtherAllowed ==
    ASSUME TypeOK, PhaseInv, NEW p \in Pairs, Other(p)
    PROVE  (Booting /\ Exit("exit1") /\ synced' = synced) \/ Allowed(p)
<1>1. WatcherType
  BY DEF TypeOK, WatcherType
<1>2. CASE BeginSync(p)
  <2>1. /\ Booting /\ ~Dead(p) /\ p \notin synced
        /\ Set(p, Attempt("list", 0, Extra)) /\ synced' = synced
    BY <1>2 DEF BeginSync, Idle, Dead
  <2> QED
    BY <1>1, <2>1, SetGoes, PcOf DEF Allowed, Goes, BootPcs, Booting, Ended
<1>3. CASE Spawn(p)
  <2>1. main.pc = "spawn" /\ ~Dead(p) /\ Set(p, Loop) /\ synced' = synced
    BY <1>3 DEF Spawn, Dead
  <2> QED
    BY <1>1, <2>1, SetGoes, PcOf DEF Allowed, Goes, BootPcs, Booting, Ended
<1>4. CASE Event(p)
  <2>1. watcher[p].pc = "watch" /\ ~Dead(p) /\ main.pc = "monitor" /\ synced' = synced
    BY <1>4, RunsWhen
       DEF Event, Free, Dead, Running, Booting, PhaseInv, PhaseOfWatchers
  <2>2. Set(p, Busy(Extra))
    BY <1>4 DEF Event
  <2> QED
    BY <1>1, <2>1, <2>2, SetGoes, PcOf DEF Allowed, Goes, BootPcs, Booting, Ended
<1>5. CASE StreamEnds(p)
  <2>1. watcher[p].pc = "watch" /\ ~Dead(p) /\ main.pc = "monitor" /\ synced' = synced
    BY <1>5, RunsWhen
       DEF StreamEnds, Free, Dead, Running, Booting, PhaseInv, PhaseOfWatchers
  <2>2. Set(p, Loop) \/ \E outcome : Fail(p, outcome)
    BY <1>5 DEF StreamEnds
  <2> QED
    BY <1>1, <2>1, <2>2, SetGoes, PcOf, FailAllowed
       DEF Allowed, Goes, BootPcs, Booting, Ended
<1>6. CASE EndScript(p)
  <2>1. ~Dead(p) /\ main.pc \in {"boot", "monitor"} /\ (Booting => p \notin synced)
    BY <1>6, RunsWhen DEF EndScript, Free, Dead, Running
  <2>2. Finished(p) \/ Notify(p) \/ (Fail(p, "spawn") /\ synced' = synced)
    BY <1>6 DEF EndScript
  <2> QED
    BY <1>1, <2>1, <2>2, FinishedAllowed, NotifyAllowed, FailAllowed
<1> QED
  BY <1>2, <1>3, <1>4, <1>5, <1>6 DEF Other

(* No step of a watcher touches what main and the endpoint keep, except that  *)
(* an event refreshes the contact.                                            *)
LEMMA PairHealth ==
    ASSUME TypeOK, PhaseInv, NEW p \in Pairs, Pass(p) \/ Other(p)
    PROVE  /\ registered' = registered /\ overdue' = overdue
           /\ \/ UNCHANGED <<ready, contact, stalled>>
              \/ main.pc = "monitor" /\ ready' = TRUE /\ contact' = 0 /\ stalled' = 0
<1> USE DEF health, ages
<1>1. CASE Pass(p)
  BY <1>1 DEF Pass, WakeUp, ListPage, Connect, Work, Request, Heard
<1>2. CASE Event(p)
  <2>1. main.pc = "monitor"
    BY <1>2, RunsWhen
       DEF Event, Free, Running, Booting, PhaseInv, PhaseOfWatchers
  <2> QED
    BY <1>2, <2>1 DEF Event, update_k8s_contact
<1>3. CASE Other(p) /\ ~Event(p)
  BY <1>3 DEF Other, BeginSync, Spawn, StreamEnds, EndScript
<1> QED
  BY <1>1, <1>2, <1>3

(* The process ends: no watcher runs. *)
LEMMA ExitPcs ==
    ASSUME NEW status \in Ended, Exit(status)
    PROVE  /\ main'.pc \in Ended /\ ~Alive'
           /\ \A p \in Pairs : watcher'[p].pc = "off" /\ ~Dead(p)' /\ ~Running(p)'
BY PcOf DEF Exit, Ended, Alive, Dead, Running

-----------------------------------------------------------------------------
(* Phases *)

(* The phases at the start. *)
LEMMA PhaseInit == Init => PhaseInv
BY PcOf DEF Init, PhaseInv, PhaseOfWatchers, PhaseOfHealth, Running, Booting, Ended

(* A step of main, of the handler or of time. *)
LEMMA PhaseMain ==
    ASSUME TypeOK, PhaseInv, Main \/ Sigterm \/ Terminate \/ Tick \/ Probe
    PROVE  PhaseInv'
<1> USE DEF health, ages, PhaseInv, PhaseOfWatchers, PhaseOfHealth, Running, Booting
<1>1. ASSUME NEW status \in Ended, Exit(status), synced' = synced, ready => synced = Pairs,
             ready' = ready \/ synced = Pairs
      PROVE  PhaseInv'
  BY <1>1, ExitPcs DEF Ended
<1>2. CASE Start
  <2>1. CASE \E status \in {"exit0", "exit1", "exit2"} : Exit(status)
    BY <1>1, <1>2, <2>1 DEF Start, Ended
  <2>2. CASE /\ main' \in {[pc |-> "version", left |-> CallTime], [pc |-> "boot", left |-> 0]}
             /\ UNCHANGED watcher
    BY <1>2, <2>2 DEF Start, Ended
  <2> QED
    BY <1>2, <2>1, <2>2 DEF Start
<1>3. CASE Install
  BY <1>3 DEF Install, Ended
<1>4. CASE AskVersion
  BY <1>1, <1>4 DEF AskVersion, Ended
<1>5. CASE mark_ready
  BY <1>1, <1>5 DEF mark_ready, Ended
<1>6. CASE register_watchers
  BY <1>6 DEF register_watchers, Ended
<1>7. CASE Monitor
  <2>1. CASE Exit("exit1")
    BY <1>1, <1>7, <2>1 DEF Monitor, Ended
  <2>2. CASE main' = [main EXCEPT !.left = Period] /\ UNCHANGED watcher
    BY <1>7, <2>2 DEF Monitor, Ended, TypeOK
  <2> QED
    BY <1>7, <2>1, <2>2 DEF Monitor
<1>8. CASE Sigterm \/ Probe
  BY <1>8 DEF Sigterm, Probe, Ended
<1>9. CASE Terminate
  BY <1>1, <1>9 DEF Terminate, Ended
<1>10. CASE Tick
  <2>1. main'.pc = main.pc /\ \A p \in Pairs : watcher'[p].pc = watcher[p].pc
    BY <1>10 DEF Tick, TypeOK, Watcher
  <2> QED
    BY <1>10, <2>1 DEF Tick, Ended
<1> QED
  BY <1>2, <1>3, <1>4, <1>5, <1>6, <1>7, <1>8, <1>9, <1>10 DEF Main

(* A step of a watcher. *)
LEMMA PhasePair ==
    ASSUME TypeOK, PhaseInv, NEW p \in Pairs, Pass(p) \/ Other(p)
    PROVE  PhaseInv'
<1>1. /\ registered' = registered
      /\ ready' = ready \/ (main.pc = "monitor" /\ ready' = TRUE)
  BY PairHealth
<1>2. (Booting /\ Exit("exit1") /\ synced' = synced) \/ Allowed(p)
  BY PassAllowed, OtherAllowed
<1>3. CASE Booting /\ Exit("exit1") /\ synced' = synced
  BY <1>1, <1>3, ExitPcs
     DEF PhaseInv, PhaseOfWatchers, PhaseOfHealth, Running, Booting, Ended
<1>4. CASE Allowed(p)
  BY <1>1, <1>4 DEF Allowed, Goes, PhaseInv, PhaseOfWatchers, PhaseOfHealth,
     Running, Booting, BootPcs, Ended, TypeOK
<1> QED
  BY <1>2, <1>3, <1>4

(* Every step keeps the phases. *)
LEMMA PhaseNext == TypeOK /\ PhaseInv /\ [Next]_vars => PhaseInv'
<1> SUFFICES ASSUME TypeOK, PhaseInv, [Next]_vars PROVE PhaseInv'
  OBVIOUS
<1>1. CASE UNCHANGED vars
  BY <1>1 DEF vars, health, ages, PhaseInv, PhaseOfWatchers, PhaseOfHealth,
     Running, Booting, Ended
<1>2. CASE Next
  BY <1>2, PhaseMain, PhasePair DEF Next
<1> QED
  BY <1>1, <1>2

(* The phases of main mean for the watchers and the endpoint what the code's  *)
(* order of calls suggests (main.rs:233-345).                                 *)
THEOREM PhasesCorrect == Spec => []PhaseInv
<1>1. Init => PhaseInv
  BY PhaseInit
<1>2. TypeOK /\ PhaseInv /\ [Next]_vars => PhaseInv'
  BY PhaseNext
<1> QED
  BY <1>1, <1>2, LifecycleTypes, PTL DEF Spec

-----------------------------------------------------------------------------
(* The answer of the endpoint *)

(* Every step keeps the answers honest. *)
LEMMA HonestNext == TypeOK /\ HonestInv /\ [Next]_vars => HonestInv'
<1> SUFFICES ASSUME TypeOK, HonestInv, [Next]_vars PROVE OkIsHonest'
  BY PhaseNext DEF HonestInv
<1>1. CASE UNCHANGED vars
  BY <1>1 DEF vars, HonestInv, OkIsHonest, Dead
<1>2. CASE Probe
  <2> SUFFICES ASSUME answer' = "ok"
               PROVE  synced = Pairs /\ \A p \in Pairs : ~Dead(p)
    BY <1>2 DEF Probe, OkIsHonest, Dead
  <2>1. ready /\ ~(registered /\ \E p \in Pairs : Dead(p))
    BY <1>2 DEF Probe, status_body
  <2>2. synced = Pairs /\ main.pc = "monitor"
    BY <1>2, <2>1 DEF Probe, Alive, Free, HonestInv, PhaseInv, PhaseOfHealth
  <2> QED
    BY <2>1, <2>2 DEF HonestInv, PhaseInv, PhaseOfHealth
<1>3. CASE answer' = "none"
  BY <1>3 DEF OkIsHonest
<1> QED
  BY <1>1, <1>2, <1>3 DEF Next

(* The honest answers in every behaviour. *)
LEMMA HonestAlways == Spec => []HonestInv
<1>1. Init => HonestInv
  BY PhaseInit DEF HonestInv, OkIsHonest, Init
<1>2. TypeOK /\ HonestInv /\ [Next]_vars => HonestInv'
  BY HonestNext
<1> QED
  BY <1>1, <1>2, LifecycleTypes, PTL DEF Spec

(* "OK" is never answered while an initial pass is missing or a watcher is    *)
(* dead (main.rs:304-329, health.rs:45-76).                                   *)
THEOREM OkIsHonestCorrect == Spec => []OkIsHonest
<1>1. HonestInv => OkIsHonest
  BY DEF HonestInv
<1> QED
  BY <1>1, HonestAlways, PTL

-----------------------------------------------------------------------------
(* The age of the contact *)

(* While main sleeps with the thread free, some of its sleep is left. *)
LEMMA TickInMonitor ==
    ASSUME TypeOK, Tick, main.pc = "monitor"
    PROVE  /\ main'.pc = "monitor"
           /\ main.left > 0 => main'.left = main.left - 1
           /\ main.left = 0 => main'.left = 0
           /\ Free => main.left > 0
<1>1. main' = [main EXCEPT !.left = Sooner(main.left)] /\ main.left \in Nat
  BY DEF Tick, TypeOK
<1>2. main'.pc = main.pc /\ main'.left = Sooner(main.left)
  BY <1>1 DEF TypeOK
<1>3. Free => main.left # 0
  BY DEF Tick, Due
<1> QED
  BY <1>1, <1>2, <1>3 DEF Sooner

(* Every step keeps the age of the contact bounded. *)
LEMMA ContactNext ==
    ASSUME TypeOK, PhaseInv, ContactAge, [Next]_vars
    PROVE  ContactAge'
<1>1. Period \in Nat /\ Threshold \in Nat /\ contact \in Nat /\ stalled \in Nat /\ main.left \in Nat
  BY LifecycleAssumption DEF TypeOK
<1>2. CASE UNCHANGED <<main, contact, stalled>>
  BY <1>2 DEF ContactAge
<1>3. CASE main'.pc # "monitor"
  BY <1>3 DEF ContactAge
<1>4. CASE register_watchers \/ Monitor
  <2>1. contact' = 0 /\ stalled' = 0
    BY <1>4 DEF register_watchers, Monitor, update_k8s_contact
  <2>2. main'.left = Period \/ main'.pc # "monitor"
    BY <1>4 DEF register_watchers, Monitor, Exit, TypeOK
  <2> QED
    BY <1>1, <2>1, <2>2 DEF ContactAge
<1>5. ASSUME NEW p \in Pairs, Pass(p) \/ Other(p) PROVE ContactAge'
  <2>1. \/ UNCHANGED <<contact, stalled>>
        \/ contact' = 0 /\ stalled' = 0
    BY <1>5, PairHealth
  <2>2. main' = main \/ main'.pc # "monitor"
    BY <1>5, PassAllowed, OtherAllowed, ExitPcs DEF Allowed, Goes, Ended
  <2> QED
    BY <1>1, <2>1, <2>2 DEF ContactAge
<1>6. CASE Tick /\ main.pc = "monitor"
  <2>1. /\ main'.pc = "monitor" /\ main'.left \in Nat
        /\ main'.left = main.left - 1 \/ (~Free /\ main'.left = main.left)
    BY <1>1, <1>6, TickInMonitor
  <2>2. main.left <= Period /\ contact <= stalled + (Period - main.left)
    BY <1>6 DEF ContactAge
  <2>3. contact' = Later(contact, Threshold + 1)
        /\ stalled' = IF Free THEN stalled ELSE Later(stalled, Threshold + 1)
    BY <1>6 DEF Tick
  <2>4. contact' \in 0..(Threshold + 1) /\ contact' <= contact + 1
    BY <1>1, <2>3, LifecycleAssumption DEF TypeOK, Later
  <2>5. CASE Free
    BY <1>1, <2>1, <2>2, <2>3, <2>4, <2>5 DEF ContactAge
  <2>6. CASE ~Free
    <3>1. stalled' = stalled + 1 \/ (stalled' = stalled /\ stalled >= Threshold + 1)
      BY <1>1, <2>3, <2>6, LifecycleAssumption DEF Later
    <3> QED
      BY <1>1, <2>1, <2>2, <2>4, <3>1 DEF ContactAge
  <2> QED
    BY <2>5, <2>6
<1>7. CASE Main /\ ~register_watchers /\ ~Monitor
  <2>1. main'.pc # "monitor" \/ UNCHANGED <<main, contact, stalled>>
    BY <1>7 DEF Main, Start, Install, AskVersion, mark_ready, Exit, ages
  <2> QED
    BY <1>2, <1>3, <2>1
<1>8. CASE Tick /\ main.pc # "monitor"
  BY <1>3, <1>8 DEF Tick, TypeOK
<1>9. CASE Sigterm \/ Probe
  BY <1>2, <1>9 DEF Sigterm, Probe, ages
<1>10. CASE Terminate
  BY <1>3, <1>10 DEF Terminate, Exit
<1> QED
  BY <1>2, <1>4, <1>5, <1>6, <1>7, <1>8, <1>9, <1>10 DEF Next, vars, ages

(* Every step keeps the alarm true. *)
LEMMA AlarmNext == TypeOK /\ AlarmInv /\ [Next]_vars => AlarmInv'
<1> SUFFICES ASSUME TypeOK, AlarmInv, [Next]_vars PROVE NoFalseAlarm'
  BY PhaseNext, ContactNext DEF AlarmInv
<1>1. CASE UNCHANGED vars
  BY <1>1 DEF vars, ages, AlarmInv, NoFalseAlarm
<1>2. CASE Probe
  <2> SUFFICES ASSUME answer' = "no_contact" PROVE stalled > Threshold - Period
    BY <1>2 DEF Probe, NoFalseAlarm, ages
  <2>1. ready /\ contact > Threshold
    BY <1>2 DEF Probe, status_body
  <2>2. main.pc = "monitor"
    BY <1>2, <2>1 DEF Probe, Alive, Free, AlarmInv, PhaseInv, PhaseOfHealth
  <2>3. main.left <= Period /\ contact <= stalled + (Period - main.left)
    BY <2>2 DEF AlarmInv, ContactAge
  <2>4. main.left \in Nat /\ stalled \in Nat /\ contact \in Nat
    BY DEF TypeOK
  <2> QED
    BY <2>1, <2>3, <2>4, LifecycleAssumption
<1>3. CASE answer' = "none"
  BY <1>3 DEF NoFalseAlarm
<1> QED
  BY <1>1, <1>2, <1>3 DEF Next

(* The age of the contact in every behaviour. *)
LEMMA AlarmAlways == Spec => []AlarmInv
<1>1. Init => AlarmInv
  BY PhaseInit DEF AlarmInv, ContactAge, NoFalseAlarm, Init
<1>2. TypeOK /\ AlarmInv /\ [Next]_vars => AlarmInv'
  BY AlarmNext
<1> QED
  BY <1>1, <1>2, LifecycleTypes, PTL DEF Spec

(* The loss of the contact is reported only after tasks have held the thread  *)
(* for the threshold, less a period (main.rs:331-345, health.rs:59-66).       *)
THEOREM NoFalseAlarmCorrect == Spec => []NoFalseAlarm
<1>1. AlarmInv => NoFalseAlarm
  BY DEF AlarmInv
<1> QED
  BY <1>1, AlarmAlways, PTL

-----------------------------------------------------------------------------
(* A dead watcher *)

(* No step of a watcher revives a dead one, and none dies before main sleeps. *)
LEMMA DeathOfPair ==
    ASSUME TypeOK, PhaseInv, NEW p \in Pairs, Pass(p) \/ Other(p)
    PROVE  /\ ~Alive' \/ main' = main
           /\ Alive' /\ SomeDead => SomeDead'
           /\ Alive' /\ SomeDead' => main.pc = "monitor"
<1>1. CASE Booting /\ Exit("exit1")
  BY <1>1, ExitPcs DEF Ended
<1>2. CASE Allowed(p)
  <2>1. main' = main /\ \A q \in Pairs \ {p} : watcher'[q] = watcher[q]
    BY <1>2 DEF Allowed, Goes
  <2>2. Alive => (Dead(p) => Dead(p)')
    BY <1>2 DEF Allowed, Alive, Dead, PhaseInv, PhaseOfWatchers, Booting, Running
  <2>3. Alive /\ SomeDead => SomeDead'
    BY <2>1, <2>2 DEF SomeDead, Dead
  <2>4. ASSUME NEW q \in Pairs, Dead(q)', Alive, main.pc # "monitor" PROVE FALSE
    <3>1. CASE q = p
      BY <1>2, <2>1, <2>4, <3>1 DEF Allowed, Alive, Dead, Booting, BootPcs
    <3>2. CASE q # p
      BY <2>1, <2>4, <3>2 DEF Alive, Dead, PhaseInv, PhaseOfWatchers, Booting, Running
    <3> QED
      BY <3>1, <3>2
  <2> QED
    BY <2>1, <2>3, <2>4 DEF SomeDead, Alive
<1> QED
  BY <1>1, <1>2, PassAllowed, OtherAllowed

(* Every step keeps the age of a death bounded. *)
LEMMA DeathNext ==
    ASSUME TypeOK, PhaseInv, DeathAge, [Next]_vars
    PROVE  DeathAge'
<1>1. Period \in Nat /\ overdue \in Nat /\ main.left \in Nat
  BY LifecycleAssumption DEF TypeOK
<1>2. CASE UNCHANGED <<main, watcher, overdue>>
  BY <1>2 DEF DeathAge, SomeDead, Dead, Alive
<1>3. ASSUME NEW status \in Ended, Exit(status) PROVE DeathAge'
  BY <1>3, ExitPcs DEF DeathAge, Ended
<1>4. SomeDead /\ Alive => main.pc = "monitor"
  BY DEF SomeDead, Dead, Alive, PhaseInv, PhaseOfWatchers, Booting, Running
<1>5. CASE Main /\ UNCHANGED watcher
  <2>1. overdue' = overdue /\ (SomeDead' <=> SomeDead)
    BY <1>5 DEF Main, Start, Install, AskVersion, mark_ready, register_watchers, Monitor,
       ages, SomeDead, Dead
  <2>2. Alive
    BY <1>5 DEF Main, Start, Install, AskVersion, mark_ready, register_watchers, Monitor,
       Alive, Booting
  <2>3. main'.pc = "monitor" => main' = main \/ (main'.left = Period /\ ~SomeDead)
    <3>1. CASE Start \/ AskVersion \/ mark_ready
      BY <3>1, ExitPcs DEF Start, AskVersion, mark_ready, Ended
    <3>2. CASE Install
      BY <3>2 DEF Install
    <3>3. CASE register_watchers
      BY <1>4, <2>2, <3>3 DEF register_watchers
    <3>4. CASE Monitor
      BY <3>4 DEF Monitor, Exit, SomeDead, TypeOK
    <3> QED
      BY <1>5, <3>1, <3>2, <3>3, <3>4 DEF Main
  <2> QED
    BY <1>1, <2>1, <2>2, <2>3 DEF DeathAge
<1>6. CASE Main /\ ~UNCHANGED watcher
  <2>1. \E status \in Ended : Exit(status)
    BY <1>6 DEF Main, Start, Install, AskVersion, mark_ready, register_watchers, Monitor, Ended
  <2> QED
    BY <1>3, <2>1
<1>7. ASSUME NEW p \in Pairs, Pass(p) \/ Other(p) PROVE DeathAge'
  <2>1. overdue' = overdue
    BY <1>7, PairHealth
  <2>2. CASE ~Alive'
    BY <2>2 DEF DeathAge, Alive
  <2>3. CASE Alive'
    <3>1. main' = main /\ (SomeDead => SomeDead') /\ Alive
      BY <1>7, <2>3, DeathOfPair DEF Alive
    <3> QED
      BY <1>1, <2>1, <3>1 DEF DeathAge, Alive
  <2> QED
    BY <2>2, <2>3
<1>8. CASE Tick
  <2>1. main'.pc = main.pc /\ Alive /\ Alive'
    BY <1>8 DEF Tick, TypeOK, Alive
  <2>2. SomeDead' <=> SomeDead
    BY <1>8 DEF Tick, SomeDead, Dead, TypeOK, Watcher
  <2>3. overdue' = IF Free /\ SomeDead THEN Later(overdue, Period + 1) ELSE overdue
    BY <1>8 DEF Tick, SomeDead
  <2>4. overdue' <= overdue + 1 /\ overdue' \in Nat
    BY <1>1, <2>3 DEF Later
  <2>5. CASE main.pc = "monitor"
    BY <1>1, <1>8, <2>1, <2>2, <2>3, <2>4, <2>5, TickInMonitor DEF DeathAge
  <2>6. CASE main.pc # "monitor"
    BY <1>4, <2>1, <2>2, <2>3, <2>6 DEF DeathAge
  <2> QED
    BY <2>5, <2>6
<1>9. CASE Sigterm \/ Probe
  BY <1>2, <1>9 DEF Sigterm, Probe, ages
<1>10. CASE Terminate
  BY <1>3, <1>10 DEF Terminate, Ended
<1> QED
  BY <1>2, <1>5, <1>6, <1>7, <1>8, <1>9, <1>10 DEF Next, vars, ages

(* Every step finds a dead watcher in time. *)
LEMMA OverdueNext == TypeOK /\ MonitorInv /\ [Next]_vars => MonitorInv'
<1> SUFFICES ASSUME TypeOK, MonitorInv, [Next]_vars PROVE MonitorOnTime'
  BY PhaseNext, DeathNext DEF MonitorInv
<1>1. DeathAge' /\ PhaseInv' /\ TypeOK'
  BY PhaseNext, DeathNext, NextType DEF MonitorInv
<1>2. CASE Alive'
  <2>1. SomeDead' => main'.pc = "monitor"
    BY <1>1, <1>2 DEF SomeDead, Dead, Alive, PhaseInv, PhaseOfWatchers, Booting, Running
  <2>2. overdue' \in Nat /\ main'.left \in Nat /\ Period \in Nat
    BY <1>1, LifecycleAssumption DEF TypeOK
  <2> QED
    BY <1>1, <1>2, <2>1, <2>2 DEF DeathAge, MonitorOnTime
<1>3. CASE ~Alive'
  <2>1. CASE UNCHANGED overdue
    BY <2>1 DEF MonitorInv, MonitorOnTime
  <2>2. ~Tick
    BY <1>3 DEF Tick, Alive, TypeOK
  <2>3. ASSUME NEW p \in Pairs, Pass(p) \/ Other(p) PROVE UNCHANGED overdue
    BY <2>3, PairHealth DEF MonitorInv
  <2>4. CASE Main \/ Sigterm \/ Terminate \/ Probe
    BY <2>1, <2>4 DEF Main, Start, Install, AskVersion, mark_ready, register_watchers, Monitor,
       Sigterm, Terminate, Probe, ages
  <2> QED
    BY <2>1, <2>2, <2>3, <2>4 DEF Next, vars, ages
<1> QED
  BY <1>2, <1>3

(* The age of a death in every behaviour. *)
LEMMA MonitorAlways == Spec => []MonitorInv
<1>1. Init => MonitorInv
  BY PhaseInit, PcOf, LifecycleAssumption
     DEF MonitorInv, DeathAge, MonitorOnTime, Init
<1>2. TypeOK /\ MonitorInv /\ [Next]_vars => MonitorInv'
  BY OverdueNext
<1> QED
  BY <1>1, <1>2, LifecycleTypes, PTL DEF Spec

(* A watcher that dies is noticed by the monitor loop within one period, not  *)
(* counting the time for which another task holds the thread (main.rs:331-345). *)
THEOREM MonitorOnTimeCorrect == Spec => []MonitorOnTime
<1>1. MonitorInv => MonitorOnTime
  BY DEF MonitorInv
<1> QED
  BY <1>1, MonitorAlways, PTL
-----------------------------------------------------------------------------
(* Budgets *)

(* Products of natural numbers, as the budgets need them. *)
LEMMA Products ==
    ASSUME NEW c \in Nat
    PROVE  /\ \A a \in Nat : a * c \in Nat /\ (a + 1) * c = a * c + c
           /\ \A a, b \in Nat : a <= b => a * c <= b * c
<1>1. \A a \in Nat : a * c \in Nat /\ (a + 1) * c = a * c + c
  OBVIOUS
<1>2. ASSUME NEW a \in Nat, NEW b \in Nat, a <= b PROVE a * c <= b * c
  <2>1. b - a \in Nat /\ (b - a) * c \in Nat
    BY <1>2
  <2>2. b * c = a * c + (b - a) * c
    BY <1>2
  <2>3. a * c \in Nat
    OBVIOUS
  <2> QED
    BY <2>1, <2>2, <2>3
<1> QED
  BY <1>1, <1>2

(* The first attempt is a call; the next one costs its delay besides. *)
LEMMA CallBudgetStep ==
    /\ CallBudget(1) = CallTime
    /\ \A n \in Nat \ {0} : CallBudget(n) + CallTime + Delay(n) <= CallBudget(n + 1)
<1>1. CallTime \in Nat /\ Cap \in Nat
  BY LifecycleAssumption, RetryAssumption
<1>2. CallBudget(1) = CallTime
  BY <1>1 DEF CallBudget
<1>3. ASSUME NEW n \in Nat \ {0} PROVE CallBudget(n) + CallTime + Delay(n) <= CallBudget(n + 1)
  <2>1. (n + 1) * CallTime = n * CallTime + CallTime /\ n * CallTime \in Nat
    BY <1>1, Products
  <2>2. Delay(n) \in 0..Cap
    BY DelayBound
  <2>3. CASE n = 1
    <3>1. Delay(n) = 0
      BY <2>3, NoEarlyDelay
    <3> QED
      BY <1>1, <2>1, <2>3, <3>1 DEF CallBudget
  <2>4. CASE n > 1
    <3>1. (n - 2 + 1) * Cap = (n - 2) * Cap + Cap /\ (n - 2) * Cap \in Nat
      BY <1>1, <2>4, Products
    <3>2. CallBudget(n) = n * CallTime + (n - 2) * Cap
      <4>1. CASE n = 2
        BY <1>1, <4>1 DEF CallBudget
      <4>2. CASE n > 2
        BY <4>2 DEF CallBudget
      <4> QED
        BY <2>4, <4>1, <4>2
    <3>3. CallBudget(n + 1) = (n + 1) * CallTime + (n - 2 + 1) * Cap
      BY <2>4 DEF CallBudget
    <3> QED
      BY <1>1, <2>1, <2>2, <3>1, <3>2, <3>3
  <2> QED
    BY <2>3, <2>4
<1> QED
  BY <1>2, <1>3

(* More attempts cost no less. *)
LEMMA CallBudgetMonotonic ==
    \A m, n \in Nat : m <= n => CallBudget(m) <= CallBudget(n)
<1> SUFFICES ASSUME NEW m \in Nat, NEW n \in Nat, m <= n PROVE CallBudget(m) <= CallBudget(n)
  OBVIOUS
<1> DEFINE delays(k) == IF k > 2 THEN k - 2 ELSE 0
<1>1. m * CallTime <= n * CallTime /\ m * CallTime \in Nat /\ n * CallTime \in Nat
  BY Products, LifecycleAssumption
<1>2. delays(m) \in Nat /\ delays(n) \in Nat /\ delays(m) <= delays(n)
  OBVIOUS
<1> HIDE DEF delays
<1>3. delays(m) * Cap <= delays(n) * Cap /\ delays(m) * Cap \in Nat /\ delays(n) * Cap \in Nat
  BY <1>2, Products, RetryAssumption
<1>4. /\ CallBudget(m) = m * CallTime + delays(m) * Cap
      /\ CallBudget(n) = n * CallTime + delays(n) * Cap
  BY DEF CallBudget, delays
<1> QED
  BY <1>1, <1>3, <1>4

(* What is left of a pass is a length of time. *)
LEMMA PassLeftType ==
    ASSUME NEW w \in Watcher
    PROVE  /\ PassLeft(w) \in Nat /\ CallLeft(w) \in Nat
           /\ CallsAfter(w) * CallBudget(Total + 1) \in Nat
<1> DEFINE B == CallBudget(Total + 1)
<1>1. /\ w.timer \in Nat /\ w.try \in 0..Total /\ w.extra \in 0..Extra /\ Total \in Nat
      /\ CallTime \in Nat /\ Extra \in Nat
  BY RetryAssumption, LifecycleAssumption DEF Watcher
<1>2. CallBudget(w.try + 1) \in Nat /\ B \in Nat
  BY <1>1, CallBudgetType
<1>3. CallBudget(w.try + 1) <= B
  BY <1>1, CallBudgetMonotonic
<1>4. CallsAfter(w) \in Nat
  BY <1>1 DEF CallsAfter
<1> HIDE DEF B
<1>5. CallsAfter(w) * B \in Nat
  BY <1>2, <1>4, Products
<1>6. CallLeft(w) \in Nat
  BY <1>1, <1>2, <1>3 DEF CallLeft, B
<1> QED
  BY <1>5, <1>6 DEF PassLeft, B

-----------------------------------------------------------------------------
(* What is left of a pass in the states the actions build *)

(* The first attempt of a call costs no more than one call's budget. *)
LEMMA FirstAttemptLeft ==
    ASSUME NEW pc \in {"list", "fetch", "request"}, NEW extra \in 0..Extra
    PROVE  /\ CallLeft(Attempt(pc, 0, extra)) = CallBudget(Total + 1)
           /\ pc # "request" =>
                PassLeft(Attempt(pc, 0, extra)) = CallBudget(Total + 1) + (extra + 1) * CallBudget(Total + 1)
           /\ pc = "request" => PassLeft(Attempt(pc, 0, extra)) = CallBudget(Total + 1)
<1> DEFINE w == Attempt(pc, 0, extra)
<1>1. Delay(0) = 0
  BY NoEarlyDelay
<1>2. w.pc = pc /\ w.timer = CallTime /\ ~w.asleep /\ w.try = 0 /\ w.extra = extra
  <2>1. ~(Delay(0) > 0)
    BY <1>1
  <2> QED
    BY <2>1, Zenon DEF Attempt
<1> HIDE DEF w
<1>3. CallBudget(Total + 1) \in Nat /\ CallBudget(0 + 1) = CallTime /\ CallTime \in Nat
  BY CallBudgetType, CallBudgetStep, RetryAssumption, LifecycleAssumption
<1>4. CallLeft(w) = CallBudget(Total + 1)
  BY <1>2, <1>3 DEF CallLeft
<1>5. CASE pc # "request"
  BY <1>2, <1>4, <1>5 DEF PassLeft, CallsAfter, w
<1>6. CASE pc = "request"
  <2>1. CallsAfter(w) = 0 /\ 0 * CallBudget(Total + 1) = 0
    BY <1>2, <1>3, <1>6 DEF CallsAfter
  <2> QED
    BY <1>2, <1>3, <1>4, <1>6, <2>1 DEF PassLeft, w
<1> QED
  BY <1>4, <1>5, <1>6 DEF w

(* The next attempt of a call costs no more than what is left of the call. *)
LEMMA NextAttemptLeft ==
    ASSUME NEW w \in Watcher, w.pc \in {"list", "fetch", "request"}, w.try + 1 \in 0..Total
    PROVE  PassLeft(Attempt(w.pc, w.try + 1, w.extra)) <= PassLeft(w)
<1> DEFINE v == Attempt(w.pc, w.try + 1, w.extra)
           B == CallBudget(Total + 1)
<1>1. w.try \in Nat /\ w.timer \in Nat /\ w.extra \in 0..Extra /\ CallTime \in Nat /\ Cap \in Nat
  BY RetryAssumption, LifecycleAssumption DEF Watcher
<1>2. /\ v.pc = w.pc /\ v.try = w.try + 1 /\ v.extra = w.extra
      /\ v.timer + (IF v.asleep THEN CallTime ELSE 0) = CallTime + Delay(w.try + 1)
  <2>1. Delay(w.try + 1) \in Nat
    BY <1>1, DelayBound
  <2>2. v.pc = w.pc /\ v.try = w.try + 1 /\ v.extra = w.extra
    BY DEF Attempt
  <2>3. CASE Delay(w.try + 1) > 0
    <3>1. v.asleep /\ v.timer = Delay(w.try + 1)
      BY <2>3, Zenon DEF Attempt
    <3> HIDE DEF v
    <3> QED
      BY <1>1, <2>1, <2>2, <3>1
  <2>4. CASE ~(Delay(w.try + 1) > 0)
    <3>1. ~v.asleep /\ v.timer = CallTime
      BY <2>4, Zenon DEF Attempt
    <3>2. Delay(w.try + 1) = 0
      BY <2>1, <2>4
    <3> HIDE DEF v
    <3> QED
      BY <1>1, <2>1, <2>2, <3>1, <3>2
  <2> QED
    BY <2>3, <2>4
<1>3. CallBudget(w.try + 1) + CallTime + Delay(w.try + 1) <= CallBudget(w.try + 2)
  <2>1. w.try + 1 \in Nat \ {0} /\ w.try + 1 + 1 = w.try + 2
    BY <1>1
  <2> QED
    BY <2>1, CallBudgetStep
<1>4. CallBudget(w.try + 1) \in Nat /\ CallBudget(w.try + 2) \in Nat /\ B \in Nat
      /\ Delay(w.try + 1) \in Nat
  BY <1>1, CallBudgetType, DelayBound, RetryAssumption
<1> HIDE DEF B, v
<1>5. CallLeft(v) = CallTime + Delay(w.try + 1) + B - CallBudget(w.try + 2)
  <2>1. v.try + 1 = w.try + 2
    BY <1>1, <1>2
  <2> QED
    BY <1>2, <2>1 DEF CallLeft, B
<1>6. CallLeft(w) = w.timer + (IF w.asleep THEN CallTime ELSE 0) + B - CallBudget(w.try + 1)
  BY DEF CallLeft, B
<1>7. CallLeft(v) <= CallLeft(w)
  BY <1>1, <1>3, <1>4, <1>5, <1>6
<1>8. CallsAfter(v) = CallsAfter(w)
  BY <1>2 DEF CallsAfter
<1>9. PassLeft(v) = CallLeft(v) + CallsAfter(w) * B /\ PassLeft(w) = CallLeft(w) + CallsAfter(w) * B
  BY <1>2, <1>8 DEF PassLeft, B
<1>10. CallLeft(v) \in Int /\ CallLeft(w) \in Int /\ CallsAfter(w) * B \in Int
  BY <1>1, <1>4, <1>5, PassLeftType DEF B
<1> QED
  BY <1>7, <1>9, <1>10 DEF v

(* States without a call: writing files, a script, the end of the pass. *)
LEMMA RestingLeft ==
    /\ \A extra : PassLeft(Busy(extra)) = 0 + (extra + 1) * CallBudget(Total + 1)
    /\ PassLeft(At("script")) = 0 + 1 * CallBudget(Total + 1)
<1>1. \A extra : Busy(extra).pc = "busy" /\ Busy(extra).extra = extra
  BY DEF Busy, At
<1>2. At("script").pc = "script"
  BY DEF At
<1> QED
  BY <1>1, <1>2 DEF PassLeft, CallsAfter

(* A watcher that waits for a call has at least the calls after it left. *)
LEMMA CallsAfterLeft ==
    ASSUME NEW w \in Watcher
    PROVE  /\ w.pc \in {"list", "fetch", "busy"} =>
                 (w.extra + 1) * CallBudget(Total + 1) <= PassLeft(w)
           /\ w.pc = "script" => CallBudget(Total + 1) <= PassLeft(w)
<1>1. CallLeft(w) \in Nat /\ CallsAfter(w) * CallBudget(Total + 1) \in Nat
  BY PassLeftType
<1>2. CallBudget(Total + 1) \in Nat
  BY CallBudgetType, RetryAssumption
<1>3. CASE w.pc \in {"list", "fetch", "busy"}
  <2>1. CallsAfter(w) = w.extra + 1
    BY <1>3 DEF CallsAfter
  <2> QED
    BY <1>1, <1>3, <2>1 DEF PassLeft
<1>4. CASE w.pc = "script"
  <2>1. CallsAfter(w) * CallBudget(Total + 1) = CallBudget(Total + 1)
    BY <1>2, <1>4 DEF CallsAfter
  <2> QED
    BY <1>2, <1>4, <2>1 DEF PassLeft
<1> QED
  BY <1>3, <1>4

(* Waking up replaces the delay by the call it preceded. *)
LEMMA WakeUpLeft ==
    ASSUME NEW w \in Watcher, w.asleep, w.timer = 0
    PROVE  PassLeft([w EXCEPT !.asleep = FALSE, !.timer = CallTime]) = PassLeft(w)
<1> DEFINE v == [w EXCEPT !.asleep = FALSE, !.timer = CallTime]
<1>1. v.pc = w.pc /\ v.try = w.try /\ v.extra = w.extra /\ v.timer = CallTime
  BY DEF Watcher
<1>2. ~v.asleep
  BY Zenon DEF Watcher
<1> HIDE DEF v
<1>3. v.timer + (IF v.asleep THEN CallTime ELSE 0) = w.timer + (IF w.asleep THEN CallTime ELSE 0)
  BY <1>1, <1>2, LifecycleAssumption
<1>4. CallLeft(v) = CallLeft(w)
  BY <1>1, <1>3 DEF CallLeft
<1> QED
  BY <1>1, <1>4 DEF PassLeft, CallsAfter, v

(* A tick leaves a watcher's record one. *)
LEMMA TickRecordType ==
    ASSUME NEW w \in Watcher
    PROVE  [w EXCEPT !.timer = Sooner(w.timer)] \in Watcher
<1>1. Sooner(w.timer) \in Nat
  BY DEF Sooner, Watcher
<1> QED
  BY <1>1 DEF Watcher

(* Time goes on: a call that runs gets nearer to its end. *)
LEMMA TickLeft ==
    ASSUME NEW w \in Watcher
    PROVE  LET v == [w EXCEPT !.timer = Sooner(w.timer)]
           IN  /\ v.pc = w.pc /\ PassLeft(v) <= PassLeft(w)
               /\ w.timer > 0 /\ w.pc \in {"list", "fetch", "request"}
                    => PassLeft(v) = PassLeft(w) - 1
<1> DEFINE v == [w EXCEPT !.timer = Sooner(w.timer)]
           B == CallBudget(Total + 1)
<1>1. v.pc = w.pc /\ v.try = w.try /\ v.extra = w.extra /\ v.timer = Sooner(w.timer)
  BY DEF Watcher
<1>2. v.asleep = w.asleep
  BY Zenon DEF Watcher
<1> HIDE DEF v
<1>3. /\ w.timer \in Nat /\ w.try \in Nat /\ CallTime \in Nat
      /\ B \in Nat /\ CallBudget(w.try + 1) \in Nat
  BY CallBudgetType, RetryAssumption, LifecycleAssumption DEF Watcher
<1> DEFINE rest == (IF w.asleep THEN CallTime ELSE 0)
<1>4. rest \in Nat
  BY <1>3
<1> HIDE DEF rest, B
<1>5. /\ CallLeft(v) = v.timer + rest + B - CallBudget(w.try + 1)
      /\ CallLeft(w) = w.timer + rest + B - CallBudget(w.try + 1)
  BY <1>1, <1>2 DEF CallLeft, rest, B
<1>6. /\ v.timer \in Nat /\ v.timer <= w.timer
      /\ w.timer > 0 => v.timer = w.timer - 1
  BY <1>1, <1>3 DEF Sooner
<1>7. CallsAfter(v) = CallsAfter(w)
  BY <1>1 DEF CallsAfter
<1>8. CallsAfter(w) * B \in Nat
  BY PassLeftType DEF B
<1>9. CASE w.pc \in {"list", "fetch", "request"}
  <2>1. PassLeft(v) = CallLeft(v) + CallsAfter(w) * B /\ PassLeft(w) = CallLeft(w) + CallsAfter(w) * B
    BY <1>1, <1>7, <1>9 DEF PassLeft, B
  <2> QED
    BY <1>1, <1>3, <1>4, <1>5, <1>6, <1>8, <2>1 DEF v
<1>10. CASE w.pc \notin {"list", "fetch", "request"}
  <2>1. PassLeft(v) = PassLeft(w) /\ PassLeft(w) \in Nat
    BY <1>1, <1>7, <1>10, PassLeftType DEF PassLeft
  <2> QED
    BY <1>1, <1>10, <2>1 DEF v
<1> QED
  BY <1>9, <1>10

-----------------------------------------------------------------------------
(* The steps of the initial sync *)

(* The watcher of the pass goes on within its budget, finishes, or ends the   *)
(* process.                                                                   *)
Spends(p) ==
    \/ Exit("exit1")
    \/ /\ Set(p, watcher'[p]) /\ synced' = synced /\ watcher'[p].pc # "off"
       /\ PassLeft(watcher'[p]) <= PassLeft(watcher[p])
    \/ Set(p, At("off")) /\ synced' = synced \union {p}

(* A new state with no more left of the pass spends time. *)
LEMMA SetSpends ==
    ASSUME WatcherType, NEW p \in Pairs, NEW state, Set(p, state), synced' = synced,
           state.pc # "off", PassLeft(state) <= PassLeft(watcher[p])
    PROVE  Spends(p)
BY SetGoes DEF Spends

(* A pass that ends spends what it had left. *)
LEMMA FinishedSpends ==
    ASSUME Booting, NEW p \in Pairs, Finished(p)
    PROVE  Spends(p)
BY DEF Finished, Spends

(* The request after a pass is within what is left of it. *)
LEMMA NotifySpends ==
    ASSUME WatcherType, Booting, NEW p \in Pairs, Notify(p),
           CallBudget(Total + 1) <= PassLeft(watcher[p])
    PROVE  Spends(p)
<1>1. PassLeft(Attempt("request", 0, 0)) = CallBudget(Total + 1)
  BY FirstAttemptLeft, LifecycleAssumption
<1> QED
  BY <1>1, SetSpends, FinishedSpends, PcOf DEF Notify

(* A further attempt is within what is left of the call. *)
LEMMA AgainSpends ==
    ASSUME WatcherType, NEW p \in Pairs, Set(p, Again(p)), synced' = synced,
           watcher[p].pc \in {"list", "fetch", "request"}, watcher[p].try + 1 \in 0..Total
    PROVE  Spends(p)
<1>1. watcher[p] \in Watcher
  BY DEF WatcherType
<1>2. PassLeft(Again(p)) <= PassLeft(watcher[p])
  BY <1>1, NextAttemptLeft DEF Again
<1> QED
  BY <1>2, SetSpends, PcOf

(* Every step of a pass spends of its budget. *)
LEMMA PassSpends ==
    ASSUME TypeOK, PhaseInv, Booting, NEW p \in Pairs, Running(p), Pass(p)
    PROVE  Spends(p)
<1> DEFINE w == watcher[p]
           B == CallBudget(Total + 1)
<1> USE DEF health, ages
<1>1. WatcherType /\ w \in Watcher /\ w.try \in Nat /\ w.extra \in 0..Extra /\ w.extra \in Nat
  BY RetryAssumption, LifecycleAssumption DEF TypeOK, WatcherType, Watcher
<1>2. B \in Nat /\ PassLeft(w) \in Nat
  BY <1>1, CallBudgetType, PassLeftType, RetryAssumption
<1>3. (w.extra + 1) * B = w.extra * B + B /\ w.extra * B \in Nat
  BY <1>1, <1>2, Products
<1>4. w.pc \in {"list", "fetch", "busy"} => (w.extra + 1) * B <= PassLeft(w)
  BY <1>1, CallsAfterLeft
<1>5. CASE WakeUp(p)
  <2>1. synced' = synced /\ w.timer = 0 /\ w.pc # "sleep"
    BY <1>5 DEF WakeUp, PhaseInv, PhaseOfWatchers
  <2>2. w.asleep /\ Set(p, [w EXCEPT !.asleep = FALSE, !.timer = CallTime])
    BY <1>5, <2>1 DEF WakeUp
  <2>3. PassLeft([w EXCEPT !.asleep = FALSE, !.timer = CallTime]) <= PassLeft(w)
    <3>1. PassLeft([w EXCEPT !.asleep = FALSE, !.timer = CallTime]) = PassLeft(w)
      BY <1>1, <2>1, <2>2, WakeUpLeft, Zenon
    <3>2. PassLeft(w) <= PassLeft(w)
      BY <1>2
    <3> QED
      BY <3>1, <3>2, Zenon
  <2>4. [w EXCEPT !.asleep = FALSE, !.timer = CallTime].pc # "off"
    BY <1>1 DEF Watcher, Running
  <2> QED
    BY <1>1, <2>1, <2>2, <2>3, <2>4, SetSpends
<1>6. CASE ListPage(p)
  <2>1. w.pc = "list" /\ synced' = synced
    BY <1>6 DEF ListPage, InFlight
  <2>2. CASE Set(p, Busy(w.extra))
    <3>1. PassLeft(Busy(w.extra)) <= PassLeft(w)
      BY <1>2, <1>3, <1>4, <2>1, RestingLeft
    <3> QED
      BY <1>1, <2>1, <2>2, <3>1, SetSpends, PcOf
  <2>3. CASE w.extra > 0 /\ Set(p, Attempt("list", 0, w.extra - 1))
    <3>1. w.extra - 1 \in 0..Extra /\ (w.extra - 1 + 1) * B = w.extra * B
      BY <1>1, <2>3, LifecycleAssumption
    <3>2. PassLeft(Attempt("list", 0, w.extra - 1)) = B + (w.extra - 1 + 1) * B
      BY <3>1, FirstAttemptLeft
    <3>3. PassLeft(Attempt("list", 0, w.extra - 1)) <= PassLeft(w)
      BY <1>2, <1>3, <1>4, <2>1, <3>1, <3>2
    <3> QED
      BY <1>1, <2>1, <2>3, <3>3, SetSpends, PcOf
  <2>4. ASSUME NEW outcome, TransportGoesOn(w.try, outcome), Set(p, Again(p)) PROVE Spends(p)
    BY <1>1, <2>1, <2>4, TransportHasNext, AgainSpends
  <2>5. ASSUME NEW outcome, Fail(p, outcome) PROVE Spends(p)
    BY <2>5 DEF Fail, Spends
  <2> QED
    BY <1>6, <2>2, <2>3, <2>4, <2>5 DEF ListPage
<1>7. ~Connect(p)
  BY DEF Connect, InFlight, PhaseInv, PhaseOfWatchers
<1>8. CASE Work(p)
  <2>1. w.pc = "busy" /\ B <= PassLeft(w)
    BY <1>2, <1>3, <1>4, <1>8 DEF Work
  <2>2. CASE w.extra > 0 /\ Set(p, Attempt("fetch", 0, w.extra - 1)) /\ synced' = synced
    <3>1. w.extra - 1 \in 0..Extra /\ (w.extra - 1 + 1) * B = w.extra * B
      BY <1>1, <2>2, LifecycleAssumption
    <3>2. PassLeft(Attempt("fetch", 0, w.extra - 1)) = B + (w.extra - 1 + 1) * B
      BY <3>1, FirstAttemptLeft
    <3>3. PassLeft(Attempt("fetch", 0, w.extra - 1)) <= PassLeft(w)
      BY <1>2, <1>3, <1>4, <2>1, <3>1, <3>2
    <3> QED
      BY <1>1, <2>2, <3>3, SetSpends, PcOf
  <2>3. CASE Set(p, At("script")) /\ synced' = synced
    <3>1. PassLeft(At("script")) <= PassLeft(w)
      BY <1>2, <2>1, RestingLeft
    <3> QED
      BY <1>1, <2>3, <3>1, SetSpends, PcOf
  <2> QED
    BY <1>1, <1>8, <2>1, <2>2, <2>3, FinishedSpends, NotifySpends DEF Work
<1>9. CASE Request(p)
  <2>1. w.pc \in {"fetch", "request"}
    BY <1>9 DEF Request, InFlight
  <2>2. ASSUME NEW outcome, RequestGoesOn(w.try, outcome), Set(p, Again(p)), synced' = synced
        PROVE  Spends(p)
    BY <1>1, <2>1, <2>2, RequestHasNext, AgainSpends
  <2>3. CASE w.pc = "fetch" /\ Set(p, Busy(w.extra)) /\ synced' = synced
    <3>1. PassLeft(Busy(w.extra)) <= PassLeft(w)
      BY <1>2, <1>3, <1>4, <2>3, RestingLeft
    <3> QED
      BY <1>1, <2>3, <3>1, SetSpends, PcOf
  <2> QED
    BY <1>9, <2>2, <2>3, FinishedSpends DEF Request
<1> QED
  BY <1>5, <1>6, <1>7, <1>8, <1>9 DEF Pass

(* So does every other step of a watcher, but for the start of its pass. *)
LEMMA OtherSpends ==
    ASSUME TypeOK, PhaseInv, Booting, NEW p \in Pairs, Other(p), ~BeginSync(p)
    PROVE  Spends(p)
<1>1. WatcherType /\ watcher[p] \in Watcher
  BY DEF TypeOK, WatcherType
<1>2. ~Spawn(p) /\ ~Event(p) /\ ~StreamEnds(p)
  BY DEF Spawn, Event, StreamEnds, Booting, PhaseInv, PhaseOfWatchers
<1>3. CASE EndScript(p)
  <2>1. CallBudget(Total + 1) <= PassLeft(watcher[p])
    BY <1>1, <1>3, CallsAfterLeft DEF EndScript
  <2>2. ASSUME Fail(p, "spawn"), synced' = synced PROVE Spends(p)
    BY <2>2 DEF Fail, Spends
  <2> QED
    BY <1>1, <1>3, <2>1, <2>2, FinishedSpends, NotifySpends DEF EndScript
<1> QED
  BY <1>2, <1>3 DEF Other

(* No watcher's step changes the age of the initial sync, nor where main is,  *)
(* unless it ends the process.                                                *)
LEMMA PairBootAge ==
    ASSUME NEW p \in Pairs, Pass(p) \/ Other(p)
    PROVE  bootAge' = bootAge
<1> USE DEF health, ages
<1>1. CASE Pass(p)
  BY <1>1 DEF Pass, WakeUp, ListPage, Connect, Work, Request, Heard
<1>2. CASE Other(p)
  BY <1>2 DEF Other, BeginSync, Spawn, Event, StreamEnds, EndScript
<1> QED
  BY <1>1, <1>2

(* The passes that are still to come, without p's. *)
LEMMA OthersLeft ==
    ASSUME TypeOK, NEW p \in Pairs
    PROVE  LET n == Cardinality(Pairs \ synced)
               m == Cardinality(Pairs \ (synced \union {p}))
           IN  /\ n \in Nat /\ m \in Nat
               /\ n * PassBudget \in Nat /\ m * PassBudget \in Nat
               /\ p \notin synced => n * PassBudget = m * PassBudget + PassBudget
<1> DEFINE n == Cardinality(Pairs \ synced)
           m == Cardinality(Pairs \ (synced \union {p}))
<1>1. IsFiniteSet(Pairs \ synced) /\ IsFiniteSet(Pairs \ (synced \union {p}))
  BY FS_Difference, LifecycleAssumption
<1>2. n \in Nat /\ m \in Nat
  BY <1>1, FS_CardinalityType
<1>3. p \notin synced => n = m + 1
  <2>1. (Pairs \ synced) \ {p} = Pairs \ (synced \union {p})
    OBVIOUS
  <2>2. p \notin synced => m = n - 1
    BY <1>1, <2>1, FS_RemoveElement
  <2> QED
    BY <1>2, <2>2
<1> HIDE DEF n, m
<1>4. n * PassBudget \in Nat /\ m * PassBudget \in Nat /\ (m + 1) * PassBudget = m * PassBudget + PassBudget
  BY <1>2, Products, PassBudgetType
<1> QED
  BY <1>2, <1>3, <1>4 DEF n, m

(* A first page with everything after it costs a pass. *)
LEMMA WholePassLeft == PassLeft(Attempt("list", 0, Extra)) = PassBudget
<1> DEFINE B == CallBudget(Total + 1)
<1>1. Extra \in 0..Extra /\ Extra \in Nat
  BY LifecycleAssumption
<1>2. PassLeft(Attempt("list", 0, Extra)) = B + (Extra + 1) * B
  BY <1>1, FirstAttemptLeft
<1>3. B \in Nat
  BY CallBudgetType, RetryAssumption
<1> HIDE DEF B
<1>4. (Extra + 1 + 1) * B = (Extra + 1) * B + B /\ (Extra + 1) * B \in Nat
  BY <1>1, <1>3, Products
<1>5. (2 + Extra) * B = (Extra + 1 + 1) * B
  BY <1>1
<1> QED
  BY <1>2, <1>3, <1>4, <1>5 DEF PassBudget, B

(* The budget of the initial sync is one pass for each watcher. *)
LEMMA BudgetOfAll == BootBudget = Cardinality(Pairs) * PassBudget
<1> DEFINE B == CallBudget(Total + 1)
<1>1. Cardinality(Pairs) \in Nat /\ B \in Nat /\ Extra \in Nat
  BY FS_CardinalityType, CallBudgetType, RetryAssumption, LifecycleAssumption
<1>2. \A a, b, c \in Nat : (a * b) * c = a * (b * c)
  OBVIOUS
<1> HIDE DEF B
<1>3. (Cardinality(Pairs) * (2 + Extra)) * B = Cardinality(Pairs) * ((2 + Extra) * B)
  <2>1. 2 + Extra \in Nat
    BY <1>1
  <2> QED
    BY <1>1, <1>2, <2>1
<1> QED
  BY <1>3 DEF BootBudget, PassBudget, B

-----------------------------------------------------------------------------
(* The inductive step *)

(* The initial sync begins: nobody is synced, nobody runs. *)
LEMMA BootBegins ==
    ASSUME main'.pc = "boot" \/ main'.pc = "version", bootAge' = 0, synced' = {},
           \A p \in Pairs : watcher'[p].pc = "off"
    PROVE  BootAge'
<1>1. bootAge' + Cardinality(Pairs \ synced') * PassBudget <= BootBudget
  <2>1. Pairs \ synced' = Pairs
    OBVIOUS
  <2>2. bootAge' + Cardinality(Pairs) * PassBudget = BootBudget
    BY BudgetOfAll, BootBudgetType
  <2> QED
    BY <2>1, <2>2, BootBudgetType
<1> QED
  BY <1>1 DEF BootAge, Booting, Running, Idle

(* A step of a watcher in the initial sync: it begins a pass, or spends. *)
LEMMA BootPair ==
    ASSUME TypeOK, PhaseInv, BootAge, Booting, NEW p \in Pairs, Pass(p) \/ Other(p)
    PROVE  BootAge'
<1> DEFINE n == Cardinality(Pairs \ synced)
           m == Cardinality(Pairs \ (synced \union {p}))
<1>1. bootAge' = bootAge /\ bootAge \in Nat /\ BootBudget \in Nat /\ PassBudget \in Nat
  BY PairBootAge, BootBudgetType, PassBudgetType DEF TypeOK
<1>2. WatcherType /\ watcher[p] \in Watcher /\ PassLeft(watcher[p]) \in Nat
  BY PassLeftType DEF TypeOK, WatcherType
<1>3. /\ n * PassBudget \in Nat /\ m * PassBudget \in Nat
      /\ p \notin synced => n * PassBudget = m * PassBudget + PassBudget
  BY OthersLeft
<1>4. CASE Exit("exit1")
  BY <1>4, ExitPcs DEF BootAge, Booting, Ended
<1>5. CASE BeginSync(p)
  <2>1. Idle /\ p \notin synced /\ synced' = synced /\ Set(p, Attempt("list", 0, Extra))
    BY <1>5 DEF BeginSync
  <2>2. /\ main' = main /\ watcher'[p] = Attempt("list", 0, Extra)
        /\ \A q \in Pairs \ {p} : watcher'[q].pc = "off"
    BY <1>2, <2>1, SetGoes DEF Idle
  <2>3. bootAge + n * PassBudget <= BootBudget
    BY <2>1 DEF BootAge
  <2>4. bootAge' + PassLeft(watcher'[p]) + m * PassBudget <= BootBudget
    BY <1>1, <1>3, <2>1, <2>2, <2>3, WholePassLeft
  <2>5. watcher'[p].pc = "list"
    BY <2>2, PcOf
  <2> QED
    BY <2>1, <2>2, <2>4, <2>5 DEF BootAge, Booting, Running, Idle
<1>6. CASE Spends(p) /\ Running(p)
  <2>1. Running(p)
    BY <1>6
  <2>2. p \notin synced /\ bootAge + PassLeft(watcher[p]) + m * PassBudget <= BootBudget
    BY <2>1 DEF BootAge, PhaseInv, PhaseOfWatchers
  <2>3. \A q \in Pairs \ {p} : watcher[q].pc = "off"
    BY <2>1 DEF BootAge, Running
  <2>4. CASE /\ Set(p, watcher'[p]) /\ synced' = synced /\ watcher'[p].pc # "off"
             /\ PassLeft(watcher'[p]) <= PassLeft(watcher[p])
    <3>1. main' = main /\ \A q \in Pairs \ {p} : watcher'[q].pc = "off"
      BY <1>2, <2>3, <2>4, SetGoes
    <3>2. WatcherType'
      BY <1>2, PassNextType, OtherNextType
    <3>3. PassLeft(watcher'[p]) \in Nat
      BY <3>2, PassLeftType DEF WatcherType
    <3>4. bootAge' + PassLeft(watcher'[p]) + m * PassBudget <= BootBudget
      <4> DEFINE after == m * PassBudget
      <4>1. after \in Nat /\ bootAge + PassLeft(watcher[p]) + after <= BootBudget
        BY <1>3, <2>2
      <4>2. PassLeft(watcher'[p]) <= PassLeft(watcher[p])
        BY <2>4
      <4> HIDE DEF after
      <4>3. bootAge' + PassLeft(watcher'[p]) + after <= BootBudget
        BY <1>1, <1>2, <3>3, <4>1, <4>2
      <4> QED
        BY <4>3 DEF after
    <3>5. ~Idle'
      BY <2>4 DEF Idle
    <3>6. \A q \in Pairs : Running(q)' => q = p
      BY <3>1 DEF Running
    <3>7. bootAge' + PassLeft(watcher'[p]) + Cardinality(Pairs \ (synced' \union {p})) * PassBudget
            <= BootBudget
      BY <2>4, <3>4
    <3>8. main'.pc = "boot"
      BY <3>1 DEF Booting
    <3> QED
      BY <3>5, <3>6, <3>7, <3>8 DEF BootAge, Booting
  <2>5. CASE Set(p, At("off")) /\ synced' = synced \union {p}
    <3>1. main' = main /\ \A q \in Pairs : watcher'[q].pc = "off"
      <4>1. main' = main /\ watcher'[p] = At("off") /\ \A q \in Pairs \ {p} : watcher'[q] = watcher[q]
        BY <1>2, <2>5, SetGoes
      <4>2. watcher'[p].pc = "off"
        BY <4>1, PcOf
      <4> QED
        BY <2>3, <4>1, <4>2
    <3>2. bootAge' + Cardinality(Pairs \ synced') * PassBudget <= BootBudget
      BY <1>1, <1>2, <1>3, <2>2, <2>5
    <3> QED
      BY <3>1, <3>2 DEF BootAge, Booting, Running
  <2> QED
    BY <1>4, <1>6, <2>4, <2>5 DEF Spends
<1>7. CASE ~Running(p) /\ ~BeginSync(p)
  <2>1. WakeUp(p)
    BY <1>7 DEF Pass, Other, ListPage, Connect, Work, Request, Spawn, Event, StreamEnds,
       EndScript, InFlight, Running, Booting
  <2>2. main' = main /\ synced' = synced /\ \A q \in Pairs \ {p} : watcher'[q] = watcher[q]
    BY <1>2, <1>7, <2>1, SetGoes DEF WakeUp, Running
  <2>3. watcher'[p].pc = "off"
    <3>1. watcher[p].pc = "off" /\ Set(p, [watcher[p] EXCEPT !.asleep = FALSE, !.timer = CallTime])
      BY <1>7, <2>1 DEF WakeUp, Running
    <3> QED
      BY <1>2, <3>1 DEF Set, WatcherType, Watcher
  <2> QED
    BY <1>1, <1>7, <2>2, <2>3 DEF BootAge, Booting, Running, Idle
<1> QED
  BY <1>5, <1>6, <1>7, PassSpends, OtherSpends

(* Time goes on in the initial sync: if its age counts, a call gets nearer to *)
(* its end.                                                                   *)
LEMMA BootTick ==
    ASSUME TypeOK, PhaseInv, BootAge, Booting, Tick
    PROVE  BootAge'
<1>1. main'.pc = "boot" /\ synced' = synced /\ bootAge \in Nat /\ BootBudget \in Nat
  BY BootBudgetType DEF Tick, Booting, TypeOK
<1>2. ASSUME NEW p \in Pairs
      PROVE  /\ watcher[p] \in Watcher /\ watcher[p].timer \in Nat
             /\ watcher'[p] = [watcher[p] EXCEPT !.timer = Sooner(watcher[p].timer)]
  BY DEF Tick, TypeOK, Watcher
<1>3. ASSUME NEW p \in Pairs
      PROVE  /\ watcher'[p].pc = watcher[p].pc /\ PassLeft(watcher'[p]) <= PassLeft(watcher[p])
             /\ watcher[p].timer > 0 /\ watcher[p].pc \in {"list", "fetch", "request"}
                  => PassLeft(watcher'[p]) = PassLeft(watcher[p]) - 1
  BY <1>2, TickLeft
<1>4. \A p \in Pairs : Running(p)' <=> Running(p)
  BY <1>3 DEF Running
<1>5. bootAge' \in Nat
  BY TickType, <1>1 DEF Tick, Later
<1>6. ASSUME NEW p \in Pairs, Running(p)
      PROVE  bootAge' + PassLeft(watcher'[p]) <= bootAge + PassLeft(watcher[p])
  <2>1. PassLeft(watcher'[p]) \in Nat /\ PassLeft(watcher[p]) \in Nat
    <3>1. [watcher[p] EXCEPT !.timer = Sooner(watcher[p].timer)] \in Watcher
      BY <1>2, TickRecordType
    <3> QED
      BY <1>2, <3>1, PassLeftType
  <2>2. CASE bootAge' = bootAge
    BY <1>1, <1>3, <2>1, <2>2
  <2>3. CASE bootAge' # bootAge
    <3>1. Free /\ watcher[p].pc # "script" /\ ~Due /\ bootAge' <= bootAge + 1
      BY <1>1, <2>3 DEF Tick, Later
    <3>2. watcher[p].pc \in {"list", "fetch", "request"}
      BY <1>6, <3>1 DEF Free, PhaseInv, PhaseOfWatchers, Running
    <3>3. watcher[p].timer > 0
      <4>1. watcher[p].timer # 0
        BY <3>1, <3>2 DEF Due
      <4>2. watcher[p].timer \in Nat
        BY <1>2
      <4> QED
        BY <4>1, <4>2
    <3> QED
      BY <1>1, <1>3, <1>5, <2>1, <3>1, <3>2, <3>3
  <2> QED
    BY <2>2, <2>3
<1>7. CASE Idle
  <2>1. \A p \in Pairs : ~Running(p)
    BY <1>7 DEF Idle, Running
  <2>2. bootAge' = bootAge
    <3>1. ~Free
      BY <1>7 DEF Tick, Due
    <3> QED
      BY <3>1 DEF Tick
  <2> QED
    BY <1>1, <1>4, <1>7, <2>1, <2>2 DEF BootAge, Booting
<1>8. CASE ~Idle
  <2>1. ~Idle'
    BY <1>3, <1>8 DEF Idle
  <2>2. ASSUME NEW p \in Pairs, Running(p)
        PROVE  bootAge' + PassLeft(watcher'[p])
                 + Cardinality(Pairs \ (synced' \union {p})) * PassBudget <= BootBudget
    <3> DEFINE after == Cardinality(Pairs \ (synced \union {p})) * PassBudget
    <3>1. after \in Nat
      BY OthersLeft
    <3>2. bootAge + PassLeft(watcher[p]) + after <= BootBudget
      BY <2>2 DEF BootAge
    <3>3. PassLeft(watcher[p]) \in Nat /\ PassLeft(watcher'[p]) \in Int
      <4>1. PassLeft(watcher[p]) \in Nat
        BY <1>2, PassLeftType
      <4>2. [watcher[p] EXCEPT !.timer = Sooner(watcher[p].timer)] \in Watcher
        BY <1>2, TickRecordType
      <4> QED
        BY <1>2, <4>1, <4>2, PassLeftType
    <3> HIDE DEF after
    <3>4. bootAge' + PassLeft(watcher'[p]) + after <= BootBudget
      BY <1>1, <1>5, <1>6, <2>2, <3>1, <3>2, <3>3
    <3> QED
      BY <1>1, <3>4 DEF after
  <2> QED
    BY <1>1, <1>4, <2>1, <2>2 DEF BootAge, Booting
<1> QED
  BY <1>7, <1>8

(* Every step keeps the initial sync within its budget. *)
LEMMA BootAgeNext ==
    ASSUME TypeOK, PhaseInv, BootAge, [Next]_vars
    PROVE  BootAge'
<1> USE DEF health, ages
<1>1. CASE UNCHANGED <<main, watcher, synced, bootAge>>
  BY <1>1 DEF BootAge, Booting, Running, Idle
<1>2. ASSUME NEW status \in Ended, Exit(status) PROVE BootAge'
  BY <1>2, ExitPcs DEF BootAge, Booting, Ended
<1>3. CASE main'.pc \in {"spawn", "monitor"}
  BY <1>3 DEF BootAge, Booting
<1>4. CASE Start
  <2>1. CASE /\ main' \in {[pc |-> "version", left |-> CallTime], [pc |-> "boot", left |-> 0]}
             /\ UNCHANGED watcher
    BY <1>4, <2>1, BootBegins DEF Start, BootAge, PhaseInv, PhaseOfWatchers, Running
  <2> QED
    BY <1>2, <1>4, <2>1 DEF Start, Ended
<1>5. CASE AskVersion
  <2>1. CASE main' = [pc |-> "boot", left |-> 0] /\ UNCHANGED watcher
    BY <1>5, <2>1, BootBegins DEF AskVersion, BootAge, PhaseInv, PhaseOfWatchers, Running
  <2> QED
    BY <1>2, <1>5, <2>1 DEF AskVersion, Ended
<1>6. CASE mark_ready \/ register_watchers \/ Monitor
  <2>1. main'.pc \in {"spawn", "monitor"} \/ Exit("exit0") \/ Exit("exit1")
    BY <1>6 DEF mark_ready, register_watchers, Monitor, TypeOK
  <2> QED
    BY <1>2, <1>3, <2>1 DEF Ended
<1>7. CASE Install \/ Sigterm \/ Probe
  BY <1>1, <1>7 DEF Install, Sigterm, Probe
<1>8. CASE Terminate
  BY <1>2, <1>8 DEF Terminate, Ended
<1>9. CASE Tick
  <2>1. CASE ~Booting
    <3>1. main'.pc = main.pc /\ bootAge' = bootAge /\ synced' = synced
      BY <1>9, <2>1 DEF Tick, TypeOK
    <3> QED
      BY <2>1, <3>1 DEF BootAge, Booting
  <2> QED
    BY <1>9, <2>1, BootTick
<1>10. ASSUME NEW p \in Pairs, Pass(p) \/ Other(p) PROVE BootAge'
  <2>1. CASE ~Booting
    <3>1. Allowed(p) /\ bootAge' = bootAge
      BY <1>10, <2>1, PassAllowed, OtherAllowed, PairBootAge
    <3>2. main' = main /\ (main.pc \in {"start", "version"} => synced' = synced)
      BY <3>1 DEF Allowed, Goes
    <3> QED
      BY <2>1, <3>1, <3>2 DEF BootAge, Booting
  <2> QED
    BY <1>10, <2>1, BootPair
<1> QED
  BY <1>1, <1>4, <1>5, <1>6, <1>7, <1>8, <1>9, <1>10 DEF Next, Main, vars

(* The budget bounds the time of the initial sync. *)
LEMMA BootOnTimeNext ==
    ASSUME TypeOK, BootInv, [Next]_vars
    PROVE  BootOnTime'
<1> USE DEF health, ages
<1>1. TypeOK' /\ PhaseInv' /\ BootAge'
  BY NextType, PhaseNext, BootAgeNext DEF BootInv
<1>2. CASE main'.pc = "boot"
  <2>1. bootAge' \in Nat /\ BootBudget \in Nat
    BY <1>1, BootBudgetType DEF TypeOK
  <2>2. CASE Idle'
    <3>1. Cardinality(Pairs \ synced') * PassBudget \in Nat
      <4>1. IsFiniteSet(Pairs \ synced')
        BY FS_Difference, LifecycleAssumption
      <4> QED
        BY <4>1, FS_CardinalityType, Products, PassBudgetType
    <3>2. bootAge' + Cardinality(Pairs \ synced') * PassBudget <= BootBudget
      BY <1>1, <1>2, <2>2 DEF BootAge, Booting
    <3> QED
      BY <2>1, <3>1, <3>2 DEF BootOnTime
  <2>3. ASSUME NEW p \in Pairs, Running(p)' PROVE BootOnTime'
    <3>1. Cardinality(Pairs \ (synced' \union {p})) * PassBudget \in Nat
      <4>1. IsFiniteSet(Pairs \ (synced' \union {p}))
        BY FS_Difference, LifecycleAssumption
      <4> QED
        BY <4>1, FS_CardinalityType, Products, PassBudgetType
    <3>2. PassLeft(watcher'[p]) \in Nat
      BY <1>1, PassLeftType DEF TypeOK
    <3>3. bootAge' + PassLeft(watcher'[p])
            + Cardinality(Pairs \ (synced' \union {p})) * PassBudget <= BootBudget
      BY <1>1, <1>2, <2>3 DEF BootAge, Booting
    <3> QED
      BY <2>1, <3>1, <3>2, <3>3 DEF BootOnTime
  <2> QED
    BY <2>2, <2>3 DEF Idle, Running
<1>3. CASE main'.pc # "boot"
  <2>1. CASE bootAge' = bootAge
    BY <2>1 DEF BootInv, BootOnTime
  <2>2. CASE bootAge' = 0
    BY <2>2, BootBudgetType DEF BootOnTime
  <2>3. ASSUME Tick PROVE bootAge' = bootAge
    BY <1>3, <2>3 DEF Tick, Booting, TypeOK
  <2>4. ASSUME Main \/ Sigterm \/ Terminate \/ Probe PROVE bootAge' \in {bootAge, 0}
    BY <2>4 DEF Main, Start, Install, AskVersion, mark_ready, register_watchers, Monitor,
       Sigterm, Terminate, Probe
  <2> QED
    BY <2>1, <2>2, <2>3, <2>4, PairBootAge DEF Next, vars
<1> QED
  BY <1>2, <1>3

(* The age of the initial sync in every behaviour. *)
LEMMA BootAlways == Spec => []BootInv
<1>1. Init => BootInv
  <2> SUFFICES ASSUME Init PROVE BootInv
    OBVIOUS
  <2>1. BootAge
    BY DEF Init, BootAge, Booting
  <2>2. BootOnTime
    BY BootBudgetType DEF Init, BootOnTime
  <2> QED
    BY <2>1, <2>2, PhaseInit DEF BootInv
<1>2. TypeOK /\ BootInv /\ [Next]_vars => BootInv'
  BY PhaseNext, BootAgeNext, BootOnTimeNext DEF BootInv
<1> QED
  BY <1>1, <1>2, LifecycleTypes, PTL DEF Spec

(* The initial sync takes no longer than its calls with all their retries and *)
(* delays may take, scripts and slow volumes not counted (http.rs:193-199,    *)
(* kubeapi.rs:169-184).                                                       *)
THEOREM BootOnTimeCorrect == Spec => []BootOnTime
<1>1. BootInv => BootOnTime
  BY DEF BootInv
<1> QED
  BY <1>1, BootAlways, PTL

(* The whole of the inductive invariant: the phases of the process and of its *)
(* endpoint, the ages of the contact, of the death of a watcher and of the    *)
(* initial sync (main.rs:71-346).                                             *)
THEOREM LifecycleInvCorrect == Spec => []LifecycleInv
<1>1. HonestInv /\ AlarmInv /\ MonitorInv /\ BootInv => LifecycleInv
  BY DEF LifecycleInv
<1> QED
  BY <1>1, HonestAlways, AlarmAlways, MonitorAlways, BootAlways, PTL
=============================================================================
