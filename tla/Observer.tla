------------------------------ MODULE Observer ------------------------------
(***************************************************************************)
(* The XFRM observer of the PEP (pep/xfrm_observer.go): a monitor process  *)
(* prints a line for each XFRM function the kernel runs, a goroutine reads *)
(* the lines into a bounded buffer, and a transaction counts the lines     *)
(* that came in since it marked the buffer.  Transactions apply and delete *)
(* one session after another, as historyTransactionMu lets one run at a    *)
(* time; the reaper tries a failed delete again.                           *)
(*                                                                         *)
(* The kernel probes are global: other programs' XFRM activity is printed  *)
(* too.  An event keeps its number in the order printed, which the code    *)
(* does not know.                                                          *)
(***************************************************************************)
EXTENDS Naturals, Sequences, FiniteSets, SequencesExt

CONSTANTS
    Configurations, \* of XFRM_OBSERVER, XFRM_EBPF_STRICT and PEP_REQUIRED_OBSERVER_PROFILE
    NCommands,      \* commands of a plan (four in the code)
    MinEvents,      \* XFRM_EBPF_MIN_APPLY_EVENTS and _DELETE_EVENTS (2)
    Cap, Keep,      \* the buffer is cut to Keep when longer than Cap (4096, 2048)
    MaxTx, MaxForeign, MaxFaults    \* bounds

ASSUME ObserverAssumption ==
    /\ Configurations \subseteq [observer : {"posthoc", "hybrid", "ebpf"}, strict : BOOLEAN,
                                 required : {"posthoc", "hybrid", "ebpf"}]
    /\ {NCommands, MinEvents, Cap, Keep} \subseteq Nat \ {0} /\ Keep <= Cap

VARIABLES
    conf,           \* the configuration
    pep,            \* "starting", "up", "failed" (panic or log.Fatal in main)
    mode,           \* xfrmObserver.mode
    monitor,        \* the monitor process: "none", "loading", "running", "exited"
    ready,          \* xfrmObserver.ready
    pipe,           \* lines printed and not read yet
    events,         \* xfrmObserver.events
    printed, cut,   \* history: lines printed; lines trimmed off the front of events
    tx,             \* the transaction in progress
    txs,            \* transactions so far
    last,           \* the last observation: its lines, those read between its mark and
                    \* itself, and whether the buffer was not cut meanwhile
    kern,           \* the session's objects in the kernel
    table,          \* the session is in the session table
    healthy,        \* enforcementHealthy
    foreign, faults

vars == <<conf, pep, mode, monitor, ready, pipe, events, printed, cut, tx, txs, last, kern, table,
          healthy, foreign, faults>>

NoTx == [act |-> "none", todo |-> 0, mark |-> 0, after |-> 0, late |-> FALSE]
NoObservation == [seen |-> <<>>, after |-> 0, upto |-> 0, kept |-> TRUE]

Init ==
    /\ conf \in Configurations /\ mode = conf.observer /\ pep = "starting"
    /\ monitor = "none" /\ ready = FALSE
    /\ pipe = <<>> /\ events = <<>> /\ printed = 0 /\ cut = 0
    /\ tx = NoTx /\ txs = 0 /\ last = NoObservation
    /\ kern = {} /\ table = FALSE /\ healthy = TRUE
    /\ foreign = 0 /\ faults = 0

-----------------------------------------------------------------------------
(* Start-up. *)

(* start launches the monitor, which loads its probes or fails to. *)
Launch ==
    /\ pep = "starting" /\ mode # "posthoc" /\ monitor = "none"
    /\ monitor' = "loading"
    /\ UNCHANGED <<conf, pep, mode, ready, pipe, events, printed, cut, tx, txs, last, kern, table,
                   healthy, foreign, faults>>

(* The BEGIN line reaches readEvents. *)
Loaded ==
    /\ monitor = "loading"
    /\ monitor' = "running" /\ ready' = TRUE
    /\ UNCHANGED <<conf, pep, mode, pipe, events, printed, cut, tx, txs, last, kern, table,
                   healthy, foreign, faults>>

MonitorExits ==
    /\ monitor \in {"loading", "running"} /\ faults < MaxFaults
    /\ monitor' = "exited" /\ faults' = faults + 1
    /\ UNCHANGED <<conf, pep, mode, ready, pipe, events, printed, cut, tx, txs, last, kern, table,
                   healthy, foreign>>

(* validateXFRMObserverConfiguration. *)
ConfigurationValid(md) ==
    \/ conf.required = "posthoc" /\ md \in {"posthoc", "hybrid"}
    \/ conf.required \in {"hybrid", "ebpf"} /\ md = conf.required /\ ready

(* Mutant: an unavailable monitor leaves the mode as it was. *)
BugNoFallback == mode

FallbackMode == "posthoc"

(* waitReady: the monitor is ready, or has ended or takes too long, which  *)
(* is fatal when strict and a fallback otherwise.                          *)
Start(md) ==
    /\ mode' = md
    /\ pep' = IF ConfigurationValid(md) THEN "up" ELSE "failed"
    /\ UNCHANGED <<conf, monitor, ready, pipe, events, printed, cut, tx, txs, last, kern, table,
                   healthy, foreign, faults>>

WaitReady ==
    /\ pep = "starting"
    /\ \/ mode = "posthoc" /\ Start(mode)
       \/ ready /\ Start(mode)
       \/ ~ready /\ monitor \in {"loading", "exited"} /\ ~conf.strict /\ Start(FallbackMode)
       \/ /\ ~ready /\ monitor \in {"loading", "exited"} /\ conf.strict
          /\ pep' = "failed"
          /\ UNCHANGED <<conf, mode, monitor, ready, pipe, events, printed, cut, tx, txs, last, kern,
                         table, healthy, foreign, faults>>

-----------------------------------------------------------------------------
(* The monitor's lines. *)

PrintLine(act) ==
    IF monitor = "running"
    THEN /\ pipe' = Append(pipe, [n |-> printed + 1, act |-> act])
         /\ printed' = printed + 1
    ELSE UNCHANGED <<pipe, printed>>

Foreign(act) ==
    /\ foreign < MaxForeign /\ monitor = "running"
    /\ foreign' = foreign + 1
    /\ PrintLine(act)
    /\ UNCHANGED <<conf, pep, mode, monitor, ready, events, cut, tx, txs, last, kern, table, healthy,
                   faults>>

(* Mutant: the buffer grows. *)
BugUnbounded(n) == 0

Excess(n) == IF n > Cap THEN n - Keep ELSE 0

(* readEvents: one line; the buffer is cut from the front. *)
Read ==
    LET longer == Append(events, Head(pipe))
        over == Excess(Len(longer))
    IN  /\ pipe # <<>>
        /\ pipe' = Tail(pipe)
        /\ events' = SubSeq(longer, over + 1, Len(longer))
        /\ cut' = cut + over
        /\ UNCHANGED <<conf, pep, mode, monitor, ready, printed, tx, txs, last, kern, table, healthy,
                       foreign, faults>>

-----------------------------------------------------------------------------
(* Transactions. *)

(* The transaction's intent is recorded and the buffer marked (mark). *)
Begin(act) ==
    /\ pep = "up" /\ tx = NoTx /\ txs < MaxTx
    /\ IF act = "apply" THEN healthy /\ ~table ELSE table
    /\ txs' = txs + 1
    /\ tx' = [act |-> act, todo |-> NCommands, mark |-> Len(events),
               after |-> cut + Len(events), late |-> FALSE]
    /\ UNCHANGED <<conf, pep, mode, monitor, ready, pipe, events, printed, cut, last, kern, table,
                   healthy, foreign, faults>>

Effect(act, c) == IF act = "apply" THEN kern \cup {c} ELSE kern \ {c}

Printed(act) == IF act = "apply" THEN "apply" ELSE "delete"

(* A command of maybeApplyXFRM or maybeDeleteXFRM that changes the kernel, *)
(* or a delete command that finds nothing.                                 *)
Command ==
    /\ tx.todo > 0
    /\ tx' = [tx EXCEPT !.todo = @ - 1]
    /\ kern' = Effect(tx.act, tx.todo)
    /\ IF kern' # kern THEN PrintLine(Printed(tx.act)) ELSE UNCHANGED <<pipe, printed>>
    /\ UNCHANGED <<conf, pep, mode, monitor, ready, events, cut, txs, last, table, healthy, foreign,
                   faults>>

(* A delete command that fails although the object is there: ignored. *)
DeleteFails ==
    /\ tx.todo > 0 /\ tx.act = "delete" /\ tx.todo \in kern /\ faults < MaxFaults
    /\ tx' = [tx EXCEPT !.todo = @ - 1]
    /\ faults' = faults + 1
    /\ UNCHANGED <<conf, pep, mode, monitor, ready, pipe, events, printed, cut, txs, last, kern, table,
                   healthy, foreign>>

(* Mutant: a mark beyond the buffer counts from the buffer's start. *)
BugStaleMarkFromStart(mark) == SubSeq(events, IF mark > Len(events) THEN 1 ELSE mark + 1, Len(events))

eventsSince(mark) == SubSeq(events, IF mark > Len(events) THEN Len(events) + 1 ELSE mark + 1, Len(events))

OfAction(es, act) == SelectSeq(es, LAMBDA e : e.act = act)

(* The 500 ms of eventsSinceWithWait have passed. *)
Deadline ==
    /\ tx.act \in {"apply", "delete"} /\ tx.todo = 0 /\ ~tx.late
    /\ tx' = [tx EXCEPT !.late = TRUE]
    /\ UNCHANGED <<conf, pep, mode, monitor, ready, pipe, events, printed, cut, txs, last, kern, table,
                   healthy, foreign, faults>>

(* Mutant: there is no deadline. *)
BugNoDeadline(es, act) == OfAction(es, act) # <<>>

(* eventsSinceWithWait returns at the first event of the action. *)
WaitReturns(es, act) == OfAction(es, act) # <<>> \/ tx.late

(* exactSessionXFRMLookups finds the plan, or nothing of it. *)
Exact(act) == kern = IF act = "apply" THEN 1..NCommands ELSE {}

(* Mutant: hybrid mode lets the events decide. *)
BugEventsDecide(exact, matched) == IF mode = "posthoc" THEN exact ELSE matched

(* annotate: the outcome written to the history. *)
Outcome(exact, matched) == IF mode = "ebpf" THEN matched ELSE exact

(* observationMeetsLocalProfile. *)
MeetsProfile(exact, matched) ==
    /\ Outcome(exact, matched)
    /\ conf.required = "posthoc" \/ matched

(* annotate, then activateHandler or the clean-up act on it; a failed      *)
(* apply is deleted again by commands that are printed in turn.            *)
Observe ==
    LET es == IF mode = "posthoc" THEN <<>> ELSE eventsSince(tx.mark)
        matched == mode # "posthoc" /\ Len(OfAction(es, tx.act)) >= MinEvents
        exact == Exact(tx.act)
        good == MeetsProfile(exact, matched)
    IN  /\ tx.act \in {"apply", "delete"} /\ tx.todo = 0
        /\ mode = "posthoc" \/ WaitReturns(es, tx.act)
        /\ last' = [seen |-> es, after |-> tx.after, upto |-> cut + Len(events),
                    kept |-> mode # "posthoc" /\ cut = tx.after - tx.mark]
        /\ healthy' = (healthy /\ good)
        /\ table' = IF good THEN tx.act = "apply" ELSE table
        /\ tx' = IF tx.act = "apply" /\ ~good THEN [tx EXCEPT !.act = "undo", !.todo = NCommands]
                                              ELSE NoTx
        /\ UNCHANGED <<conf, pep, mode, monitor, ready, pipe, events, printed, cut, txs, kern, foreign,
                       faults>>

Undone ==
    /\ tx.act = "undo" /\ tx.todo = 0
    /\ tx' = NoTx
    /\ UNCHANGED <<conf, pep, mode, monitor, ready, pipe, events, printed, cut, txs, last, kern, table,
                   healthy, foreign, faults>>

Next ==
    \/ Launch \/ Loaded \/ MonitorExits \/ WaitReady
    \/ \E act \in {"apply", "delete"} : Foreign(act) \/ Begin(act)
    \/ Read \/ Command \/ DeleteFails \/ Deadline \/ Observe \/ Undone

Spec == Init /\ [][Next]_vars

(* The transaction's goroutine runs and its deadline passes; the monitor   *)
(* may print late, die or say nothing.                                     *)
FairSpec == Spec /\ WF_vars(Command) /\ WF_vars(Deadline) /\ WF_vars(Observe) /\ WF_vars(Undone)

-----------------------------------------------------------------------------
(* Types; the buffer is bounded and no line is lost on its way to it. *)
TypeOK ==
    /\ pep \in {"starting", "up", "failed"} /\ mode \in {"posthoc", "hybrid", "ebpf"}
    /\ Len(events) <= Cap /\ cut + Len(events) + Len(pipe) = printed
    /\ tx.todo \in 0..NCommands /\ kern \subseteq 1..NCommands

(* PROPERTY.  Marks are indices into a buffer that another goroutine cuts  *)
(* from the front.  However often it was cut in between, an observation    *)
(* holds only lines read after its transaction's mark, never a line that   *)
(* an earlier observation could have counted, and it holds all of them if  *)
(* the buffer was not cut (mark, eventsSince, readEvents).                 *)
WindowAfterMark ==
    /\ \A n \in DOMAIN last.seen : last.seen[n].n \in (last.after + 1)..last.upto
    /\ last.kept => Len(last.seen) = last.upto - last.after

(* PROPERTY.  The session table follows the kernel in the posthoc and      *)
(* hybrid modes: whatever lines were lost, late or foreign and whatever    *)
(* commands failed, between transactions a session in the table is whole   *)
(* in the kernel or a delete of it has been tried, and a healthy PEP       *)
(* without one has nothing in the kernel (annotate, activateHandler,       *)
(* cleanupExpiredSessionsUnderHistoryLock).                                *)
TableFollowsKernel ==
    tx = NoTx /\ mode # "ebpf" =>
        /\ table /\ healthy => kern = 1..NCommands
        /\ ~table /\ healthy => kern = {}

(* PROPERTY.  A PEP that must show kernel events works only with a monitor *)
(* whose probes were loaded before the first transaction, however start-up *)
(* raced with the monitor (waitReady, validateXFRMObserverConfiguration).  *)
NeverWithoutProbes ==
    pep = "up" => ready \/ mode = "posthoc"

(* PROPERTY.  An observation comes to an end with or without the monitor,  *)
(* so that historyTransactionMu is given back (eventsSinceWithWait).       *)
TransactionsEnd == (tx # NoTx) ~> (tx = NoTx)
=============================================================================
