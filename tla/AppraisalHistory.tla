-------------------------- MODULE AppraisalHistory --------------------------
(***************************************************************************)
(* Every history a PEP key can sign, appraised submission by submission:   *)
(* events are appended one by one in any order and with any contents, and  *)
(* a checkpoint hands the events since the last accepted one to            *)
(* verifyEnforcementPolicy.  The specification compares the code's         *)
(* one-pass loop with definitions that look at the whole log at once.      *)
(***************************************************************************)
EXTENDS Appraisal

CONSTANTS
    Candidates,     \* the events that may be appended
    Times,          \* checkpoint creation times
    MaxSALifetime,  \* the requested maximum, in seconds
    Scope,          \* the requested scope
    MaxDelta,       \* bound: events per submission
    MaxEvents       \* bound: events in all

ASSUME CandidateAssumption ==
    /\ \A e \in Candidates : /\ e.type \in SessionTypes => e.key \in Keys
                             /\ e.exp \in Int /\ e.ts \in Int
    /\ MaxSALifetime \in Int

VARIABLES
    delta,      \* events appended since the last accepted checkpoint
    accepted,   \* events of all accepted submissions
    active      \* the Verifier's tracked sessions (activeStates[pep])

vars == <<delta, accepted, active>>

Init == delta = <<>> /\ accepted = <<>> /\ active = [k \in Keys |-> NoSession]

(* The PEP records an event.  A log the loop has already refused is not    *)
(* extended: the code has returned at that event.                          *)
Record(e) ==
    /\ Len(delta) < MaxDelta /\ Len(accepted \o delta) < MaxEvents
    /\ PolicyLoop(delta, active, MaxSALifetime, Scope).ok
    /\ delta' = Append(delta, e)
    /\ UNCHANGED <<accepted, active>>

(* The submission is appraised and accepted. *)
Accept(created) ==
    LET v == verifyEnforcementPolicy(delta, created, active, MaxSALifetime, Scope)
    IN  /\ delta # <<>> /\ v.ok
        /\ accepted' = accepted \o delta
        /\ active' = v.active
        /\ delta' = <<>>

Next == (\E e \in Candidates : Record(e)) \/ (\E t \in Times : Accept(t))

Spec == Init /\ [][Next]_vars

-----------------------------------------------------------------------------
(* The reference: what an acceptable log is, by position.                  *)

Earlier(log, i) == {j \in 1..(i-1) : log[j].type \in SessionTypes /\ log[j].key = log[i].key}

IsType(log, j, types) == j \in DOMAIN log /\ log[j].type \in types

Prior(log, i) == Max({0} \cup Earlier(log, i))

PriorIs(log, i, type) == IsType(log, Prior(log, i), {type})

(* The session of log[i]'s key just before i: the last activation not yet  *)
(* followed by an observed deletion, or the one carried over.              *)
Turns(log, i, k) == {j \in 1..(i-1) : /\ log[j].key = k
                                      /\ IsType(log, j, {"session_activated", "xfrm_delete_observed"})}

TrackedBefore(log, i, k, carried) ==
    LET j == Max({0} \cup Turns(log, i, k))
        intent == Max({0} \cup {n \in 1..j : log[n].key = k /\ log[n].type = "xfrm_apply_intent"})
    IN  CASE j = 0                             -> carried[k]
          [] IsType(log, j, {"session_activated"}) -> [exp |-> log[j].exp, plan |-> log[intent].plan]
          [] OTHER                             -> NoSession

RightlyPlaced(log, i, carried) ==
    LET e == log[i]
        tracked == TrackedBefore(log, i, e.key, carried)
    IN  CASE e.type = "xfrm_apply_intent" ->
               /\ Earlier(log, i) = {} /\ carried[e.key] = NoSession /\ e.plan # NoPlan
               /\ e.exp # NoTime /\ (MaxSALifetime > 0 => e.exp <= e.ts + MaxSALifetime + 1)
          [] e.type = "xfrm_apply_observed" ->
               /\ PriorIs(log, i, "xfrm_apply_intent")
               /\ e.plan = log[Prior(log, i)].plan /\ ProfileSatisfied(e.obs)
          [] e.type = "session_activated" -> PriorIs(log, i, "xfrm_apply_observed") /\ e.exp # NoTime
          [] e.type = "session_expired" ->
               tracked # NoSession /\ e.exp = tracked.exp /\ e.ts >= tracked.exp
          [] e.type = "xfrm_delete_intent" ->
               PriorIs(log, i, "session_expired") /\ e.plan = tracked.plan
          [] e.type = "xfrm_delete_observed" ->
               /\ PriorIs(log, i, "xfrm_delete_intent")
               /\ e.plan = log[Prior(log, i)].plan /\ ProfileSatisfied(e.obs)

AcceptableLog(log, created, carried) ==
    /\ \A i \in DOMAIN log :
          /\ log[i].type \in AllowedTypes
          /\ log[i].service \in Scope \cup {NoService} \/ "*" \in Scope
          /\ log[i].type \in SessionTypes => log[i].whole /\ RightlyPlaced(log, i, carried)
    /\ \A i \in DOMAIN log :      \* no transaction is left open
          log[i].type \in {"xfrm_apply_intent", "xfrm_apply_observed",
                           "session_expired", "xfrm_delete_intent"}
          => \E n \in DOMAIN log : log[n].type \in SessionTypes /\ i \in Earlier(log, n)
    /\ \A k \in Keys :
          LET t == TrackedBefore(log, Len(log) + 1, k, carried)
          IN  t # NoSession => created < t.exp

(* PROPERTY.  The loop of verifyEnforcementPolicy, which keeps one stage   *)
(* per session key and returns at the first error, accepts exactly the     *)
(* acceptable logs.                                                        *)
AppraisalIsReference ==
    \A t \in Times :
        verifyEnforcementPolicy(delta, t, active, MaxSALifetime, Scope).ok
            <=> AcceptableLog(delta, t, active)

(* PROPERTY.  The tracked sessions carried from submission to submission   *)
(* are what the whole accepted history says: no activation is forgotten at *)
(* a checkpoint boundary and no deletion leaves a session behind.          *)
TrackedIsHistory ==
    \A k \in Keys :
        active[k] = TrackedBefore(accepted, Len(accepted) + 1, k, [x \in Keys |-> NoSession])

(* PROPERTY.  Over the whole accepted history, whatever the checkpoint     *)
(* boundaries, an observed deletion takes away a session that was          *)
(* activated and whose expiry has passed when session_expired was stamped, *)
(* and no session is activated while it is still installed.                *)
DeletionsFollowExpiry ==
    \A i \in DOMAIN accepted :
        LET before == TrackedBefore(accepted, i, accepted[i].key, [x \in Keys |-> NoSession])
        IN  /\ accepted[i].type = "session_activated" => before = NoSession
            /\ accepted[i].type = "xfrm_delete_observed" =>
                 /\ before # NoSession
                 /\ \E j \in Earlier(accepted, i) :
                       accepted[j].type = "session_expired" /\ accepted[j].ts >= before.exp

=============================================================================
