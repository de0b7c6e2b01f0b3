----------------------------- MODULE MCAppraisal -----------------------------
(* Small instances of AppraisalHistory. *)
EXTENDS AppraisalHistory

Ev(t, k, svc, whole, plan, exp, ts, obs) ==
    [type |-> t, key |-> k, service |-> svc, whole |-> whole,
     plan |-> plan, exp |-> exp, ts |-> ts, obs |-> obs]

Obs(source, value, matched) ==
    [mode |-> "apply", source |-> source, value |-> value, matched |-> matched]

Good  == Obs("posthoc+ebpf", "true", TRUE)
Bad   == {Obs("posthoc+ebpf", "true", FALSE), Obs("posthoc", "true", TRUE),
          Obs("posthoc+ebpf", "false", TRUE), NoObs}

(* For each session key: right and wrong plans, expiries, stamps, services. *)
SessionCandidates(k) ==
    {Ev("xfrm_apply_intent", k, "web", TRUE, p, x, 0, NoObs) : p \in {"a", "b", NoPlan}, x \in {2, 3, 4, NoTime}}
    \cup {Ev("xfrm_apply_observed", k, "web", TRUE, p, NoTime, 0, Good) : p \in {"a", "b"}}
    \cup {Ev("xfrm_apply_observed", k, "web", TRUE, "a", NoTime, 0, o) : o \in Bad}
    \cup {Ev("session_activated", k, s, TRUE, NoPlan, 2, 0, NoObs) : s \in {"web", "db"}}
    \cup {Ev("session_activated", k, "web", w, NoPlan, x, 0, NoObs) : w \in BOOLEAN, x \in {3, NoTime}}
    \cup {Ev("session_expired", k, "web", TRUE, NoPlan, x, t, NoObs) : x \in {2, 3}, t \in {1, 2, 3}}
    \cup {Ev("xfrm_delete_intent", k, "web", TRUE, p, NoTime, 2, NoObs) : p \in {"a", "b"}}
    \cup {Ev("xfrm_delete_observed", k, "web", TRUE, p, NoTime, 2, o) : p \in {"a", "b"}, o \in {Good, NoObs}}
    \cup {Ev("capacity_requested", k, NoService, TRUE, NoPlan, NoTime, 0, NoObs)}

OtherCandidates == {Ev("shutdown", NoKey, NoService, TRUE, NoPlan, NoTime, 0, NoObs)}

MCCandidates == OtherCandidates \cup UNION {SessionCandidates(k) : k \in Keys}
=============================================================================
