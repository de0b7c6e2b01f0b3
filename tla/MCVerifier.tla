----------------------------- MODULE MCVerifier -----------------------------
(* Two PEPs, the first with rival histories signed by the same key.  *)
EXTENDS Verifier

Ev(t, k) ==
    [type |-> t, key |-> k, service |-> IF k = NoKey THEN NoService ELSE "web",
     whole |-> TRUE, plan |-> IF k = NoKey THEN NoPlan ELSE "a", exp |-> 2,
     ts |-> IF t \in {"session_expired", "xfrm_delete_intent", "xfrm_delete_observed"} THEN 2 ELSE 0,
     obs |-> [mode |-> "apply", source |-> "posthoc", value |-> "true", matched |-> FALSE]]

Ask    == <<Ev("capacity_requested", NoKey)>>
Opens  == <<Ev("xfrm_apply_intent", "k1"), Ev("xfrm_apply_observed", "k1"), Ev("session_activated", "k1")>> \o Ask
Closes == <<Ev("session_expired", "k1"), Ev("xfrm_delete_intent", "k1"), Ev("xfrm_delete_observed", "k1")>> \o Ask

MCSigningKey == [p \in PEPs |-> p]

Evidence(p, previous, events, created) ==
    [prev |-> previous, base |-> LogOf(previous), events |-> events,
     cp |-> [pep |-> p, epoch |-> EpochOf(previous) + 1, log |-> LogOf(previous) \o events,
             prev |-> previous, count |-> Len(events), created |-> created, signer |-> MCSigningKey[p]]]

Request(ev) ==
    [pep |-> ev.cp.pep, key |-> MCSigningKey[ev.cp.pep], meas |-> "m", policy |-> "pol",
     scope |-> {"web"}, life |-> 2, ev |-> ev]

A1 == Evidence("p1", NoCp, Opens, 0)
B1 == Evidence("p1", NoCp, Ask, 0)
A2 == Evidence("p1", A1.cp, Closes, 2)
Q1 == Evidence("p2", NoCp, Opens, 0)

MCRequests ==
    {Request(ev) : ev \in {A1, B1, A2, Q1}}
    \cup { [Request(A1) EXCEPT !.life = 9],                \* clamped
           [Request(Q1) EXCEPT !.meas = "other"] }         \* refused
=============================================================================
