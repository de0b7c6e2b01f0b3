------------------------------- MODULE MCPDP -------------------------------
(***************************************************************************)
(* Instances of the PDP: one client and the seed files the PIP may have.   *)
(***************************************************************************)
EXTENDS PDP

K == <<"k">>

Good     == [form |-> "good", key |-> K, psk |-> "p1", service |-> "svc-http"]
OneKey   == {K}
OnlyGood == {Good}
OldPSK   == {Good, [Good EXCEPT !.psk = "p2"]}

Entry(psk, services, revoked) ==
    [key |-> K, psk |-> psk, services |-> services, revoked |-> revoked]

(* The client's entry, and its revocation. *)
Files ==
    {<<Entry("p1", <<"svc-http">>, FALSE)>>, <<Entry("p1", <<"svc-http">>, TRUE)>>}

GoodFile == {<<Entry("p1", <<"svc-http">>, FALSE)>>}

InStep == {0}
Ahead  == {1}
=============================================================================
