----------------------------- MODULE MCObserver -----------------------------
(***************************************************************************)
(* Instances of the observer.                                              *)
(***************************************************************************)
EXTENDS Observer

Conf(observer, strict, required) == [observer |-> observer, strict |-> strict, required |-> required]

Deployments == {Conf("hybrid", FALSE, "posthoc"), Conf("ebpf", TRUE, "ebpf"),
                Conf("posthoc", FALSE, "posthoc")}
=============================================================================
