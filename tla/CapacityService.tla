--------------------------- MODULE CapacityService ---------------------------
(***************************************************************************)
(* What the Verifier promises its callers, whatever goes on inside: per    *)
(* PEP one growing chain of certified checkpoints, each extending the      *)
(* history of the one before it, and answers that are only ever taken from *)
(* that chain.  Retries, races, failed writes and restarts do not show.    *)
(***************************************************************************)
EXTENDS Integers, Sequences, SequencesExt

CONSTANTS
    PEPs,       \* enrolled PEPs
    Tokens,     \* capacity tokens: [pep, epoch, cp, ...]
    NoCp        \* no checkpoint yet

VARIABLES
    chain,      \* PEP -> the tokens certified for it, oldest first
    sent        \* the tokens handed out

vars == <<chain, sent>>

LogBefore(cp) == IF cp = NoCp THEN <<>> ELSE cp.log

Newest(p) == IF chain[p] = <<>> THEN NoCp ELSE chain[p][Len(chain[p])].cp

Init == chain = [p \in PEPs |-> <<>>] /\ sent = {}

(* A checkpoint that continues the newest certified one is certified. *)
Certify(t) ==
    /\ t.epoch = Len(chain[t.pep]) + 1 /\ t.cp.epoch = t.epoch
    /\ t.cp.prev = Newest(t.pep)
    /\ IsPrefix(LogBefore(Newest(t.pep)), t.cp.log)
    /\ chain' = [chain EXCEPT ![t.pep] = Append(@, t)]
    /\ UNCHANGED sent

(* A certified token is handed out, any number of times, early or late. *)
Answer(t) ==
    /\ t.epoch \in 1..Len(chain[t.pep]) /\ chain[t.pep][t.epoch] = t
    /\ sent' = sent \cup {t}
    /\ UNCHANGED chain

Next == \E t \in Tokens : Certify(t) \/ Answer(t)

Spec == Init /\ [][Next]_vars
=============================================================================
