------------------------------ MODULE Verifier ------------------------------
(***************************************************************************)
(* The Verifier service (verifier/main.go): concurrent capacity requests,  *)
(* each served by a goroutine that reads the PEP's state under state.mu,   *)
(* appraises the history without the lock, and commits under the lock if   *)
(* the state it read is still the current one.  The state is written to    *)
(* disk (temporary file and rename, so a write is atomic) before memory    *)
(* changes; the process may crash at any point and reload it.              *)
(*                                                                         *)
(* Requests are whatever holders of the PEPs' keys sign: duplicates,       *)
(* delayed copies, forks of one history and malformed chains included.     *)
(***************************************************************************)
EXTENDS Appraisal

CONSTANTS
    PEPs,                 \* the PEP identifiers of the enrolment file
    SigningKey,           \* [PEPs -> key]: enrolled[PEPID].SigningPublicKey
    Handlers,             \* goroutines of the HTTP server
    Requests,             \* the capacity requests that may arrive
    ExpectedMeasurement, ExpectedPolicyHash, AllowedScope, MaxSALifetime,
    NoToken,              \* no issued token (Signature == "")
    MaxTime               \* bound on the clock, in seconds

(* A request as decoded; ev is the HistoryEvidence. *)
Checkpoints   == {r.ev.cp : r \in Requests}
HistoryEvents == UNION {Range(r.ev.events) \cup Range(r.ev.cp.log) : r \in Requests}

ASSUME RequestAssumption ==
    /\ NoCp \notin Checkpoints
    /\ \A r \in Requests : /\ {"pep", "key", "meas", "policy", "scope", "life", "ev"} \subseteq DOMAIN r
                           /\ r.life \in Int
                           /\ r.ev.events \in Seq(HistoryEvents) /\ r.ev.cp.log \in Seq(HistoryEvents)
                           /\ r.ev.cp.epoch \in Nat
    /\ \A e \in HistoryEvents : /\ e.type \in SessionTypes => e.key \in Keys
                                /\ e.exp \in Int /\ e.ts \in Int
    /\ MaxSALifetime \in Nat /\ MaxTime \in Nat
    /\ "free" \notin Handlers

VARIABLES
    mem,        \* verifierState: checkpoints, activeStates, lastTokens
    disk,       \* the state file
    lock,       \* state.mu: the handler that holds it, or Free
    h,          \* handler -> its control point and locals
    clock,      \* seconds
    accepted,   \* history: per PEP, the tokens written to disk, in order
    sent        \* history: the tokens put on the wire

vars == <<mem, disk, lock, h, clock, accepted, sent>>

Free == "free"

Idle == [pc |-> "idle"]

Init ==
    /\ mem = [cp     |-> [p \in PEPs |-> NoCp],
              active |-> [p \in PEPs |-> [k \in Keys |-> NoSession]],
              tok    |-> [p \in PEPs |-> NoToken]]
    /\ disk = mem
    /\ lock = Free
    /\ h = [i \in Handlers |-> Idle]
    /\ clock = 0
    /\ accepted = [p \in PEPs |-> <<>>]
    /\ sent = {}

-----------------------------------------------------------------------------
(* The checks before the first lock; MaxSALifetime is clamped, not refused. *)

scopeSubset(requested, allowed) == "*" \in allowed \/ requested \ {""} \subseteq allowed

ValidRequest(r) ==
    /\ r.meas # "" /\ r.policy # "" /\ r.life > 0
    /\ r.pep \in PEPs /\ r.key = SigningKey[r.pep]
    /\ ExpectedMeasurement # "" => r.meas = ExpectedMeasurement
    /\ ExpectedPolicyHash # "" => r.policy = ExpectedPolicyHash
    /\ r.scope # {} /\ scopeSubset(r.scope, AllowedScope)

(* Mutant: the requested lifetime is granted as asked. *)
BugNoClamp(r) == r

Clamp(r) ==
    [r EXCEPT !.life = IF MaxSALifetime > 0 /\ @ > MaxSALifetime THEN MaxSALifetime ELSE @]

(* The stored answer may be replayed: the submission is the checkpoint     *)
(* accepted last and the request asks for what the stored token grants.    *)
acceptedCheckpointRetry(r, current, tok) ==
    /\ r.ev.cp = current /\ tok # NoToken
    /\ current.signer = SigningKey[r.pep]
    /\ tok.cp = current /\ tok.pep = current.pep /\ tok.key = SigningKey[r.pep]
    /\ tok.meas = r.meas /\ tok.policy = r.policy /\ tok.life = r.life /\ tok.scope = r.scope

Token(r, now) ==
    [pep |-> r.pep, key |-> r.key, meas |-> r.meas, policy |-> r.policy, scope |-> r.scope,
     life |-> r.life, issued |-> now, cp |-> r.ev.cp, epoch |-> r.ev.cp.epoch]

Goto(i, s) == h' = [h EXCEPT ![i] = s]

-----------------------------------------------------------------------------
(* A request reaches a free goroutine. *)
Receive(i, r) ==
    /\ h[i].pc = "idle"
    /\ Goto(i, [pc |-> "received", r |-> r])
    /\ UNCHANGED <<mem, disk, lock, clock, accepted, sent>>

(* Bad request or forbidden: answered before the lock is taken. *)
Refuse(i) ==
    /\ h[i].pc = "received" /\ ~ValidRequest(h[i].r)
    /\ Goto(i, Idle)
    /\ UNCHANGED <<mem, disk, lock, clock, accepted, sent>>

(* First critical section: replay the stored answer, or copy what the      *)
(* appraisal needs.                                                        *)
Lookup(i) ==
    LET r == Clamp(h[i].r)
        previous == mem.cp[r.pep]
    IN  /\ h[i].pc = "received" /\ ValidRequest(h[i].r)
        /\ lock = Free
        /\ IF previous # NoCp /\ acceptedCheckpointRetry(r, previous, mem.tok[r.pep])
           THEN Goto(i, [pc |-> "reply", tok |-> mem.tok[r.pep]])
           ELSE Goto(i, [pc |-> "appraise", r |-> r, previous |-> previous,
                         active |-> mem.active[r.pep]])
        /\ UNCHANGED <<mem, disk, lock, clock, accepted, sent>>

(* VerifyHistoryEvidence, verifyEnforcementPolicy and SignCapacityToken,   *)
(* with no lock held.                                                      *)
Appraise(i) ==
    LET r == h[i].r
        v == verifyEnforcementPolicy(r.ev.events, r.ev.cp.created, h[i].active, r.life, r.scope)
    IN  /\ h[i].pc = "appraise"
        /\ IF VerifyHistoryEvidence(r.ev, r.pep, r.key, h[i].previous) /\ v.ok
           THEN Goto(i, [pc |-> "commit", r |-> r, previous |-> h[i].previous,
                         active |-> v.active, tok |-> Token(r, clock)])
           ELSE Goto(i, Idle)
        /\ UNCHANGED <<mem, disk, lock, clock, accepted, sent>>

(* Mutant: the second critical section does not compare the checkpoints. *)
BugNoRecheck(i) == FALSE

(* Mutant: it only notices a first checkpoint. *)
BugPresenceOnly(i) == h[i].previous = NoCp /\ mem.cp[h[i].r.pep] # NoCp

(* stateChanged: the PEP's checkpoint is no longer the one appraised against. *)
StateChanged(i) == mem.cp[h[i].r.pep] # h[i].previous

(* Mutant: the appraised sessions are not stored. *)
BugActiveDropped(i) ==
    [mem EXCEPT !.cp[h[i].r.pep] = h[i].r.ev.cp, !.tok[h[i].r.pep] = h[i].tok]

(* The maps to write: copies of the current ones with this PEP's entries   *)
(* replaced.                                                               *)
NextState(i) ==
    LET p == h[i].r.pep
    IN  [cp     |-> [mem.cp EXCEPT ![p] = h[i].r.ev.cp],
         active |-> [mem.active EXCEPT ![p] = h[i].active],
         tok    |-> [mem.tok EXCEPT ![p] = h[i].tok]]

(* Second critical section, first part: take the lock and decide. *)
Recheck(i) ==
    LET r == h[i].r
    IN  /\ h[i].pc = "commit" /\ lock = Free
        /\ IF StateChanged(i)
           THEN /\ IF mem.cp[r.pep] # NoCp /\ acceptedCheckpointRetry(r, mem.cp[r.pep], mem.tok[r.pep])
                   THEN Goto(i, [pc |-> "reply", tok |-> mem.tok[r.pep]])
                   ELSE Goto(i, Idle)                      \* 409
                /\ UNCHANGED lock
           ELSE /\ Goto(i, [pc |-> "save", p |-> r.pep, tok |-> h[i].tok, next |-> NextState(i)])
                /\ lock' = i
        /\ UNCHANGED <<mem, disk, clock, accepted, sent>>

(* savePersistentVerifierState renames the new file into place ... *)
Save(i) ==
    /\ h[i].pc = "save"
    /\ disk' = h[i].next
    /\ accepted' = [accepted EXCEPT ![h[i].p] = Append(@, h[i].tok)]
    /\ Goto(i, [pc |-> "publish", p |-> h[i].p, tok |-> h[i].tok, next |-> h[i].next])
    /\ UNCHANGED <<mem, lock, clock, sent>>

(* Mutants: the error is ignored; the early return forgets to unlock. *)
BugSaveErrorIgnored(i) ==
    /\ h[i].pc = "save"
    /\ Goto(i, [h[i] EXCEPT !.pc = "publish"])
    /\ UNCHANGED <<mem, disk, lock, clock, accepted, sent>>

BugKeepsLock(i) ==
    /\ h[i].pc = "save"
    /\ Goto(i, Idle)
    /\ UNCHANGED <<mem, disk, lock, clock, accepted, sent>>

(* ... or fails: 500, and neither the file nor memory has changed. *)
SaveFails(i) ==
    /\ h[i].pc = "save"
    /\ lock' = Free
    /\ Goto(i, Idle)
    /\ UNCHANGED <<mem, disk, clock, accepted, sent>>

(* Second critical section, last part: assign the maps and unlock. *)
Publish(i) ==
    /\ h[i].pc = "publish"
    /\ mem' = h[i].next
    /\ lock' = Free
    /\ Goto(i, [pc |-> "reply", tok |-> h[i].tok])
    /\ UNCHANGED <<disk, clock, accepted, sent>>

(* writeJSON. *)
Reply(i) ==
    /\ h[i].pc = "reply"
    /\ sent' = sent \cup {h[i].tok}
    /\ Goto(i, Idle)
    /\ UNCHANGED <<mem, disk, lock, clock, accepted>>

(* Mutant: an unreadable state file starts the Verifier empty. *)
BugRestartEmpty ==
    /\ mem' = [cp |-> [p \in PEPs |-> NoCp], active |-> mem.active, tok |-> mem.tok]
    /\ lock' = Free
    /\ h' = [i \in Handlers |-> Idle]
    /\ UNCHANGED <<disk, clock, accepted, sent>>

(* The process dies and restarts: main, loadVerifierState. *)
Restart ==
    /\ mem' = disk
    /\ lock' = Free
    /\ h' = [i \in Handlers |-> Idle]
    /\ UNCHANGED <<disk, clock, accepted, sent>>

Tick ==
    /\ clock < MaxTime
    /\ clock' = clock + 1
    /\ UNCHANGED <<mem, disk, lock, h, accepted, sent>>

Step(i) ==
    \/ Refuse(i) \/ Lookup(i) \/ Appraise(i) \/ Recheck(i)
    \/ Save(i) \/ SaveFails(i) \/ Publish(i) \/ Reply(i)

Next ==
    \/ \E i \in Handlers : Step(i) \/ \E r \in Requests : Receive(i, r)
    \/ Restart \/ Tick

Spec == Init /\ [][Next]_vars

(* A goroutine runs until it answers, and sync.Mutex admits a waiter       *)
(* within a bounded number of hand-overs (starvation mode), so a step that *)
(* waits for the lock is not passed over for ever.                         *)
FairSpec == Spec /\ \A i \in Handlers : SF_vars(Step(i))

-----------------------------------------------------------------------------
Tokens == {t \in {Token(Clamp(r), now) : r \in {q \in Requests : ValidRequest(q)}, now \in 0..MaxTime} :
              MaxSALifetime > 0 => t.life <= MaxSALifetime}

StateOK(s) ==
    /\ DOMAIN s.cp = PEPs /\ DOMAIN s.active = PEPs /\ DOMAIN s.tok = PEPs
    /\ \A p \in PEPs : /\ s.cp[p] \in Checkpoints \cup {NoCp}
                       /\ s.tok[p] \in Tokens \cup {NoToken}

(* Types: state file and memory hold well-formed entries, and a token only *)
(* ever grants what ValidRequest and the clamp let through.                *)
TypeOK ==
    /\ StateOK(mem) /\ StateOK(disk)
    /\ lock \in Handlers \cup {Free}
    /\ DOMAIN h = Handlers /\ DOMAIN accepted = PEPs
    /\ clock \in 0..MaxTime
    /\ \A p \in PEPs : accepted[p] \in Seq(Tokens)
    /\ sent \subseteq Tokens

(* PROPERTY.  At any time, crash or not, the checkpoint and the token in   *)
(* the state file are the newest of one unforked chain: epochs 1, 2, ...,  *)
(* each checkpoint naming the one before it and extending its event log,   *)
(* although several goroutines appraise rival successors of the same       *)
(* checkpoint at once.                                                     *)
AcceptedIsOneChain ==
    \A p \in PEPs :
        LET a == accepted[p]
            at(n) == IF n = 0 THEN NoCp ELSE a[n].cp
        IN  /\ disk.cp[p] = at(Len(a))
            /\ a # <<>> => disk.tok[p] = a[Len(a)]
            /\ \A n \in 1..Len(a) : /\ a[n].pep = p /\ a[n].epoch = n /\ a[n].cp.epoch = n
                                   /\ a[n].cp.prev = at(n - 1)
                                   /\ IsPrefix(LogOf(at(n - 1)), a[n].cp.log)

(* PROPERTY.  A token that left the Verifier is the one the state file's   *)
(* chain holds for its epoch: no answer outruns                            *)
(* savePersistentVerifierState, no restart takes one back, and a request   *)
(* repeated, raced or retried after a crash never gets a second, different *)
(* token for the same epoch.                                               *)
SentIsDurable ==
    \A t \in sent : t.epoch \in 1..Len(accepted[t.pep]) /\ accepted[t.pep][t.epoch] = t

(* PROPERTY.  The tracked sessions stored with a checkpoint are the ones   *)
(* its log leaves installed: the copy appraised outside the lock is never  *)
(* stored with a checkpoint it was not computed for.                       *)
ActiveIsLog ==
    \A p \in PEPs : \A k \in Keys :
        LET log == LogOf(disk.cp[p])
            turns == {i \in DOMAIN log : /\ log[i].key = k
                        /\ log[i].type \in {"session_activated", "xfrm_delete_observed"}}
        IN  disk.active[p][k] # NoSession
              <=> turns # {} /\ log[Max(turns)].type = "session_activated"

(* PROPERTY.  What readers of memory see only ever moves to the next       *)
(* checkpoint of the chain, in particular when a restart comes between     *)
(* writing the file and assigning the maps.                                *)
MemoryFollowsChain ==
    [][\A p \in PEPs : mem'.cp[p] # mem.cp[p] =>
           mem'.cp[p] # NoCp /\ mem'.cp[p].prev = mem.cp[p]]_vars

(* The Verifier seen from outside. *)
Service == INSTANCE CapacityService WITH chain <- accepted

(* PROPERTY.  The handlers, the state file and the restarts together       *)
(* implement the service's promise: every step of the code is a            *)
(* certification, an answer taken from the chain, or invisible.            *)
ImplementsService == Service!Spec

(* PROPERTY.  Every request is answered (or dies with the process): no     *)
(* path of the handler keeps state.mu.                                     *)
EveryRequestEnds == \A i \in Handlers : h[i].pc = "received" ~> h[i].pc = "idle"
=============================================================================
