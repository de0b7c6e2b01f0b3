------------------------------- MODULE Tunnel -------------------------------
(***************************************************************************)
(* A tunnel from the PEP's answer to the client's kernel: the lifetime the *)
(* PEP derives from its capacity token (pep/attestation.go, pep/main.go),  *)
(* the parameters the PDP relays, the checks of the client                 *)
(* (client/attestation.go, common/attest), and the plan it installs, with  *)
(* the clean-up a detached shell runs after the lifetime (client/xfrm.go). *)
(*                                                                         *)
(* The clock counts ticks of a fraction of a second, since RFC3339 times   *)
(* and lifetimes are whole seconds, each rounded on its own.  The          *)
(* commands of an installation and of a clean-up are one step each.        *)
(***************************************************************************)
EXTENDS Integers, Sequences, FiniteSets

CONSTANTS
    Activations,    \* SPA exchanges of one client with one PEP
    Modes,          \* values of attested
    Second,         \* ticks per second
    SALifetime, MaxSALifetime, TokenTTL, Margin,    \* seconds, as in module PEP
    ClientOffset,   \* client clock minus PEP clock, in ticks
    Services,       \* services a client may ask for
    Scope,          \* PEP_ATTESTATION_SCOPE, as it is in the token
    Relays,         \* sets of parameters that may arrive other than the PEP sent them
    NoOwner,
    MaxTime, MaxRestarts    \* bounds

ASSUME TunnelAssumption ==
    /\ {Second, SALifetime, MaxSALifetime, TokenTTL} \subseteq Nat \ {0}
    /\ Margin \in Nat /\ Margin < TokenTTL /\ ClientOffset \in Int /\ Modes \subseteq BOOLEAN
    /\ IsFiniteSet(Activations) /\ MaxTime \in Nat

VARIABLES
    attested,       \* PEP_ATTESTATION_ENABLED; without it PEP state is in memory only
    act,            \* activation -> progress and parameters
    token,          \* expiry and issue time of the PEP's capacity token, in seconds
    next,           \* nextClientInnerID
    sess,           \* activation -> expiry of its session at the PEP, 0 if there is none
    pol,            \* client: inner address, on lo -> activation whose policies hold it
    route,          \* client: source address of the route to SERVICE_IP, 0 if there is none
    states,         \* client: activations whose two XFRM states exist
    timers,         \* client: activations whose clean-up shell sleeps
    clock, restarts

vars == <<attested, act, token, next, sess, pol, route, states, timers, clock, restarts>>

(* svc is the service asked for, via the inner address that arrived, prior *)
(* the activations that had reached the client's kernel before this one,   *)
(* and waiting those of them whose clean-up was still to come.             *)
Blank == [pc |-> "none", svc |-> "none", inner |-> 0, tok |-> [exp |-> 0, iat |-> 0], life |-> 0,
          exp |-> 0, bound |-> 0, stamped |-> 0, changed |-> {}, via |-> 0, due |-> 0,
          prior |-> {}, waiting |-> {}]

Addresses == 1..Cardinality(Activations)

Init ==
    /\ attested \in Modes
    /\ act = [a \in Activations |-> Blank]
    /\ token = [exp |-> 0, iat |-> 0] /\ next = 0
    /\ sess = [a \in Activations |-> 0]
    /\ pol = [i \in Addresses |-> NoOwner]
    /\ route = 0 /\ states = {} /\ timers = {}
    /\ clock = 0 /\ restarts = 0

(* Formatting a time keeps its whole seconds; so does int(d.Seconds()). *)
Format(t) == t \div Second
Until(exp, t) == exp * Second - t
lowest(S) == CHOOSE n \in S : \A m \in S : n <= m

-----------------------------------------------------------------------------
(* The PEP: activateHandler. *)

(* allocateClientInnerIP; the service is not compared with the scope. *)
Ask(a, svc) ==
    /\ act[a].pc = "none"
    /\ next' = next + 1
    /\ act' = [act EXCEPT ![a].pc = "asked", ![a].svc = svc, ![a].inner = next + 1]
    /\ UNCHANGED <<attested, token, sess, pol, route, states, timers, clock, restarts>>

(* ensureCapacityToken keeps a token with more than the margin left. *)
Usable == Until(token.exp, clock) > Margin * Second

CurrentToken ==
    IF Usable THEN token ELSE [exp |-> Format(clock) + TokenTTL, iat |-> Format(clock)]

(* Mutant: the remaining time is rounded up. *)
BugRoundedUp(tok) ==
    lowest({SALifetime, MaxSALifetime, (Until(tok.exp, clock) + Second - 1) \div Second})

(* Mutant: PEP_SA_LIFETIME is not a cap. *)
BugUncapped(tok) == lowest({MaxSALifetime, Until(tok.exp, clock) \div Second})

boundLifetime(tok) == lowest({SALifetime, MaxSALifetime, Until(tok.exp, clock) \div Second})

Bound(a) ==
    LET tok == IF attested THEN CurrentToken ELSE token
        life == IF attested THEN boundLifetime(tok) ELSE SALifetime
    IN  /\ act[a].pc = "asked"
        /\ token' = tok
        /\ act' = IF life <= 0 THEN [act EXCEPT ![a].pc = "failed"]
                  ELSE [act EXCEPT ![a].pc = "bounded", ![a].tok = tok, ![a].life = life,
                                   ![a].bound = clock]
        /\ UNCHANGED <<attested, next, sess, pol, route, states, timers, clock, restarts>>

(* The expiry is computed from a second reading of the clock and signed in *)
(* the SA binding; the plan is applied and the session stored.             *)
Stamp(a) ==
    LET exp == Format(clock + act[a].life * Second)
    IN  /\ act[a].pc = "bounded"
        /\ act' = [act EXCEPT ![a].pc = "answered", ![a].exp = exp, ![a].stamped = clock]
        /\ sess' = [sess EXCEPT ![a] = exp]
        /\ UNCHANGED <<attested, token, next, pol, route, states, timers, clock, restarts>>

Reap(a) ==
    /\ sess[a] # 0 /\ clock >= sess[a] * Second
    /\ sess' = [sess EXCEPT ![a] = 0]
    /\ UNCHANGED <<attested, act, token, next, pol, route, states, timers, clock, restarts>>

(* A restarted PEP without attestation knows no session and counts the     *)
(* addresses from the start (initAllocators); with it, from the highest of *)
(* its restored sessions.  Requests in progress are lost.                  *)
HighestAddress ==
    LET kept == {act[a].inner : a \in {b \in Activations : sess[b] # 0}}
    IN  IF attested /\ kept # {} THEN CHOOSE n \in kept : \A m \in kept : m <= n ELSE 0

RestartPEP ==
    /\ restarts < MaxRestarts
    /\ restarts' = restarts + 1
    /\ next' = HighestAddress
    /\ sess' = IF attested THEN sess ELSE [a \in Activations |-> 0]
    /\ act' = [a \in Activations |->
                  IF act[a].pc \in {"asked", "bounded"} THEN [act[a] EXCEPT !.pc = "failed"]
                  ELSE act[a]]
    /\ UNCHANGED <<attested, token, pol, route, states, timers, clock>>

-----------------------------------------------------------------------------
(* The PDP copies the answer into TunnelParams (handleUDPPacket).  Without *)
(* attestation the client relies on it, and it is taken to be right.       *)
Relay(a, changed, via) ==
    /\ act[a].pc = "answered" /\ (attested \/ changed = {})
    /\ "client_inner_ip" \in changed <=> via # act[a].inner
    /\ act' = [act EXCEPT ![a].pc = "relayed", ![a].changed = changed, ![a].via = via]
    /\ UNCHANGED <<attested, token, next, sess, pol, route, states, timers, clock, restarts>>

-----------------------------------------------------------------------------
(* The client. *)

ClientClock == clock + ClientOffset

(* VerifyCapacityToken: not from the future by more than 5 s, not expired. *)
TokenValid(tok) ==
    /\ ~(ClientClock + 5 * Second < tok.iat * Second)
    /\ ClientClock < tok.exp * Second

(* Mutant: the inner address is not compared. *)
BugInnerUnbound == {"service_id", "service_ip", "client_in_spi", "pep_in_spi", "pep_dh_pub",
                    "aead", "sa_lifetime", "expires_at", "token"}

(* What VerifyTunnelBinding and verifyTunnelAttestation compare with the   *)
(* signed binding or the client's own request.                             *)
BoundParameters ==
    {"service_id", "service_ip", "client_inner_ip", "client_in_spi", "pep_in_spi", "pep_dh_pub",
     "aead", "sa_lifetime", "expires_at", "token"}

ContainsScope(svc) == svc \in Scope \/ "*" \in Scope

VerifyTunnelBinding(a) ==
    /\ TokenValid(act[a].tok)
    /\ ContainsScope(act[a].svc)
    /\ act[a].life <= MaxSALifetime
    /\ ~(act[a].exp > act[a].tok.exp)
    /\ act[a].changed \cap BoundParameters = {}

verifyTunnelAttestation(a) == attested => VerifyTunnelBinding(a)

(* Mutant: the clean-up does not wait for the last second. *)
BugCleansEarly(life) == clock + (life - 1) * Second

CleanupDue(life) == clock + life * Second

(* Mutant: the route is deleted by the service alone. *)
BugRouteOfService(i) == 0

(* 'ip route delete SERVICE via PEP src INNER' finds only a route with     *)
(* that source address; policies and the address on lo go by it, too.      *)
RouteAfterDelete(i) == IF route = i THEN 0 ELSE route

Reached == {a \in Activations : act[a].pc \in {"installed", "broken"}}

(* maybeApplyClientXFRM first runs the delete commands, then adds; there   *)
(* is one route to the service, which 'ip route replace' takes over from   *)
(* any address.  scheduleClientXFRMCleanup starts the shell and the        *)
(* process ends.                                                           *)
Install(a) ==
    /\ act[a].pc = "relayed" /\ verifyTunnelAttestation(a)
    /\ act' = [act EXCEPT ![a].pc = "installed", ![a].due = CleanupDue(act[a].life),
                          ![a].prior = Reached, ![a].waiting = timers]
    /\ pol' = [pol EXCEPT ![act[a].via] = a]
    /\ route' = act[a].via
    /\ states' = states \cup {a}
    /\ timers' = timers \cup {a}
    /\ UNCHANGED <<attested, token, next, sess, clock, restarts>>

(* A command fails: what those before it installed stays and no clean-up   *)
(* is scheduled.  The route comes before the states, and the last command  *)
(* adds a policy, so these are not whole.                                  *)
InstallFails(a) ==
    /\ act[a].pc = "relayed" /\ verifyTunnelAttestation(a)
    /\ act' = [act EXCEPT ![a].pc = "broken", ![a].prior = Reached]
    /\ pol' = [pol EXCEPT ![act[a].via] = NoOwner]
    /\ \/ route' = RouteAfterDelete(act[a].via) /\ states' = states
       \/ route' = act[a].via /\ states' \in {states, states \cup {a}}
    /\ UNCHANGED <<attested, token, next, sess, timers, clock, restarts>>

Reject(a) ==
    /\ act[a].pc = "relayed" /\ ~verifyTunnelAttestation(a)
    /\ act' = [act EXCEPT ![a].pc = "rejected"]
    /\ UNCHANGED <<attested, token, next, sess, pol, route, states, timers, clock, restarts>>

(* The delete commands name policies, route and address by the inner       *)
(* address, and the states by their SPIs; each may fail on its own.        *)
Cleanup(a) ==
    /\ a \in timers /\ clock >= act[a].due
    /\ timers' = timers \ {a}
    /\ pol' = [pol EXCEPT ![act[a].via] = NoOwner]
    /\ route' = RouteAfterDelete(act[a].via)
    /\ states' = states \ {a}
    /\ UNCHANGED <<attested, act, token, next, sess, clock, restarts>>

Tick ==
    /\ clock < MaxTime
    /\ clock' = clock + 1
    /\ UNCHANGED <<attested, act, token, next, sess, pol, route, states, timers, restarts>>

Next ==
    \/ \E a \in Activations, svc \in Services : Ask(a, svc)
    \/ \E a \in Activations : Bound(a) \/ Stamp(a) \/ Reap(a)
                              \/ Install(a) \/ InstallFails(a) \/ Reject(a) \/ Cleanup(a)
    \/ \E a \in Activations, r \in Relays, i \in Addresses : Relay(a, r, i)
    \/ RestartPEP \/ Tick

Spec == Init /\ [][Next]_vars

-----------------------------------------------------------------------------
(* Types; addresses stay in the pool and lifetimes within SA_LIFETIME_SECONDS. *)
TypeOK ==
    /\ \A a \in Activations :
         act[a].inner \in 0..Cardinality(Activations) /\ act[a].life \in 0..SALifetime
    /\ route \in Addresses \cup {0}
    /\ states \subseteq Activations /\ timers \subseteq Activations /\ clock \in 0..MaxTime

(* PROPERTY.  Lifetime and expiry are rounded from two readings of the     *)
(* clock.  With less than a second between them the tunnel does not        *)
(* outlive its token, and an answer that arrives unchanged while the token *)
(* is valid is not refused, when its service is in the PEP's scope: the    *)
(* PEP makes a tunnel for any service, and the client then refuses it      *)
(* (boundLifetime, activateHandler, VerifyTunnelBinding).                  *)
HonestAnswerAccepted ==
    attested => \A a \in Activations :
        act[a].stamped - act[a].bound < Second =>
            /\ act[a].exp <= act[a].tok.exp
            /\ /\ act[a].pc = "relayed" /\ act[a].changed = {}
               /\ TokenValid(act[a].tok) /\ ContainsScope(act[a].svc)
               => verifyTunnelAttestation(a)

Installed(a) == pol[act[a].inner] = a /\ a \in states

(* Another activation that was given the same inner address, as a          *)
(* restarted PEP may do, has got as far as the client's kernel after this  *)
(* one, or before it and its clean-up has run since.                       *)
Displaced(a) ==
    \E b \in Reached \ {a} :
        act[b].inner = act[a].inner /\ (a \in act[b].prior \/ b \in act[a].waiting \ timers)

Living(a) == act[a].pc = "installed" /\ clock < act[a].exp * Second

(* PROPERTY.  Policies and states of the client's side of a tunnel are     *)
(* there, under the address the PEP gave, as long as the PEP's side:       *)
(* whatever address arrived, and although the clean-up counts a lifetime   *)
(* from its own start and the PEP compares a rounded time of day           *)
(* (scheduleClientXFRMCleanup, activateHandler).  Only activations with    *)
(* the same inner address can take them away earlier: a later one, or the  *)
(* clean-up that an earlier one has left behind and nobody calls off.      *)
ClientOutlivesPEP == \A a \in Activations : Living(a) /\ ~Displaced(a) => Installed(a)

(* PROPERTY.  The one route to the service leads into the tunnel installed *)
(* last for as long as that lives: the clean-ups of earlier ones, whenever *)
(* they come, leave it (BuildClientXFRMTunnelPlan).  A tunnel after which  *)
(* another was installed, or half installed, has lost its route to that    *)
(* one for good, also when the other ends first.                           *)
RouteToLatest ==
    \A a \in Activations :
        Living(a) /\ ~Displaced(a) /\ (\A b \in Reached : a \notin act[b].prior)
            => route = act[a].inner

=============================================================================
