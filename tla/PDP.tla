-------------------------------- MODULE PDP --------------------------------
(***************************************************************************)
(* The policy decision point (pdp/main.go) between the clients' datagrams, *)
(* the PIP and the PEP.  Every datagram is handled by a goroutine of its   *)
(* own: it reads the clock, looks the packet up in the replay cache, opens *)
(* the header, asks the PIP, opens the payload, adds the packet to the     *)
(* cache, asks the PEP for a tunnel and answers.  No step has a timeout;   *)
(* the client waits for a while and gives up.                              *)
(*                                                                         *)
(* A packet stands for its bytes and so for its hash.  What opening it     *)
(* yields is in the packet's fields (module Noise justifies that).  The    *)
(* network loses, delays and repeats datagrams.  The PEP is external here: *)
(* it makes a tunnel that lives for Lifetime, or refuses.  The PDP's clock *)
(* does not go back; the clients' clocks differ from it by an offset.      *)
(***************************************************************************)
EXTENDS PIP, Integers

CONSTANTS
    Handlings,      \* goroutines running handleUDPPacket, one per datagram received
    PacketIds,      \* SPA packets that clients build
    Forms,          \* what a client may ask: [form, key, psk, service]
    Offsets,        \* client clock minus PDP clock
    Skew,           \* spaSkew
    TTL,            \* replayTTL
    ClientWait,     \* the client's read deadline (3 s)
    Lifetime,       \* of a tunnel at the PEP
    NoPacket, NoHandling,
    MaxTime, MaxRestarts    \* bounds

ASSUME PDPAssumption ==
    /\ {Skew, TTL, ClientWait, Lifetime, MaxTime, MaxRestarts} \subseteq Nat
    /\ Offsets \subseteq Int
    /\ NoHandling \notin Handlings /\ NoPacket \notin PacketIds

VARIABLES
    sent,           \* packet -> what it holds and when it was sent, or NoPacket
    h,              \* goroutine -> control point and locals, with what its Seen met
    cache,          \* replayCache.items: packet -> expiry
    calls,          \* goroutines whose POST /activate is with the PEP
    tunnel,         \* goroutine -> expiry of the tunnel made for it, 0 if there is none
    made,           \* history: goroutines for which the PEP has made a tunnel
    answers,        \* goroutines whose response is on its way
    client,         \* packet -> "none", "waiting", "done", "gaveup"
    got,            \* packet -> the goroutine whose tunnel its client took
    run,            \* incarnation of the PDP process
    clock

ownVars == <<sent, h, cache, calls, tunnel, made, answers, client, got, run, clock>>
vars == <<ownVars, pipVars>>

Fresh == [pc |-> "none", pkt |-> NoPacket, now |-> 0, info |-> NoRow, run |-> 0,
          passed |-> FALSE, added |-> FALSE, seenAt |-> 0, prior |-> {}]

Init ==
    /\ PIPInit
    /\ sent = [p \in PacketIds |-> NoPacket]
    /\ h = [i \in Handlings |-> Fresh]
    /\ cache = << >>
    /\ calls = {} /\ made = {} /\ answers = {}
    /\ tunnel = [i \in Handlings |-> 0]
    /\ client = [p \in PacketIds |-> "none"]
    /\ got = [p \in PacketIds |-> NoHandling]
    /\ run = 0 /\ clock = 0

-----------------------------------------------------------------------------
(* client/main.go: one packet, one datagram, one read with a deadline. *)

Send(p, f, d) ==
    /\ sent[p] = NoPacket /\ clock + d >= 0 /\ clock + ClientWait <= MaxTime
    /\ sent' = [sent EXCEPT ![p] = [f |-> f, ts |-> clock + d, at |-> clock]]
    /\ client' = [client EXCEPT ![p] = "waiting"]
    /\ UNCHANGED <<h, cache, calls, tunnel, made, answers, got, run, clock, pipVars>>

(* Mutant: no SetReadDeadline. *)
BugWaits(p) == TRUE

InTime(p) == clock <= sent[p].at + ClientWait

(* Only the response under this packet's key decrypts, and the process     *)
(* reads one datagram.                                                     *)
Receive(p, i) ==
    /\ client[p] = "waiting" /\ InTime(p)
    /\ i \in answers /\ h[i].pkt = p
    /\ client' = [client EXCEPT ![p] = "done"]
    /\ got' = [got EXCEPT ![p] = i]
    /\ answers' = answers \ {i}
    /\ UNCHANGED <<sent, h, cache, calls, tunnel, made, run, clock, pipVars>>

GiveUp(p) ==
    /\ client[p] = "waiting" /\ clock >= sent[p].at + ClientWait
    /\ client' = [client EXCEPT ![p] = "gaveup"]
    /\ UNCHANGED <<sent, h, cache, calls, tunnel, made, answers, got, run, clock, pipVars>>

-----------------------------------------------------------------------------
(* pdp/main.go *)

Drop(i) == h' = [h EXCEPT ![i].pc = "dropped"]

(* Mutant: the packet's time stamp is taken for the current time. *)
BugPacketTime(p) == sent[p].ts

TimeNow(p) == clock

(* main reads a datagram, perhaps not for the first time; handleUDPPacket  *)
(* reads the clock.                                                        *)
Arrive(i, p) ==
    /\ h[i].pc = "none" /\ sent[p] # NoPacket
    /\ h' = [h EXCEPT ![i] = [Fresh EXCEPT !.pc = "arrived", !.pkt = p, !.now = TimeNow(p),
                                     !.run = run]]
    /\ UNCHANGED <<sent, cache, calls, tunnel, made, answers, client, got, run, clock, pipVars>>

(* replayCache.Seen deletes what has expired by the caller's now. *)
Unexpired(now) == {p \in DOMAIN cache : ~(now > cache[p])}

(* OpenIKpsk1SPAHeader. *)
HeaderOpens(p, now) ==
    /\ sent[p].f.form # "garbled"
    /\ ~(now - sent[p].ts > Skew \/ sent[p].ts - now > Skew)

Adders(p) == {i \in Handlings : h[i].pkt = p /\ h[i].added /\ h[i].run = run}

Seen(i) ==
    LET p == h[i].pkt
        live == Unexpired(h[i].now)
    IN  /\ h[i].pc = "arrived"
        /\ cache' = [q \in live |-> cache[q]]
        /\ IF p \notin live /\ HeaderOpens(p, h[i].now)
           THEN h' = [h EXCEPT ![i].pc = "looking", ![i].passed = TRUE,
                               ![i].seenAt = clock, ![i].prior = Adders(p)]
           ELSE Drop(i)
        /\ UNCHANGED <<sent, calls, tunnel, made, answers, client, got, run, clock, pipVars>>

(* Mutant: client.Revoked is not looked at. *)
BugRevokedServed(row) == row # NoRow

Admitted(row) == row # NoRow /\ ~row.revoked

(* fetchClient; the PIP's handler reads the table in between. *)
Fetch(i) ==
    LET row == getClient(sent[h[i].pkt].f.key)
    IN  /\ h[i].pc = "looking" /\ Serving
        /\ IF Admitted(row)
           THEN h' = [h EXCEPT ![i].pc = "completing", ![i].info = row]
           ELSE Drop(i)
        /\ UNCHANGED <<sent, cache, calls, tunnel, made, answers, client, got, run, clock, pipVars>>

(* Mutant: the request is repeated for ever. *)
BugFetchRepeated(i) == h[i].pc = "looking" /\ ~Serving /\ UNCHANGED vars

FetchFails(i) ==
    /\ h[i].pc = "looking" /\ ~Serving
    /\ Drop(i)
    /\ UNCHANGED <<sent, cache, calls, tunnel, made, answers, client, got, run, clock, pipVars>>

(* CompleteIKpsk1SPA with the PSK from the PIP; replayCache.Add; the       *)
(* payload and the policy; activatePEP sends its request.                  *)
PayloadOpens(i) == sent[h[i].pkt].f.psk = h[i].info.psk

Allowed(i) ==
    /\ sent[h[i].pkt].f.form # "badjson"
    /\ \E n \in DOMAIN h[i].info.services : h[i].info.services[n] = sent[h[i].pkt].f.service

(* Mutant: the entry is stored without its time to live. *)
BugAddsNow(p, now) == [q \in DOMAIN cache \cup {p} |-> IF q = p THEN now ELSE cache[q]]

Add(p, now) == [q \in DOMAIN cache \cup {p} |-> IF q = p THEN now + TTL ELSE cache[q]]

Complete(i) ==
    /\ h[i].pc = "completing" /\ PayloadOpens(i)
    /\ cache' = Add(h[i].pkt, h[i].now)
    /\ h' = [h EXCEPT ![i].pc = IF Allowed(i) THEN "calling" ELSE "dropped", ![i].added = TRUE]
    /\ calls' = IF Allowed(i) THEN calls \cup {i} ELSE calls
    /\ UNCHANGED <<sent, tunnel, made, answers, client, got, run, clock, pipVars>>

CompleteFails(i) ==
    /\ h[i].pc = "completing" /\ ~PayloadOpens(i)
    /\ Drop(i)
    /\ UNCHANGED <<sent, cache, calls, tunnel, made, answers, client, got, run, clock, pipVars>>

(* The PEP's activateHandler runs to its end whether or not the PDP still  *)
(* waits for the answer.                                                   *)
Reply(i, pc) == h' = IF h[i].pc = "calling" THEN [h EXCEPT ![i].pc = pc] ELSE h

PEPActivates(i) ==
    /\ i \in calls /\ clock + Lifetime <= MaxTime
    /\ calls' = calls \ {i}
    /\ tunnel' = [tunnel EXCEPT ![i] = clock + Lifetime]
    /\ made' = made \cup {i}
    /\ Reply(i, "activated")
    /\ UNCHANGED <<sent, cache, answers, client, got, run, clock, pipVars>>

PEPRefuses(i) ==
    /\ i \in calls
    /\ calls' = calls \ {i}
    /\ Reply(i, "dropped")
    /\ UNCHANGED <<sent, cache, tunnel, made, answers, client, got, run, clock, pipVars>>

(* The PEP's reaper. *)
Expire(i) ==
    /\ tunnel[i] # 0 /\ clock >= tunnel[i]
    /\ tunnel' = [tunnel EXCEPT ![i] = 0]
    /\ UNCHANGED <<sent, h, cache, calls, made, answers, client, got, run, clock, pipVars>>

(* activatePEP fails before, while or after the PEP serves the request, or *)
(* the response cannot be written: the tunnel, if any, stays.              *)
CallLost(i) ==
    /\ h[i].pc \in {"calling", "activated"}
    /\ Drop(i)
    /\ calls' \in {calls, calls \ {i}}
    /\ UNCHANGED <<sent, cache, tunnel, made, answers, client, got, run, clock, pipVars>>

Respond(i) ==
    /\ h[i].pc = "activated"
    /\ h' = [h EXCEPT ![i].pc = "answered"]
    /\ answers' = answers \cup {i}
    /\ UNCHANGED <<sent, cache, calls, tunnel, made, client, got, run, clock, pipVars>>

(* The process ends and starts again: the cache is only in its memory.     *)
Running(i) == h[i].pc \in {"arrived", "looking", "completing", "calling", "activated"}

Restart ==
    /\ run < MaxRestarts
    /\ run' = run + 1
    /\ cache' = << >>
    /\ h' = [i \in Handlings |-> IF Running(i) THEN [h[i] EXCEPT !.pc = "dropped"] ELSE h[i]]
    /\ UNCHANGED <<sent, calls, tunnel, made, answers, client, got, clock, pipVars>>

Tick ==
    /\ clock < MaxTime
    /\ clock' = clock + 1
    /\ UNCHANGED <<sent, h, cache, calls, tunnel, made, answers, client, got, run, pipVars>>

Step(i) ==
    Seen(i) \/ Fetch(i) \/ FetchFails(i) \/ Complete(i) \/ CompleteFails(i) \/ Respond(i)

Next ==
    \/ \E p \in PacketIds, f \in Forms, d \in Offsets : Send(p, f, d)
    \/ \E p \in PacketIds, i \in Handlings : Arrive(i, p) \/ Receive(p, i)
    \/ \E p \in PacketIds : GiveUp(p)
    \/ \E i \in Handlings : Step(i) \/ CallLost(i) \/ PEPActivates(i) \/ PEPRefuses(i) \/ Expire(i)
    \/ Restart \/ Tick
    \/ PIPNext /\ UNCHANGED ownVars

Spec == Init /\ [][Next]_vars

(* The PIP and the PEP answer what they are asked, goroutines run, the     *)
(* client's deadline and the PEP's reaper fire.  Nothing makes a datagram  *)
(* arrive or a connection last.                                            *)
Fairness ==
    /\ \A i \in Handlings : WF_vars(Step(i)) /\ WF_vars(Expire(i))
    /\ \A i \in Handlings : WF_vars(PEPActivates(i) \/ PEPRefuses(i))
    /\ \A p \in PacketIds : WF_vars(GiveUp(p))
    /\ WF_vars(Tick)

FairSpec == Spec /\ Fairness

-----------------------------------------------------------------------------
(* Types; no goroutine's clock reading is ahead of the clock, and every    *)
(* answer is about a tunnel that was made.                                 *)
TypeOK ==
    /\ clock \in 0..MaxTime /\ run \in 0..MaxRestarts
    /\ DOMAIN cache \subseteq PacketIds /\ \A p \in DOMAIN cache : cache[p] \in Nat
    /\ calls \subseteq Handlings /\ made \subseteq Handlings /\ answers \subseteq made
    /\ \A i \in Handlings : h[i].now \in 0..clock /\ h[i].run \in 0..run
    /\ \A p \in PacketIds : got[p] \in made \cup {NoHandling}

(* PROPERTY.  Seen, the header check and Add are separate steps of many    *)
(* goroutines, each with the clock it read at its start, and any of them   *)
(* prunes the cache for all.  Still a copy of a packet that was added      *)
(* before gets past Seen only when the packet's time stamp, together with  *)
(* the time this goroutine spent before Seen, is ahead of an earlier       *)
(* goroutine's clock by more than the entry outlives the skew              *)
(* (replayCache, handleUDPPacket).                                         *)
SerialReplayDropped ==
    \A i \in Handlings : h[i].passed /\ h[i].prior # {} =>
        \E m \in h[i].prior :
            /\ h[m].pkt = h[i].pkt /\ h[m].added
            /\ sent[h[i].pkt].ts + (h[i].seenAt - h[i].now) + Skew > h[m].now + TTL

(* PROPERTY.  scripts/test_replay_no_extra_xfrm.sh:59: "verify replay did  *)
(* not create extra PEP session or XFRM".  No packet makes two tunnels     *)
(* (handleUDPPacket).                                                      *)
OneTunnelPerPacket ==
    \A i, j \in made : h[i].pkt = h[j].pkt => i = j

(* PROPERTY.  Whatever the PIP's table went through, a tunnel goes back to *)
(* an entry of some seed file that names the client's key and PSK, lists   *)
(* the service it asked for and does not revoke it (seedClients,           *)
(* fetchClient, contains).                                                 *)
TunnelsAreGranted ==
    \A i \in made :
        LET f == sent[h[i].pkt].f
        IN  \E s \in loaded : \E n \in DOMAIN s :
                /\ s[n].key = f.key /\ s[n].psk = f.psk /\ ~s[n].revoked
                /\ \E m \in DOMAIN s[n].services : s[n].services[m] = f.service

(* PROPERTY.  Nothing tells the client how old an answer is, but one it    *)
(* takes is about a tunnel made for its own packet that is still alive at  *)
(* the PEP, however long the PIP, the PEP and the network took             *)
(* (client main, SetReadDeadline).                                         *)
AcceptedTunnelLives ==
    [][\A p \in PacketIds : got'[p] # got[p] =>
           h[got'[p]].pkt = p /\ tunnel[got'[p]] > clock]_vars

(* PROPERTY.  Whatever is lost on the way and however late copies arrive,  *)
(* an attempt comes to an end each time: the client has its tunnel or has  *)
(* given up, no goroutine works on the packet and no tunnel that was made  *)
(* for it, known to the client or not, is left at the PEP                  *)
(* (handleUDPPacket, activatePEP).                                         *)
Settled(p) ==
    /\ client[p] \in {"done", "gaveup"}
    /\ \A i \in Handlings : h[i].pkt = p => ~Running(i) /\ tunnel[i] = 0 /\ i \notin calls

AttemptsSettle ==
    \A p \in PacketIds : (sent[p] # NoPacket) ~> Settled(p)
=============================================================================
