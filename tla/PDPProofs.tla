----------------------------- MODULE PDPProofs -----------------------------
(***************************************************************************)
(* For any clients, packets, copies of packets, clocks and restarts: what  *)
(* the PDP's replay cache drops, how old an answer that a client takes may *)
(* be, and that a tunnel goes back to a grant of the PIP.                  *)
(***************************************************************************)
EXTENDS PDP, TLAPS

Fields == {"pc", "pkt", "now", "info", "run", "passed", "added", "seenAt", "prior"}

Shape ==
    /\ DOMAIN h = Handlings /\ \A i \in Handlings : DOMAIN h[i] = Fields
    /\ DOMAIN sent = PacketIds /\ DOMAIN got = PacketIds
    /\ tunnel \in [Handlings -> Nat]

(* A packet keeps what it was sent with. *)
PacketInv ==
    \A p \in PacketIds : sent[p] # NoPacket =>
        sent[p].f \in Forms /\ sent[p].ts \in Int /\ sent[p].at \in 0..clock

(* A goroutine that runs belongs to this process and has a packet. *)
HandlerInv(i) ==
    /\ h[i].pc = "none" => ~h[i].passed /\ ~h[i].added /\ i \notin calls \cup made
    /\ h[i].pc # "none" => h[i].pkt \in PacketIds /\ sent[h[i].pkt] # NoPacket
    /\ Running(i) => h[i].run = run
    /\ h[i].pc = "activated" => i \in made
    /\ h[i].passed => h[i].seenAt \in Nat /\ h[i].prior \subseteq Handlings

(* One goroutine that added a packet accounts for the state of the cache:  *)
(* its entry is there, or is past its time.                                *)
Accounts(m, p) ==
    \/ p \in DOMAIN cache /\ cache[p] = h[m].now + TTL
    \/ clock > h[m].now + TTL

CacheInv == \A p \in PacketIds : Adders(p) # {} => \E m \in Adders(p) : Accounts(m, p)

IInv ==
    /\ TypeOK /\ Shape /\ PacketInv /\ CacheInv /\ SerialReplayDropped
    /\ \A i \in Handlings : HandlerInv(i)

-----------------------------------------------------------------------------
LEMMA InitIInv == Init => IInv
<1> SUFFICES ASSUME Init PROVE IInv
  OBVIOUS
<1> USE PDPAssumption DEF Init
<1>1. \A i \in Handlings : h[i] = Fresh /\ DOMAIN h[i] = Fields /\ h[i].pc = "none"
                           /\ h[i].now = 0 /\ h[i].run = 0 /\ ~h[i].passed /\ ~h[i].added
  BY DEF Fresh, Fields
<1>2. TypeOK
  BY <1>1 DEF TypeOK
<1>3. Shape /\ PacketInv
  BY <1>1 DEF Shape, PacketInv
<1>4. CacheInv /\ SerialReplayDropped
  BY <1>1 DEF CacheInv, Adders, SerialReplayDropped
<1>5. \A i \in Handlings : HandlerInv(i)
  BY <1>1 DEF HandlerInv, Running
<1> QED
  BY <1>2, <1>3, <1>4, <1>5 DEF IInv

-----------------------------------------------------------------------------
(* What most steps do: goroutines with a packet keep what they know of it, *)
(* and the cache stays as it is.                                           *)
Kept ==
    /\ \A i \in Handlings : h[i].pc = "none" => ~h'[i].passed /\ ~h'[i].added
    /\ \A i \in Handlings : h[i].pc # "none" =>
          /\ h'[i].pkt = h[i].pkt /\ h'[i].now = h[i].now /\ h'[i].run = h[i].run
          /\ h'[i].passed = h[i].passed /\ h'[i].added = h[i].added
          /\ h'[i].seenAt = h[i].seenAt /\ h'[i].prior = h[i].prior
    /\ \A p \in PacketIds : sent[p] # NoPacket => sent'[p] = sent[p]
    /\ run' = run /\ cache' = cache /\ clock' \in Nat /\ clock' >= clock

LEMMA KeptCache ==
    ASSUME IInv, Kept
    PROVE  CacheInv' /\ SerialReplayDropped'
<1> USE DEF IInv
<1>1. \A p : Adders(p)' = Adders(p)
  BY DEF Kept, Adders, HandlerInv
<1>2. \A p \in PacketIds : \A m \in Adders(p) : h[m].pc # "none" /\ h[m].now \in Nat /\ h'[m].now = h[m].now
  BY DEF Kept, Adders, HandlerInv, TypeOK
<1>3. \A p \in PacketIds : \A m \in Adders(p) : Accounts(m, p) => Accounts(m, p)'
  BY <1>2, PDPAssumption DEF Kept, Accounts, TypeOK
<1>4. CacheInv'
  BY <1>1, <1>3 DEF CacheInv
<1>5. SerialReplayDropped'
  <2> SUFFICES ASSUME NEW i \in Handlings, h'[i].passed, h'[i].prior # {}
               PROVE  \E m \in h'[i].prior :
                          /\ h'[m].pkt = h'[i].pkt /\ h'[m].added
                          /\ sent'[h'[i].pkt].ts + (h'[i].seenAt - h'[i].now) + Skew > h'[m].now + TTL
    BY DEF SerialReplayDropped
  <2>1. h[i].pc # "none"
    BY DEF Kept
  <2>2. PICK m \in h[i].prior :
            /\ h[m].pkt = h[i].pkt /\ h[m].added
            /\ sent[h[i].pkt].ts + (h[i].seenAt - h[i].now) + Skew > h[m].now + TTL
    BY <2>1 DEF Kept, SerialReplayDropped
  <2>3. sent'[h[i].pkt] = sent[h[i].pkt]
    BY <2>1 DEF Kept, HandlerInv
  <2> QED
    BY <2>1, <2>2, <2>3 DEF Kept, HandlerInv
<1> QED
  BY <1>4, <1>5

-----------------------------------------------------------------------------
(* The parts of the invariant that no step has a special argument for. *)
Plain ==
    /\ TypeOK /\ Shape /\ PacketInv
    /\ \A i \in Handlings : HandlerInv(i)

LEMMA SendStep ==
    ASSUME IInv, NEW p \in PacketIds, NEW f \in Forms, NEW d \in Offsets, Send(p, f, d)
    PROVE  Plain' /\ Kept
<1> USE PDPAssumption DEF IInv, Send
<1>1. TypeOK' /\ Shape'
  BY DEF TypeOK, Shape
<1>2. PacketInv'
  BY DEF TypeOK, Shape, PacketInv
<1>3. Kept
  BY DEF TypeOK, Shape, HandlerInv, Kept
<1>4. \A i \in Handlings : HandlerInv(i)'
  BY DEF Shape, HandlerInv, Running
<1> QED
  BY <1>1, <1>2, <1>3, <1>4 DEF Plain

(* Steps that touch neither goroutines nor the cache. *)
LEMMA OtherStep ==
    ASSUME IInv,
           \/ \E p \in PacketIds, i \in Handlings : Receive(p, i)
           \/ \E p \in PacketIds : GiveUp(p)
           \/ \E i \in Handlings : Expire(i)
           \/ Tick
           \/ UNCHANGED ownVars
    PROVE  Plain' /\ Kept
<1> USE PDPAssumption DEF IInv, Receive, GiveUp, Expire, Tick, ownVars
<1>1. TypeOK'
  BY DEF TypeOK, Shape
<1>2. Shape'
  BY DEF TypeOK, Shape
<1>3. PacketInv'
  BY DEF TypeOK, PacketInv
<1>4. Kept
  BY DEF TypeOK, HandlerInv, Kept
<1>5. \A i \in Handlings : HandlerInv(i)'
  BY DEF HandlerInv, Running
<1> QED
  BY <1>1, <1>2, <1>3, <1>4, <1>5 DEF Plain

LEMMA ArriveStep ==
    ASSUME IInv, NEW i \in Handlings, NEW p \in PacketIds, Arrive(i, p)
    PROVE  Plain' /\ Kept
<1> USE PDPAssumption DEF IInv, Arrive
<1>1. /\ h'[i].pc = "arrived" /\ h'[i].pkt = p /\ h'[i].now = clock /\ h'[i].run = run
      /\ ~h'[i].passed /\ ~h'[i].added /\ DOMAIN h'[i] = Fields
      /\ \A j \in Handlings \ {i} : h'[j] = h[j]
      /\ DOMAIN h' = Handlings
  BY DEF Shape, Fresh, Fields, TimeNow
<1>2. TypeOK' /\ Shape' /\ PacketInv'
  BY <1>1 DEF TypeOK, Shape, PacketInv
<1>3. Kept
  BY <1>1 DEF TypeOK, HandlerInv, Kept
<1>4. \A j \in Handlings : HandlerInv(j)'
  BY <1>1 DEF HandlerInv, Running
<1> QED
  BY <1>2, <1>3, <1>4 DEF Plain

(* A goroutine goes from one control point to another. *)
Moves(i, pc) ==
    /\ h'[i].pc = pc /\ h'[i].pkt = h[i].pkt /\ h'[i].now = h[i].now /\ h'[i].run = h[i].run
    /\ h'[i].passed = h[i].passed /\ h'[i].added = h[i].added
    /\ h'[i].seenAt = h[i].seenAt /\ h'[i].prior = h[i].prior
    /\ DOMAIN h'[i] = Fields /\ DOMAIN h' = Handlings
    /\ \A j \in Handlings \ {i} : h'[j] = h[j]

LEMMA MovesKept ==
    ASSUME IInv, NEW i \in Handlings, NEW pc, Moves(i, pc), h[i].pc # "none",
           UNCHANGED <<sent, cache, run, clock>>
    PROVE  Kept
BY DEF IInv, TypeOK, HandlerInv, Kept, Moves

LEMMA DropMoves ==
    ASSUME IInv, NEW i \in Handlings, Drop(i)
    PROVE  Moves(i, "dropped")
BY DEF IInv, Shape, Drop, Moves, Fields

LEMMA MovesPlain ==
    ASSUME IInv, NEW i \in Handlings, NEW pc, Moves(i, pc), h[i].pc # "none", pc # "none",
           UNCHANGED <<sent, cache, run, clock, got>>,
           tunnel' \in [Handlings -> Nat],
           calls' \subseteq calls \cup {i}, made \subseteq made', made' \subseteq made \cup {i},
           answers' \subseteq made',
           pc = "activated" => i \in made',
           pc \in {"arrived", "looking", "completing", "calling", "activated"} => Running(i)
    PROVE  Plain'
<1> USE PDPAssumption DEF IInv, Moves
<1>1. TypeOK'
  BY DEF TypeOK
<1>2. Shape' /\ PacketInv'
  BY DEF Shape, PacketInv
<1>3. \A j \in Handlings : HandlerInv(j)'
  BY DEF HandlerInv, Running
<1> QED
  BY <1>1, <1>2, <1>3 DEF Plain

(* Steps of a goroutine, and of the PEP for it, that leave the cache. *)
LEMMA MoveSteps ==
    ASSUME IInv, NEW i \in Handlings,
           \/ Fetch(i) \/ FetchFails(i) \/ CompleteFails(i) \/ Respond(i) \/ CallLost(i)
           \/ PEPActivates(i) \/ PEPRefuses(i)
    PROVE  Plain' /\ Kept
<1> USE PDPAssumption DEF IInv
<1> DEFINE Ok(pc) == /\ Moves(i, pc) /\ h[i].pc # "none" /\ pc # "none"
                     /\ UNCHANGED <<sent, cache, run, clock, got>>
                     /\ tunnel' \in [Handlings -> Nat]
                     /\ calls' \subseteq calls \cup {i}
                     /\ made \subseteq made' /\ made' \subseteq made \cup {i}
                     /\ answers' \subseteq made'
                     /\ pc = "activated" => i \in made'
                     /\ pc \in {"arrived", "looking", "completing", "calling", "activated"} => Running(i)
<1>1. ASSUME NEW pc, Ok(pc) PROVE Plain' /\ Kept
  BY <1>1, MovesPlain, MovesKept
<1>2. CASE Fetch(i)
  <2>1. CASE Admitted(getClient(sent[h[i].pkt].f.key))
    <3>1. Moves(i, "completing")
      BY <1>2, <2>1 DEF Fetch, Moves, Shape, Fields
    <3> QED
      BY <1>1, <1>2, <3>1 DEF Fetch, Running, TypeOK, Shape
  <2>2. CASE ~Admitted(getClient(sent[h[i].pkt].f.key))
    BY <1>1, <1>2, <2>2, DropMoves DEF Fetch, TypeOK, Shape
  <2> QED
    BY <2>1, <2>2
<1>3. CASE FetchFails(i) \/ CompleteFails(i)
  BY <1>1, <1>3, DropMoves DEF FetchFails, CompleteFails, TypeOK, Shape
<1>4. CASE Respond(i)
  <2>1. Moves(i, "answered")
    BY <1>4 DEF Respond, Moves, Shape, Fields
  <2> QED
    BY <1>1, <1>4, <2>1 DEF Respond, TypeOK, Shape, HandlerInv
<1>5. CASE CallLost(i)
  BY <1>1, <1>5, DropMoves DEF CallLost, TypeOK, Shape
<1>6. CASE PEPActivates(i)
  <2>1. h[i].pc # "none" /\ tunnel' \in [Handlings -> Nat]
    BY <1>6 DEF PEPActivates, HandlerInv, Shape, TypeOK
  <2>2. CASE h[i].pc = "calling"
    <3>1. Moves(i, "activated")
      BY <1>6, <2>2 DEF PEPActivates, Reply, Moves, Shape, Fields
    <3> QED
      BY <1>1, <1>6, <2>1, <2>2, <3>1 DEF PEPActivates, Running, TypeOK
  <2>3. CASE h[i].pc # "calling"
    <3>1. Moves(i, h[i].pc)
      BY <1>6, <2>3 DEF PEPActivates, Reply, Moves, Shape
    <3> QED
      BY <1>1, <1>6, <2>1, <3>1 DEF PEPActivates, Running, TypeOK
  <2> QED
    BY <2>2, <2>3
<1>7. CASE PEPRefuses(i)
  <2>1. h[i].pc # "none"
    BY <1>7 DEF PEPRefuses, HandlerInv
  <2>2. CASE h[i].pc = "calling"
    <3>1. Moves(i, "dropped")
      BY <1>7, <2>2 DEF PEPRefuses, Reply, Moves, Shape, Fields
    <3> QED
      BY <1>1, <1>7, <2>1, <3>1 DEF PEPRefuses, TypeOK, Shape
  <2>3. CASE h[i].pc # "calling"
    <3>1. Moves(i, h[i].pc)
      BY <1>7, <2>3 DEF PEPRefuses, Reply, Moves, Shape
    <3> QED
      BY <1>1, <1>7, <2>1, <3>1 DEF PEPRefuses, Running, TypeOK, Shape, HandlerInv
  <2> QED
    BY <2>2, <2>3
<1> QED
  BY <1>2, <1>3, <1>4, <1>5, <1>6, <1>7

-----------------------------------------------------------------------------
(* Seen prunes by a clock reading that is not ahead of the clock, so what  *)
(* it removes is past its time; a copy that it lets pass is then accounted *)
(* for by the goroutine that had added the packet.                         *)
LEMMA SeenStep ==
    ASSUME IInv, NEW i \in Handlings, Seen(i)
    PROVE  IInv'
<1> USE PDPAssumption DEF IInv
<1> DEFINE p == h[i].pkt
           pass == p \notin Unexpired(h[i].now) /\ HeaderOpens(p, h[i].now)
<1>1. /\ h'[i].pc = (IF pass THEN "looking" ELSE "dropped")
      /\ h'[i].pkt = p /\ h'[i].now = h[i].now /\ h'[i].run = h[i].run /\ h'[i].added = h[i].added
      /\ pass => h'[i].passed /\ h'[i].seenAt = clock /\ h'[i].prior = Adders(p)
      /\ ~pass => /\ h'[i].passed = h[i].passed
                  /\ h'[i].seenAt = h[i].seenAt /\ h'[i].prior = h[i].prior
      /\ DOMAIN h'[i] = Fields /\ DOMAIN h' = Handlings
      /\ \A j \in Handlings \ {i} : h'[j] = h[j]
  <2>1. CASE pass
    BY <2>1 DEF Seen, Shape, Fields
  <2>2. CASE ~pass
    BY <2>2 DEF Seen, Drop, Shape, Fields
  <2> QED
    BY <2>1, <2>2
<1>2. /\ cache' = [q \in Unexpired(h[i].now) |-> cache[q]]
      /\ UNCHANGED <<sent, calls, tunnel, made, answers, client, got, run, clock>>
      /\ h[i].pc = "arrived" /\ p \in PacketIds /\ sent[p] # NoPacket /\ h[i].run = run
  BY DEF Seen, HandlerInv, Running
<1>3. Shape' /\ PacketInv'
  BY <1>1, <1>2 DEF Shape, PacketInv
<1>4. TypeOK'
  BY <1>1, <1>2 DEF TypeOK, Unexpired
<1>5. \A j \in Handlings : HandlerInv(j)'
  BY <1>1, <1>2 DEF HandlerInv, Running, TypeOK, Adders
<1>6. \A q : Adders(q)' = Adders(q)
  BY <1>1, <1>2 DEF Adders
<1>7. \A m \in Handlings : h'[m].now = h[m].now /\ h'[m].pkt = h[m].pkt /\ h'[m].added = h[m].added
  BY <1>1
<1>8. \A q \in PacketIds : \A m \in Adders(q) : Accounts(m, q) => Accounts(m, q)'
  BY <1>2, <1>7 DEF Accounts, Unexpired, Adders, TypeOK
<1>9. CacheInv'
  BY <1>6, <1>8 DEF CacheInv
<1>10. SerialReplayDropped'
  <2> SUFFICES ASSUME NEW j \in Handlings, h'[j].passed, h'[j].prior # {}
               PROVE  \E m \in h'[j].prior :
                          /\ h'[m].pkt = h'[j].pkt /\ h'[m].added
                          /\ sent'[h'[j].pkt].ts + (h'[j].seenAt - h'[j].now) + Skew > h'[m].now + TTL
    BY DEF SerialReplayDropped
  <2>1. CASE j = i /\ pass
    <3>1. PICK m \in Adders(p) : Accounts(m, p)
      BY <1>1, <1>2, <2>1 DEF CacheInv
    <3>2. sent[p].ts \in Int /\ sent[p].ts >= h[i].now - Skew
      BY <1>2, <2>1 DEF HeaderOpens, PacketInv, TypeOK
    <3>3. clock > h[m].now + TTL
      BY <2>1, <3>1 DEF Accounts, Unexpired, Adders, TypeOK
    <3>4. sent[p].ts + (clock - h[i].now) + Skew > h[m].now + TTL
      BY <3>2, <3>3 DEF TypeOK, Adders
    <3> QED
      BY <1>1, <1>2, <1>7, <2>1, <3>1, <3>4 DEF Adders
  <2>2. CASE ~(j = i /\ pass)
    <3>1. h'[j].passed = h[j].passed /\ h'[j].seenAt = h[j].seenAt /\ h'[j].prior = h[j].prior
      BY <1>1, <2>2
    <3>2. PICK m \in h[j].prior :
              /\ h[m].pkt = h[j].pkt /\ h[m].added
              /\ sent[h[j].pkt].ts + (h[j].seenAt - h[j].now) + Skew > h[m].now + TTL
      BY <3>1 DEF SerialReplayDropped
    <3> QED
      BY <1>2, <1>7, <3>1, <3>2 DEF HandlerInv
  <2> QED
    BY <2>1, <2>2
<1> QED
  BY <1>3, <1>4, <1>5, <1>9, <1>10

(* A goroutine that adds its packet accounts for the new entry itself. *)
LEMMA CompleteStep ==
    ASSUME IInv, NEW i \in Handlings, Complete(i)
    PROVE  IInv'
<1> USE PDPAssumption DEF IInv
<1> DEFINE p == h[i].pkt
<1>1. /\ h'[i].pc = (IF Allowed(i) THEN "calling" ELSE "dropped") /\ h'[i].added
      /\ h'[i].pkt = p /\ h'[i].now = h[i].now /\ h'[i].run = h[i].run
      /\ h'[i].passed = h[i].passed /\ h'[i].seenAt = h[i].seenAt /\ h'[i].prior = h[i].prior
      /\ DOMAIN h'[i] = Fields /\ DOMAIN h' = Handlings
      /\ \A j \in Handlings \ {i} : h'[j] = h[j]
  BY DEF Complete, Shape, Fields
<1>2. /\ cache' = Add(p, h[i].now) /\ calls' \subseteq calls \cup {i}
      /\ UNCHANGED <<sent, tunnel, made, answers, client, got, run, clock>>
      /\ h[i].pc = "completing" /\ p \in PacketIds /\ sent[p] # NoPacket /\ h[i].run = run
  BY DEF Complete, HandlerInv, Running
<1>3. Shape' /\ PacketInv'
  BY <1>1, <1>2 DEF Shape, PacketInv
<1>4. TypeOK'
  BY <1>1, <1>2 DEF TypeOK, Add
<1>5. \A j \in Handlings : HandlerInv(j)'
  BY <1>1, <1>2 DEF HandlerInv, Running
<1>6. \A m \in Handlings : h'[m].now = h[m].now /\ h'[m].pkt = h[m].pkt /\ (h[m].added => h'[m].added)
  BY <1>1
<1>7. CacheInv'
  <2> SUFFICES ASSUME NEW q \in PacketIds, Adders(q)' # {}
               PROVE  \E m \in Adders(q)' : Accounts(m, q)'
    BY DEF CacheInv
  <2>1. CASE q = p
    <3>1. i \in Adders(q)'
      BY <1>1, <1>2, <2>1 DEF Adders
    <3>2. Accounts(i, q)'
      BY <1>1, <1>2, <2>1 DEF Accounts, Add
    <3> QED
      BY <3>1, <3>2
  <2>2. CASE q # p
    <3>1. Adders(q)' = Adders(q)
      BY <1>1, <1>2, <2>2 DEF Adders
    <3>2. PICK m \in Adders(q) : Accounts(m, q)
      BY <3>1 DEF CacheInv
    <3>3. Accounts(m, q)'
      BY <1>2, <1>6, <2>2, <3>2 DEF Accounts, Add, Adders
    <3> QED
      BY <3>1, <3>3
  <2> QED
    BY <2>1, <2>2
<1>8. SerialReplayDropped'
  <2> SUFFICES ASSUME NEW j \in Handlings, h'[j].passed, h'[j].prior # {}
               PROVE  \E m \in h'[j].prior :
                          /\ h'[m].pkt = h'[j].pkt /\ h'[m].added
                          /\ sent'[h'[j].pkt].ts + (h'[j].seenAt - h'[j].now) + Skew > h'[m].now + TTL
    BY DEF SerialReplayDropped
  <2>1. h'[j].passed = h[j].passed /\ h'[j].seenAt = h[j].seenAt /\ h'[j].prior = h[j].prior
    BY <1>1
  <2>2. PICK m \in h[j].prior :
            /\ h[m].pkt = h[j].pkt /\ h[m].added
            /\ sent[h[j].pkt].ts + (h[j].seenAt - h[j].now) + Skew > h[m].now + TTL
    BY <2>1 DEF SerialReplayDropped
  <2> QED
    BY <1>2, <1>6, <2>1, <2>2 DEF HandlerInv
<1> QED
  BY <1>3, <1>4, <1>5, <1>7, <1>8

(* A restart empties the cache, and no goroutine of before counts any more. *)
LEMMA RestartStep ==
    ASSUME IInv, Restart
    PROVE  IInv'
<1> USE PDPAssumption DEF IInv
<1>1. \A i \in Handlings :
        /\ h'[i].pc = (IF Running(i) THEN "dropped" ELSE h[i].pc)
        /\ h'[i].pkt = h[i].pkt /\ h'[i].now = h[i].now /\ h'[i].run = h[i].run
        /\ h'[i].passed = h[i].passed /\ h'[i].added = h[i].added
        /\ h'[i].seenAt = h[i].seenAt /\ h'[i].prior = h[i].prior
        /\ DOMAIN h'[i] = Fields
  BY DEF Restart, Shape, Fields
<1>2. /\ run' = run + 1 /\ run' \in 0..MaxRestarts /\ cache' = << >> /\ DOMAIN h' = Handlings
      /\ UNCHANGED <<sent, calls, tunnel, made, answers, client, got, clock>>
  BY DEF Restart, TypeOK
<1>3. Shape' /\ PacketInv'
  BY <1>1, <1>2 DEF Shape, PacketInv
<1>4. TypeOK'
  BY <1>1, <1>2 DEF TypeOK
<1>5. \A j \in Handlings : HandlerInv(j)'
  BY <1>1, <1>2 DEF HandlerInv, Running
<1>6. CacheInv'
  BY <1>1, <1>2 DEF CacheInv, Adders, TypeOK
<1>7. SerialReplayDropped'
  <2> SUFFICES ASSUME NEW j \in Handlings, h'[j].passed, h'[j].prior # {}
               PROVE  \E m \in h'[j].prior :
                          /\ h'[m].pkt = h'[j].pkt /\ h'[m].added
                          /\ sent'[h'[j].pkt].ts + (h'[j].seenAt - h'[j].now) + Skew > h'[m].now + TTL
    BY DEF SerialReplayDropped
  <2>1. PICK m \in h[j].prior :
            /\ h[m].pkt = h[j].pkt /\ h[m].added
            /\ sent[h[j].pkt].ts + (h[j].seenAt - h[j].now) + Skew > h[m].now + TTL
    BY <1>1 DEF SerialReplayDropped
  <2> QED
    BY <1>1, <1>2, <2>1 DEF HandlerInv
<1> QED
  BY <1>3, <1>4, <1>5, <1>6, <1>7

-----------------------------------------------------------------------------
LEMMA NextIInv == IInv /\ [Next]_vars => IInv'
<1> SUFFICES ASSUME IInv, [Next]_vars PROVE IInv'
  OBVIOUS
<1>1. ASSUME Plain' /\ Kept PROVE IInv'
  BY <1>1, KeptCache DEF Plain, IInv
<1>2. CASE \E p \in PacketIds, f \in Forms, d \in Offsets : Send(p, f, d)
  BY <1>1, <1>2, SendStep
<1>3. CASE \E p \in PacketIds, i \in Handlings : Arrive(i, p)
  BY <1>1, <1>3, ArriveStep
<1>4. CASE \E i \in Handlings : \/ Fetch(i) \/ FetchFails(i) \/ CompleteFails(i) \/ Respond(i)
                                \/ CallLost(i) \/ PEPActivates(i) \/ PEPRefuses(i)
  BY <1>1, <1>4, MoveSteps
<1>5. CASE \E i \in Handlings : Seen(i)
  BY <1>5, SeenStep
<1>6. CASE \E i \in Handlings : Complete(i)
  BY <1>6, CompleteStep
<1>7. CASE Restart
  BY <1>7, RestartStep
<1>8. CASE \/ \E p \in PacketIds, i \in Handlings : Receive(p, i)
           \/ \E p \in PacketIds : GiveUp(p)
           \/ \E i \in Handlings : Expire(i)
           \/ Tick
           \/ UNCHANGED ownVars
  BY <1>1, <1>8, OtherStep
<1> QED
  BY <1>2, <1>3, <1>4, <1>5, <1>6, <1>7, <1>8 DEF Next, Step, vars

LEMMA Invariance == Spec => []IInv
<1>1. Init => IInv
  BY InitIInv
<1>2. IInv /\ [Next]_vars => IInv'
  BY NextIInv
<1> QED
  BY <1>1, <1>2, PTL DEF Spec

(* The variables of the PDP, the clients and the network keep their types. *)
THEOREM TypeCorrect == Spec => []TypeOK
<1>1. IInv => TypeOK
  BY DEF IInv
<1> QED
  BY <1>1, Invariance, PTL

(* For any number of copies, handled in any order and at any pace, a copy  *)
(* of an added packet gets past the replay cache only when its time stamp  *)
(* is ahead or its goroutine was slow, by more than the entry outlives the *)
(* skew (replayCache, handleUDPPacket).                                    *)
THEOREM ReplaysDropped == Spec => []SerialReplayDropped
<1>1. IInv => SerialReplayDropped
  BY DEF IInv
<1> QED
  BY <1>1, Invariance, PTL

-----------------------------------------------------------------------------
(* A tunnel is made after its packet was sent, and expires after its whole *)
(* lifetime.                                                               *)
LiveInv ==
    \A i \in made : LET at == sent[h[i].pkt].at
                    IN  tunnel[i] >= at + Lifetime \/ clock >= at + Lifetime

LEMMA NextLiveInv ==
    ASSUME IInv, IInv', LiveInv, [Next]_vars
    PROVE  LiveInv'
<1> USE PDPAssumption
<1>1. /\ \A i \in made : /\ i \in Handlings /\ h[i].pkt \in PacketIds /\ sent[h[i].pkt] # NoPacket
                         /\ sent[h[i].pkt].at \in Nat /\ tunnel[i] \in Nat
      /\ clock \in Nat
  BY DEF IInv, TypeOK, HandlerInv, PacketInv, Shape
<1>2. ASSUME \A i \in made : h'[i].pkt = h[i].pkt,
             \A p \in PacketIds : sent[p] # NoPacket => sent'[p] = sent[p],
             made' = made, \A i \in made : tunnel'[i] = tunnel[i], clock' \in Nat, clock' >= clock
      PROVE  LiveInv'
  BY <1>1, <1>2 DEF LiveInv
<1>3. CASE \E p \in PacketIds, f \in Forms, d \in Offsets : Send(p, f, d)
  BY <1>1, <1>2, <1>3 DEF Send, IInv, Shape
<1>4. CASE \E p \in PacketIds, i \in Handlings : Arrive(i, p)
  BY <1>1, <1>2, <1>4 DEF Arrive, IInv, HandlerInv, Shape
<1>5. CASE \E i \in Handlings : \/ Fetch(i) \/ FetchFails(i) \/ CompleteFails(i) \/ Respond(i)
                                \/ CallLost(i) \/ PEPRefuses(i) \/ Seen(i) \/ Complete(i)
  <2>1. \A i \in made : h'[i].pkt = h[i].pkt
    BY <1>1, <1>5 DEF Fetch, FetchFails, CompleteFails, Respond, CallLost, PEPRefuses, Seen, Complete,
                      Drop, Reply, IInv, Shape, Fields
  <2>2. UNCHANGED <<sent, made, tunnel, clock>>
    BY <1>5 DEF Fetch, FetchFails, CompleteFails, Respond, CallLost, PEPRefuses, Seen, Complete
  <2> QED
    BY <1>1, <1>2, <2>1, <2>2
<1>6. CASE \E i \in Handlings : PEPActivates(i)
  <2>1. PICK i \in Handlings : PEPActivates(i)
    BY <1>6
  <2>2. \A j \in Handlings : h'[j].pkt = h[j].pkt
    BY <2>1 DEF PEPActivates, Reply, IInv, Shape, Fields
  <2>3. sent[h[i].pkt].at \in 0..clock
    BY <2>1 DEF PEPActivates, IInv, HandlerInv, PacketInv
  <2>4. /\ tunnel'[i] = clock + Lifetime /\ \A j \in Handlings \ {i} : tunnel'[j] = tunnel[j]
        /\ made' = made \cup {i} /\ UNCHANGED <<sent, clock>>
    BY <2>1 DEF PEPActivates, IInv, Shape
  <2>5. tunnel'[i] >= sent[h[i].pkt].at + Lifetime
    BY <1>1, <2>3, <2>4
  <2> QED
    BY <1>1, <2>2, <2>4, <2>5 DEF LiveInv
<1>7. CASE Restart
  BY <1>1, <1>2, <1>7 DEF Restart, IInv, Shape, Fields
<1>8. CASE \E i \in Handlings : Expire(i)
  <2>1. PICK i \in Handlings : Expire(i)
    BY <1>8
  <2>2. \A j \in Handlings \ {i} : tunnel'[j] = tunnel[j]
    BY <2>1 DEF Expire, IInv, Shape
  <2> QED
    BY <1>1, <2>1, <2>2 DEF Expire, LiveInv
<1>9. CASE \/ \E p \in PacketIds, i \in Handlings : Receive(p, i)
           \/ \E p \in PacketIds : GiveUp(p)
           \/ Tick
           \/ UNCHANGED ownVars
  BY <1>1, <1>2, <1>9 DEF Receive, GiveUp, Tick, ownVars
<1> QED
  BY <1>3, <1>4, <1>5, <1>6, <1>7, <1>8, <1>9 DEF Next, Step, vars

LEMMA TakenLives ==
    ASSUME ClientWait < Lifetime, IInv, LiveInv, [Next]_vars, NEW p \in PacketIds, got'[p] # got[p]
    PROVE  h[got'[p]].pkt = p /\ tunnel[got'[p]] > clock
<1>1. PICK i \in Handlings : Receive(p, i)
  <2>1. \E q \in PacketIds, i \in Handlings : Receive(q, i)
    BY DEF Next, Step, vars, ownVars, Send, Arrive, GiveUp, Seen, Fetch, FetchFails, Complete, CompleteFails,
           Respond, CallLost, PEPActivates, PEPRefuses, Expire, Restart, Tick
  <2>2. PICK q \in PacketIds, i \in Handlings : Receive(q, i)
    BY <2>1
  <2>3. q = p
    BY <2>2 DEF Receive, IInv, Shape
  <2> QED
    BY <2>2, <2>3
<1>2. got'[p] = i /\ h[i].pkt = p /\ i \in made /\ clock <= sent[p].at + ClientWait
  BY <1>1 DEF Receive, InTime, IInv, Shape, TypeOK
<1>3. sent[p].at \in Nat /\ tunnel[i] \in Nat /\ clock \in Nat
  BY <1>2 DEF IInv, TypeOK, HandlerInv, PacketInv, Shape
<1> QED
  BY <1>2, <1>3, PDPAssumption DEF LiveInv

(* When a tunnel's lifetime exceeds the client's read deadline, no answer  *)
(* is so late that the client takes a tunnel the PEP has already removed,  *)
(* however slow the PIP, the PEP and the network are (client main,         *)
(* handleUDPPacket).                                                       *)
THEOREM AnswersLive ==
    ASSUME ClientWait < Lifetime
    PROVE  Spec => AcceptedTunnelLives
<1>1. Init => LiveInv
  BY DEF Init, LiveInv
<1>2. IInv /\ IInv' /\ LiveInv /\ [Next]_vars => LiveInv'
  BY NextLiveInv
<1>3. IInv /\ LiveInv /\ [Next]_vars =>
          [\A p \in PacketIds : got'[p] # got[p] => h[got'[p]].pkt = p /\ tunnel[got'[p]] > clock]_vars
  BY TakenLives
<1> QED
  BY <1>1, <1>2, <1>3, Invariance, PTL DEF Spec, AcceptedTunnelLives

-----------------------------------------------------------------------------
(* Every client of every seed file may reach some service, and no key      *)
(* becomes another client's when the path it is part of is cleaned.        *)
SomeService == \A s \in Seeds : \A n \in DOMAIN s : s[n].services # <<>>
KeysApart   == \A f \in Forms : cleanPath(f.key) \in ClientKeys => cleanPath(f.key) = f.key

(* A row of the table is an entry of a seed file that was loaded. *)
FromSeed(row, key) == \E s \in loaded : \E n \in DOMAIN s : s[n].key = key /\ row = Row(s[n])

TableInv ==
    /\ loaded \subseteq Seeds /\ file \in loaded \cup {<<>>}
    /\ DOMAIN db = ClientKeys
    /\ \A k \in ClientKeys : db[k] # NoRow => FromSeed(db[k], k)

Granted(f) ==
    \E s \in loaded : \E n \in DOMAIN s :
        /\ s[n].key = f.key /\ s[n].psk = f.psk /\ ~s[n].revoked
        /\ \E m \in DOMAIN s[n].services : s[n].services[m] = f.service

GrantInv ==
    /\ TableInv
    /\ \A i \in Handlings : h[i].pc = "completing" =>
          FromSeed(h[i].info, sent[h[i].pkt].f.key) /\ ~h[i].info.revoked
    /\ \A i \in calls \cup made : Granted(sent[h[i].pkt].f)

LEMMA TableStep ==
    ASSUME TableInv, PIPNext
    PROVE  TableInv' /\ loaded \subseteq loaded'
<1> USE PIPAssumption DEF TableInv
<1>1. CASE \E f \in Seeds : StartPIP(f)
  BY <1>1 DEF StartPIP, FromSeed
<1>2. CASE SeedRow
  <2>1. file \in loaded /\ pos \in DOMAIN file
    BY <1>2 DEF SeedRow
  <2>2. db' = [db EXCEPT ![file[pos].key] = Row(file[pos])] /\ UNCHANGED <<file, loaded>>
    BY <1>2 DEF SeedRow, Upsert
  <2>3. \A k \in ClientKeys : db'[k] # NoRow => FromSeed(db'[k], k)
    BY <2>1, <2>2 DEF FromSeed
  <2> QED
    BY <2>2, <2>3 DEF FromSeed
<1>3. CASE StopPIP
  BY <1>3 DEF StopPIP, FromSeed
<1> QED
  BY <1>1, <1>2, <1>3 DEF PIPNext

(* Steps that neither fetch a row nor ask the PEP. *)
LEMMA GrantKept ==
    ASSUME IInv, GrantInv, UNCHANGED pipVars,
           \A i \in Handlings : h[i].pc # "none" =>
               /\ h'[i].pkt = h[i].pkt
               /\ h'[i].pc = "completing" => h[i].pc = "completing" /\ h'[i].info = h[i].info,
           \A i \in Handlings : h[i].pc = "none" => h'[i].pc # "completing",
           \A p \in PacketIds : sent[p] # NoPacket => sent'[p] = sent[p],
           calls' \cup made' \subseteq calls \cup made
    PROVE  GrantInv'
<1>1. loaded' = loaded /\ db' = db /\ file' = file
  BY DEF pipVars
<1>2. \A i \in Handlings : h[i].pc # "none" => sent'[h'[i].pkt] = sent[h[i].pkt]
  BY DEF IInv, HandlerInv
<1>3. TableInv'
  BY <1>1 DEF GrantInv, TableInv, FromSeed
<1>4. \A i \in Handlings : h'[i].pc = "completing" =>
          (FromSeed(h[i].info, sent[h[i].pkt].f.key) /\ ~h[i].info.revoked)'
  BY <1>1, <1>2 DEF GrantInv, FromSeed
<1>5. \A i \in calls' \cup made' : Granted(sent[h[i].pkt].f)'
  BY <1>1, <1>2 DEF GrantInv, Granted, IInv, TypeOK, HandlerInv
<1> QED
  BY <1>3, <1>4, <1>5 DEF GrantInv

LEMMA FetchGrant ==
    ASSUME KeysApart, IInv, GrantInv, NEW i \in Handlings, Fetch(i)
    PROVE  GrantInv'
<1> DEFINE key == sent[h[i].pkt].f.key
           row == getClient(key)
<1>1. /\ h[i].pc = "looking" /\ h[i].pkt \in PacketIds /\ sent[h[i].pkt].f \in Forms
      /\ UNCHANGED <<sent, calls, made, pipVars>>
  BY DEF Fetch, IInv, HandlerInv, PacketInv
<1>2. CASE Admitted(row)
  <2>1. row # NoRow /\ ~row.revoked /\ cleanPath(key) \in ClientKeys /\ row = db[cleanPath(key)]
    BY <1>2 DEF Admitted, getClient
  <2>2. FromSeed(row, key)
    BY <1>1, <2>1 DEF KeysApart, GrantInv, TableInv
  <2>3. /\ h'[i].pkt = h[i].pkt /\ h'[i].info = row
        /\ \A j \in Handlings \ {i} : h'[j] = h[j]
    BY <1>2 DEF Fetch, IInv, Shape, Fields
  <2>4. loaded' = loaded /\ db' = db /\ file' = file
    BY <1>1 DEF pipVars
  <2>5. TableInv'
    BY <2>4 DEF GrantInv, TableInv, FromSeed
  <2>6. \A j \in Handlings : h'[j].pc = "completing" =>
            (FromSeed(h[j].info, sent[h[j].pkt].f.key) /\ ~h[j].info.revoked)'
    BY <1>1, <2>1, <2>2, <2>3, <2>4 DEF GrantInv, FromSeed
  <2>7. \A j \in calls' \cup made' : Granted(sent[h[j].pkt].f)'
    BY <1>1, <2>3, <2>4 DEF GrantInv, Granted, IInv, TypeOK
  <2> QED
    BY <2>5, <2>6, <2>7 DEF GrantInv
<1>3. CASE ~Admitted(row)
  BY <1>1, <1>3, GrantKept DEF Fetch, Drop, IInv, Shape, Fields
<1> QED
  BY <1>2, <1>3

LEMMA CompleteGrant ==
    ASSUME SomeService, IInv, GrantInv, NEW i \in Handlings, Complete(i)
    PROVE  GrantInv'
<1> DEFINE f == sent[h[i].pkt].f
<1>1. /\ h[i].pc = "completing" /\ h[i].info.psk = f.psk /\ UNCHANGED <<sent, made, pipVars>>
      /\ calls' \subseteq calls \cup {i} /\ (~Allowed(i) => calls' = calls)
  BY DEF Complete, PayloadOpens
<1>2. /\ \A j \in Handlings : h'[j].pkt = h[j].pkt
      /\ h'[i].pc # "completing"
      /\ \A j \in Handlings \ {i} : h'[j] = h[j]
  BY DEF Complete, IInv, Shape, Fields
<1>3. CASE ~Allowed(i)
  BY <1>1, <1>2, <1>3, GrantKept
<1>4. CASE Allowed(i)
  <2>1. PICK s \in loaded : \E n \in DOMAIN s : s[n].key = f.key /\ h[i].info = Row(s[n])
    BY <1>1 DEF GrantInv, FromSeed
  <2>2. PICK n \in DOMAIN s : s[n].key = f.key /\ h[i].info = Row(s[n])
    BY <2>1
  <2>3. s[n].services # <<>>
    BY <2>1, <2>2 DEF SomeService, GrantInv, TableInv
  <2>4. /\ h[i].info.psk = s[n].psk /\ h[i].info.revoked = s[n].revoked
        /\ h[i].info.services = s[n].services
    BY <2>2, <2>3 DEF Row, StoredServices
  <2>5. Granted(f)
    BY <1>1, <1>4, <2>1, <2>2, <2>4 DEF Granted, Allowed, GrantInv
  <2>6. loaded' = loaded /\ db' = db /\ file' = file
    BY <1>1 DEF pipVars
  <2>7. TableInv'
    BY <2>6 DEF GrantInv, TableInv, FromSeed
  <2>8. \A j \in Handlings : h'[j].pc = "completing" =>
            (FromSeed(h[j].info, sent[h[j].pkt].f.key) /\ ~h[j].info.revoked)'
    BY <1>1, <1>2, <2>6 DEF GrantInv, FromSeed
  <2>9. \A j \in calls' \cup made' : Granted(sent[h[j].pkt].f)'
    BY <1>1, <1>2, <2>5, <2>6 DEF GrantInv, Granted, IInv, TypeOK
  <2> QED
    BY <2>7, <2>8, <2>9 DEF GrantInv
<1> QED
  BY <1>3, <1>4

LEMMA NextGrantInv ==
    ASSUME SomeService, KeysApart, IInv, GrantInv, [Next]_vars
    PROVE  GrantInv'
<1>1. CASE \E p \in PacketIds, f \in Forms, d \in Offsets : Send(p, f, d)
  BY <1>1, GrantKept DEF Send, IInv, Shape
<1>2. CASE \E p \in PacketIds, i \in Handlings : Arrive(i, p)
  <2>1. PICK p \in PacketIds, i \in Handlings : Arrive(i, p)
    BY <1>2
  <2>2. h'[i].pc = "arrived" /\ h[i].pc = "none" /\ \A j \in Handlings \ {i} : h'[j] = h[j]
    BY <2>1 DEF Arrive, Fresh, IInv, Shape
  <2> QED
    BY <2>1, <2>2, GrantKept DEF Arrive
<1>3. CASE \E i \in Handlings : \/ FetchFails(i) \/ CompleteFails(i) \/ Respond(i)
                                \/ CallLost(i) \/ PEPRefuses(i) \/ PEPActivates(i) \/ Seen(i)
  <2>1. PICK i \in Handlings : \/ FetchFails(i) \/ CompleteFails(i) \/ Respond(i)
                                \/ CallLost(i) \/ PEPRefuses(i) \/ PEPActivates(i) \/ Seen(i)
    BY <1>3
  <2>2. /\ h'[i].pkt = h[i].pkt /\ h'[i].info = h[i].info
        /\ h'[i].pc = "completing" => h[i].pc = "completing"
        /\ \A j \in Handlings \ {i} : h'[j] = h[j]
    BY <2>1 DEF FetchFails, CompleteFails, Respond, CallLost, PEPRefuses, PEPActivates, Seen,
                Drop, Reply, IInv, Shape, Fields
  <2>3. calls' \cup made' \subseteq calls \cup made /\ UNCHANGED <<sent, pipVars>>
    BY <2>1 DEF FetchFails, CompleteFails, Respond, CallLost, PEPRefuses, PEPActivates, Seen
  <2>4. h[i].pc = "none" => h'[i].pc # "completing"
    BY <2>2
  <2> QED
    BY <2>2, <2>3, <2>4, GrantKept
<1>4. CASE \E i \in Handlings : Fetch(i)
  BY <1>4, FetchGrant
<1>5. CASE \E i \in Handlings : Complete(i)
  BY <1>5, CompleteGrant
<1>6. CASE Restart
  BY <1>6, GrantKept DEF Restart, IInv, Shape, Fields, Running
<1>7. CASE \/ \E p \in PacketIds, i \in Handlings : Receive(p, i)
           \/ \E p \in PacketIds : GiveUp(p)
           \/ \E i \in Handlings : Expire(i)
           \/ Tick
           \/ UNCHANGED vars
  BY <1>7, GrantKept DEF Receive, GiveUp, Expire, Tick, vars, ownVars
<1>8. CASE PIPNext /\ UNCHANGED ownVars
  <2>1. TableInv' /\ loaded \subseteq loaded'
    BY <1>8, TableStep DEF GrantInv
  <2> QED
    BY <1>8, <2>1 DEF GrantInv, ownVars, FromSeed, Granted
<1> QED
  BY <1>1, <1>2, <1>3, <1>4, <1>5, <1>6, <1>7, <1>8 DEF Next, Step

(* When every client of every seed file may reach some service, and keys   *)
(* stay apart in paths, each tunnel goes back to an unrevoked entry with   *)
(* its client's key, PSK and service, whatever restarts and interrupted    *)
(* seedings the table went through while requests were on their way        *)
(* (seedClients, getClient, handleUDPPacket).  Without the first condition *)
(* StoredServices grants the service with the empty name.                  *)
THEOREM TunnelsGranted ==
    ASSUME SomeService, KeysApart
    PROVE  Spec => []TunnelsAreGranted
<1>1. Init => GrantInv
  BY DEF Init, PIPInit, GrantInv, TableInv, Fresh
<1>2. IInv /\ GrantInv /\ [Next]_vars => GrantInv'
  BY NextGrantInv
<1>3. GrantInv => TunnelsAreGranted
  BY DEF GrantInv, Granted, TunnelsAreGranted
<1> QED
  BY <1>1, <1>2, <1>3, Invariance, PTL DEF Spec

-----------------------------------------------------------------------------
(* The rows inserted so far are those of the file's first entries. *)
SeedInv ==
    /\ DOMAIN db = ClientKeys /\ file \in Seeds \cup {<<>>} /\ pos \in 0..(Len(file) + 1)
    /\ \A n \in 1..(pos - 1) : LastFor(n, pos - 1) => db[file[n].key] = Row(file[n])

LEMMA FileShape ==
    ASSUME NEW f \in Seeds \cup {<<>>}
    PROVE  Len(f) \in Nat /\ DOMAIN f = 1..Len(f) /\ \A n \in DOMAIN f : f[n].key \in ClientKeys
<1> DEFINE E == [key : ClientKeys, psk : STRING, services : Seq(STRING), revoked : BOOLEAN]
<1>1. Seeds \subseteq Seq(E)
  BY ONLY PIPAssumption
<1>2. \A e \in E : e.key \in ClientKeys
  OBVIOUS
<1> HIDE DEF E
<1>3. Len(f) \in Nat /\ DOMAIN f = 1..Len(f) /\ \A n \in 1..Len(f) : f[n] \in E
  BY <1>1
<1> QED
  BY <1>2, <1>3

LEMMA SeedRowStep ==
    ASSUME SeedInv, SeedRow
    PROVE  SeedInv'
<1>1. /\ file \in Seeds /\ file' = file /\ pos \in 1..Len(file) /\ pos' = pos + 1
      /\ db' = [db EXCEPT ![file[pos].key] = Row(file[pos])]
  BY DEF SeedInv, SeedRow, Upsert
<1>2. Len(file) \in Nat /\ DOMAIN file = 1..Len(file) /\ file[pos].key \in ClientKeys
  BY <1>1, FileShape
<1>3. ASSUME NEW n \in 1..pos, LastFor(n, pos)
      PROVE  db'[file[n].key] = Row(file[n])
  <2>1. CASE n = pos
    BY <1>1, <1>2, <2>1 DEF SeedInv
  <2>2. CASE n # pos
    <3>1. n \in 1..(pos - 1) /\ LastFor(n, pos - 1) /\ file[pos].key # file[n].key
      BY <1>1, <1>2, <1>3, <2>2 DEF LastFor
    <3>2. db[file[n].key] = Row(file[n]) /\ file[n].key \in ClientKeys
      BY <1>1, <1>2, <3>1, FileShape DEF SeedInv
    <3> QED
      BY <1>1, <3>1, <3>2 DEF SeedInv
  <2> QED
    BY <2>1, <2>2
<1>4. \A n \in 1..(pos' - 1) : (LastFor(n, pos - 1) => db[file[n].key] = Row(file[n]))'
  BY <1>1, <1>2, <1>3 DEF LastFor, Row
<1> QED
  BY <1>1, <1>2, <1>4 DEF SeedInv

(* Whatever an earlier start has left in the database, interrupted or not, *)
(* a serving PIP has for each client what the last entry of its own seed   *)
(* file says, for any files and any number of starts (seedClients).        *)
THEOREM SeedTakesEffect == Spec => []ServesSeed
<1>1. Init => SeedInv
  BY PIPAssumption DEF Init, PIPInit, SeedInv
<1>2. SeedInv /\ [Next]_vars => SeedInv'
  <2> SUFFICES ASSUME SeedInv, [Next]_vars PROVE SeedInv'
    OBVIOUS
  <2>1. ASSUME NEW f \in Seeds, StartPIP(f) PROVE SeedInv'
    <3>1. Len(f) \in Nat
      BY FileShape
    <3> QED
      BY <2>1, <3>1 DEF StartPIP, SeedInv
  <2>2. CASE StopPIP
    <3>1. Len(file) \in Nat
      BY FileShape DEF SeedInv
    <3> QED
      BY <2>2, <3>1 DEF StopPIP, SeedInv
  <2>3. CASE UNCHANGED pipVars
    BY <2>3 DEF pipVars, SeedInv, LastFor
  <2>4. UNCHANGED pipVars \/ PIPNext
    BY DEF Next, Step, vars, Send, Arrive, Receive, GiveUp, Seen, Fetch, FetchFails, Complete,
           CompleteFails, Respond, CallLost, PEPActivates, PEPRefuses, Expire, Restart, Tick
  <2> QED
    BY <2>1, <2>2, <2>3, <2>4, SeedRowStep DEF PIPNext
<1>3. SeedInv => ServesSeed
  <2> SUFFICES ASSUME SeedInv, Serving, NEW n \in DOMAIN file, LastFor(n, Len(file))
               PROVE  db[file[n].key] = Row(file[n])
    BY DEF ServesSeed
  <2>1. Len(file) \in Nat /\ DOMAIN file = 1..Len(file) /\ pos = Len(file) + 1
    BY FileShape DEF SeedInv, Serving
  <2> QED
    BY <2>1 DEF SeedInv
<1> QED
  BY <1>1, <1>2, <1>3, PTL DEF Spec
=============================================================================
