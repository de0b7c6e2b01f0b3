--------------------------- MODULE VerifierProofs ---------------------------
(***************************************************************************)
(* For any PEPs, any requests and any number of goroutines: the Verifier   *)
(* keeps one unforked chain per PEP, hands out only durable tokens, and    *)
(* implements CapacityService.                                             *)
(***************************************************************************)
EXTENDS Verifier, TLAPS

(* A handler's request is one that arrived, clamped. *)
Admitted(r) == \E q \in Requests : ValidRequest(q) /\ r = Clamp(q)

Certified(t) == t.epoch \in 1..Len(accepted[t.pep]) /\ accepted[t.pep][t.epoch] = t

(* t is the next link after checkpoint c of PEP p. *)
Follows(t, p, c) ==
    /\ t \in Tokens /\ t.pep = p /\ t.cp.prev = c
    /\ t.epoch = EpochOf(c) + 1 /\ t.cp.epoch = t.epoch
    /\ IsPrefix(LogOf(c), t.cp.log)

(* What a goroutine holds, by control point. *)
HandlerInv(i) ==
    /\ h[i].pc \in {"idle", "received", "appraise", "commit", "save", "publish", "reply"}
    /\ h[i].pc = "received" => h[i].r \in Requests
    /\ h[i].pc \in {"appraise", "commit"} => /\ Admitted(h[i].r)
                                            /\ h[i].previous \in Checkpoints \cup {NoCp}
    /\ h[i].pc = "commit" => /\ Follows(h[i].tok, h[i].r.pep, h[i].previous)
                             /\ h[i].tok.cp = h[i].r.ev.cp
    /\ h[i].pc \in {"save", "publish"} =>
          /\ lock = i /\ h[i].p \in PEPs
          /\ Follows(h[i].tok, h[i].p, mem.cp[h[i].p])
          /\ h[i].next.cp = [mem.cp EXCEPT ![h[i].p] = h[i].tok.cp]
          /\ h[i].next.tok = [mem.tok EXCEPT ![h[i].p] = h[i].tok]
          /\ DOMAIN h[i].next.active = PEPs
    /\ h[i].pc = "save" => mem = disk
    /\ h[i].pc = "publish" => disk = h[i].next /\ Certified(h[i].tok)
    /\ h[i].pc = "reply" => h[i].tok \in Tokens /\ Certified(h[i].tok)

(* Memory and file differ only while the lock is held for a commit. *)
LockInv ==
    /\ lock = Free => mem = disk
    /\ lock # Free => h[lock].pc \in {"save", "publish"}

IInv ==
    /\ TypeOK /\ LockInv
    /\ \A i \in Handlers : HandlerInv(i)
    /\ AcceptedIsOneChain /\ SentIsDurable

-----------------------------------------------------------------------------
(* Appending events extends a log. *)
LEMMA ConcatExtends ==
    ASSUME NEW S, NEW s \in Seq(S), NEW e \in Seq(S)
    PROVE  IsPrefix(s, s \o e)
BY DEF IsPrefix

(* Clamping changes nothing but the lifetime, and bounds it. *)
LEMMA ClampFacts ==
    ASSUME NEW q \in Requests
    PROVE  /\ Clamp(q).pep = q.pep /\ Clamp(q).key = q.key /\ Clamp(q).ev = q.ev
           /\ Clamp(q).life \in Int /\ (MaxSALifetime > 0 => Clamp(q).life <= MaxSALifetime)
<1>1. Clamp(q).pep = q.pep /\ Clamp(q).key = q.key /\ Clamp(q).ev = q.ev
  BY RequestAssumption DEF Clamp
<1>2. Clamp(q).life = IF MaxSALifetime > 0 /\ q.life > MaxSALifetime THEN MaxSALifetime ELSE q.life
  BY RequestAssumption DEF Clamp
<1> QED
  BY <1>1, <1>2, RequestAssumption

(* A token of Tokens names an enrolled PEP and a checkpoint that was sent. *)
LEMMA TokenFacts ==
    ASSUME NEW t \in Tokens
    PROVE  /\ t.pep \in PEPs /\ t.cp \in Checkpoints /\ t.cp # NoCp
           /\ t.epoch = t.cp.epoch /\ t.epoch \in Nat
<1>1. PICK q \in Requests, now \in 0..MaxTime : ValidRequest(q) /\ t = Token(Clamp(q), now)
  BY DEF Tokens
<1> QED
  BY <1>1, ClampFacts, RequestAssumption DEF Token, ValidRequest, Checkpoints

(* What an admitted request gives. *)
LEMMA AdmittedFacts ==
    ASSUME NEW r, Admitted(r), NEW now \in 0..MaxTime
    PROVE  /\ r.pep \in PEPs /\ r.ev.cp \in Checkpoints
           /\ r.ev.events \in Seq(HistoryEvents) /\ r.ev.cp.log \in Seq(HistoryEvents)
           /\ Token(r, now) \in Tokens
<1>1. PICK q \in Requests : ValidRequest(q) /\ r = Clamp(q)
  BY DEF Admitted
<1>2. Token(r, now).life = r.life
  BY DEF Token
<1>3. Token(r, now) \in Tokens
  BY <1>1, <1>2, ClampFacts DEF Tokens
<1> QED
  BY <1>1, <1>3, ClampFacts, RequestAssumption DEF ValidRequest, Checkpoints

(* A history that VerifyHistoryEvidence accepts against c is the next link *)
(* after c.                                                                *)
LEMMA AppraisedFollows ==
    ASSUME NEW r, Admitted(r), NEW c \in Checkpoints \cup {NoCp}, NEW now \in 0..MaxTime,
           VerifyHistoryEvidence(r.ev, r.pep, r.key, c)
    PROVE  Follows(Token(r, now), r.pep, c) /\ Token(r, now).cp = r.ev.cp
<1>1. LogOf(c) \in Seq(HistoryEvents)
  BY RequestAssumption DEF LogOf, Checkpoints
<1>2. IsPrefix(LogOf(c), r.ev.cp.log)
  BY <1>1, AdmittedFacts, ConcatExtends DEF VerifyHistoryEvidence
<1> QED
  BY <1>2, AdmittedFacts DEF Follows, VerifyHistoryEvidence, Token

(* A certified token stays certified when the chain of some PEP grows. *)
LEMMA CertifiedStable ==
    ASSUME TypeOK, NEW p \in PEPs, NEW t \in Tokens, NEW u \in Tokens, Certified(u),
           accepted' = [accepted EXCEPT ![p] = Append(@, t)]
    PROVE  Certified(u)'
<1>1. u.pep \in PEPs /\ accepted[p] \in Seq(Tokens) /\ accepted[u.pep] \in Seq(Tokens)
  BY TokenFacts DEF TypeOK
<1>2. u.epoch \in 1..Len(accepted[u.pep]) /\ accepted[u.pep][u.epoch] = u
  BY DEF Certified
<1>3. CASE u.pep = p
  <2>1. accepted'[p] = Append(accepted[p], t)
    BY DEF TypeOK
  <2> QED
    BY <1>1, <1>2, <1>3, <2>1 DEF Certified
<1>4. CASE u.pep # p
  BY <1>1, <1>2, <1>4 DEF Certified, TypeOK
<1> QED
  BY <1>3, <1>4

(* The token that acceptedCheckpointRetry hands out again is certified: it *)
(* is the newest of the chain.                                             *)
LEMMA RetryCertified ==
    ASSUME IInv, lock = Free, NEW p \in PEPs, mem.cp[p] # NoCp
    PROVE  mem.tok[p] \in Tokens /\ Certified(mem.tok[p])
<1>1. mem = disk
  BY DEF IInv, LockInv
<1>2. accepted[p] \in Seq(Tokens) /\ accepted[p] # <<>>
  BY <1>1 DEF IInv, TypeOK, AcceptedIsOneChain
<1>3. Len(accepted[p]) \in 1..Len(accepted[p])
  BY <1>2
<1>4. /\ disk.tok[p] = accepted[p][Len(accepted[p])]
      /\ accepted[p][Len(accepted[p])].pep = p
      /\ accepted[p][Len(accepted[p])].epoch = Len(accepted[p])
  BY <1>2, <1>3 DEF IInv, AcceptedIsOneChain
<1> QED
  BY <1>1, <1>2, <1>3, <1>4 DEF Certified

-----------------------------------------------------------------------------
(* A step of one goroutine that touches neither the state nor the lock. *)
LEMMA QuietStep ==
    ASSUME IInv, NEW i \in Handlers, NEW s, h[i].pc \notin {"save", "publish"},
           h' = [h EXCEPT ![i] = s],
           UNCHANGED <<mem, disk, lock, clock, accepted, sent>>,
           HandlerInv(i)'
    PROVE  IInv'
<1>1. lock # i /\ DOMAIN h = Handlers
  BY RequestAssumption DEF IInv, LockInv, TypeOK, Free
<1>2. TypeOK' /\ AcceptedIsOneChain' /\ SentIsDurable'
  BY <1>1 DEF IInv, TypeOK, StateOK, AcceptedIsOneChain, SentIsDurable
<1>3. LockInv'
  BY <1>1 DEF IInv, LockInv, TypeOK
<1>4. ASSUME NEW j \in Handlers PROVE HandlerInv(j)'
  <2>1. CASE j = i
    BY <2>1
  <2>2. CASE j # i
    <3>1. h'[j] = h[j]
      BY <1>1, <2>2
    <3> QED
      BY <3>1 DEF IInv, HandlerInv, Certified
  <2> QED
    BY <2>1, <2>2
<1> QED
  BY <1>2, <1>3, <1>4 DEF IInv

(* The initial state satisfies the invariant. *)
LEMMA InitInv == Init => IInv
<1> SUFFICES ASSUME Init PROVE IInv
  OBVIOUS
<1>1. TypeOK
  BY RequestAssumption DEF Init, TypeOK, StateOK
<1>2. LockInv /\ \A i \in Handlers : HandlerInv(i)
  BY DEF Init, LockInv, HandlerInv, Idle
<1>3. AcceptedIsOneChain /\ SentIsDurable
  BY DEF Init, AcceptedIsOneChain, SentIsDurable
<1> QED
  BY <1>1, <1>2, <1>3 DEF IInv

(* A request arrives. *)
LEMMA ReceiveInv ==
    ASSUME IInv, NEW i \in Handlers, NEW r \in Requests, Receive(i, r)
    PROVE  IInv'
<1>1. h' = [h EXCEPT ![i] = [pc |-> "received", r |-> r]] /\ h'[i] = [pc |-> "received", r |-> r]
  BY DEF Receive, Goto, IInv, TypeOK
<1>2. HandlerInv(i)'
  BY <1>1 DEF HandlerInv
<1> QED
  BY <1>1, <1>2, QuietStep DEF Receive

(* A goroutine gives up without holding the lock. *)
LEMMA IdleInv ==
    ASSUME IInv, NEW i \in Handlers, h[i].pc \notin {"save", "publish"}, Goto(i, Idle),
           UNCHANGED <<mem, disk, lock, clock, accepted, sent>>
    PROVE  IInv'
<1>1. h' = [h EXCEPT ![i] = Idle] /\ h'[i] = [pc |-> "idle"]
  BY DEF Goto, Idle, IInv, TypeOK
<1>2. HandlerInv(i)'
  BY <1>1 DEF HandlerInv
<1> QED
  BY <1>1, <1>2, QuietStep

(* A goroutine goes to answer a certified token. *)
LEMMA AnswerInv ==
    ASSUME IInv, NEW i \in Handlers, h[i].pc \notin {"save", "publish"},
           NEW t \in Tokens, Certified(t), Goto(i, [pc |-> "reply", tok |-> t]),
           UNCHANGED <<mem, disk, lock, clock, accepted, sent>>
    PROVE  IInv'
<1>1. h' = [h EXCEPT ![i] = [pc |-> "reply", tok |-> t]] /\ h'[i] = [pc |-> "reply", tok |-> t]
  BY DEF Goto, IInv, TypeOK
<1>2. Certified(t)'
  BY DEF Certified
<1>3. HandlerInv(i)'
  BY <1>1, <1>2 DEF HandlerInv
<1> QED
  BY <1>1, <1>3, QuietStep

(* First critical section: replay from the chain, or copy. *)
LEMMA LookupInv ==
    ASSUME IInv, NEW i \in Handlers, Lookup(i)
    PROVE  IInv'
<1> DEFINE r == Clamp(h[i].r)
           previous == mem.cp[r.pep]
           copied == [pc |-> "appraise", r |-> r, previous |-> previous, active |-> mem.active[r.pep]]
<1>1. h[i].pc = "received" /\ ValidRequest(h[i].r) /\ h[i].r \in Requests
  BY DEF Lookup, IInv, HandlerInv
<1>2. Admitted(r) /\ r.pep \in PEPs
  BY <1>1, ClampFacts DEF Admitted, ValidRequest
<1>3. previous \in Checkpoints \cup {NoCp}
  BY <1>2 DEF IInv, TypeOK, StateOK
<1>4. CASE previous # NoCp /\ acceptedCheckpointRetry(r, previous, mem.tok[r.pep])
  <2>1. mem.tok[r.pep] \in Tokens /\ Certified(mem.tok[r.pep])
    BY <1>2, <1>4, RetryCertified DEF Lookup
  <2> QED
    BY <1>1, <1>4, <2>1, AnswerInv DEF Lookup
<1>5. CASE ~(previous # NoCp /\ acceptedCheckpointRetry(r, previous, mem.tok[r.pep]))
  <2>1. h' = [h EXCEPT ![i] = copied] /\ h'[i] = copied
    BY <1>5 DEF Lookup, Goto, IInv, TypeOK
  <2>2. HandlerInv(i)'
    <3> HIDE DEF r, previous
    <3>1. h'[i].pc = "appraise" /\ h'[i].r = r /\ h'[i].previous = previous
      BY <2>1
    <3> QED
      BY <1>2, <1>3, <3>1 DEF HandlerInv
  <2> QED
    BY <1>1, <2>1, <2>2, QuietStep DEF Lookup
<1> QED
  BY <1>4, <1>5

(* Appraisal without the lock: the signed token is the next link after the
   checkpoint that was copied. *)
LEMMA AppraiseInv ==
    ASSUME IInv, NEW i \in Handlers, Appraise(i)
    PROVE  IInv'
<1> DEFINE r == h[i].r
           v == verifyEnforcementPolicy(r.ev.events, r.ev.cp.created, h[i].active, r.life, r.scope)
           signed == [pc |-> "commit", r |-> r, previous |-> h[i].previous,
                      active |-> v.active, tok |-> Token(r, clock)]
<1>1. /\ h[i].pc = "appraise" /\ Admitted(r) /\ clock \in 0..MaxTime
      /\ h[i].previous \in Checkpoints \cup {NoCp}
  BY DEF Appraise, IInv, HandlerInv, TypeOK
<1>2. CASE VerifyHistoryEvidence(r.ev, r.pep, r.key, h[i].previous) /\ v.ok
  <2>1. Follows(Token(r, clock), r.pep, h[i].previous) /\ Token(r, clock).cp = r.ev.cp
    BY <1>1, <1>2, AppraisedFollows
  <2>2. h' = [h EXCEPT ![i] = signed] /\ h'[i] = signed
    BY <1>2 DEF Appraise, Goto, IInv, TypeOK
  <2>3. /\ h'[i].pc = "commit" /\ h'[i].r = r /\ h'[i].previous = h[i].previous
        /\ h'[i].tok = Token(r, clock)
    BY <2>2
  <2>4. HandlerInv(i)'
    BY <1>1, <2>1, <2>3 DEF HandlerInv
  <2> QED
    BY <1>1, <2>2, <2>4, QuietStep DEF Appraise
<1>3. CASE ~(VerifyHistoryEvidence(r.ev, r.pep, r.key, h[i].previous) /\ v.ok)
  BY <1>1, <1>3, IdleInv DEF Appraise
<1> QED
  BY <1>2, <1>3

(* Second critical section: the lock is only kept if that checkpoint is still
   the current one. *)
LEMMA RecheckInv ==
    ASSUME IInv, NEW i \in Handlers, Recheck(i)
    PROVE  IInv'
<1> DEFINE r == h[i].r
           committing == [pc |-> "save", p |-> r.pep, tok |-> h[i].tok, next |-> NextState(i)]
<1>1. /\ h[i].pc = "commit" /\ lock = Free /\ Admitted(r) /\ clock \in 0..MaxTime
      /\ Follows(h[i].tok, r.pep, h[i].previous) /\ h[i].tok.cp = r.ev.cp
  BY DEF Recheck, IInv, HandlerInv, TypeOK
<1>2. r.pep \in PEPs
  BY <1>1, AdmittedFacts
<1>3. CASE StateChanged(i)
  <2>1. CASE mem.cp[r.pep] # NoCp /\ acceptedCheckpointRetry(r, mem.cp[r.pep], mem.tok[r.pep])
    <3>1. mem.tok[r.pep] \in Tokens /\ Certified(mem.tok[r.pep])
      BY <1>1, <1>2, <2>1, RetryCertified
    <3> QED
      BY <1>1, <1>3, <2>1, <3>1, AnswerInv DEF Recheck
  <2>2. CASE ~(mem.cp[r.pep] # NoCp /\ acceptedCheckpointRetry(r, mem.cp[r.pep], mem.tok[r.pep]))
    BY <1>1, <1>3, <2>2, IdleInv DEF Recheck
  <2> QED
    BY <2>1, <2>2
<1>4. CASE ~StateChanged(i)
  <2>1. /\ h' = [h EXCEPT ![i] = committing] /\ h'[i] = committing /\ lock' = i
        /\ UNCHANGED <<mem, disk, clock, accepted, sent>>
    BY <1>4 DEF Recheck, Goto, IInv, TypeOK
  <2>2. /\ h'[i].pc = "save" /\ h'[i].p = r.pep /\ h'[i].tok = h[i].tok
        /\ h'[i].next.cp = [mem.cp EXCEPT ![r.pep] = h[i].tok.cp]
        /\ h'[i].next.tok = [mem.tok EXCEPT ![r.pep] = h[i].tok]
        /\ h'[i].next.active = [mem.active EXCEPT ![r.pep] = h[i].active]
    BY <1>1, <2>1 DEF NextState
  <2>3. DOMAIN h'[i].next.active = PEPs
    BY <2>2 DEF IInv, TypeOK, StateOK
  <2>4. mem' = mem /\ disk' = disk /\ mem = disk /\ mem.cp[r.pep] = h[i].previous
    BY <1>1, <1>4, <2>1 DEF StateChanged, IInv, LockInv
  <2>5. HandlerInv(i)'
    BY <1>1, <1>2, <2>1, <2>2, <2>3, <2>4 DEF HandlerInv
  <2>6. ASSUME NEW j \in Handlers, j # i PROVE HandlerInv(j)'
    <3>1. h'[j] = h[j] /\ lock # j
      BY <1>1, <2>1, <2>6, RequestAssumption DEF IInv, TypeOK, Free
    <3>2. h[j].pc \notin {"save", "publish"} /\ HandlerInv(j)
      BY <3>1 DEF IInv, HandlerInv
    <3> QED
      BY <2>1, <3>1, <3>2 DEF HandlerInv, Certified
  <2>7. TypeOK' /\ AcceptedIsOneChain' /\ SentIsDurable'
    BY <2>1 DEF IInv, TypeOK, StateOK, AcceptedIsOneChain, SentIsDurable
  <2>8. LockInv'
    BY <2>1, <2>2, RequestAssumption DEF LockInv, Free
  <2> QED
    BY <2>5, <2>6, <2>7, <2>8 DEF IInv
<1> QED
  BY <1>3, <1>4

(* The chain of one PEP grows by a link that follows its newest one. *)
LEMMA ChainGrows ==
    ASSUME TypeOK, AcceptedIsOneChain, NEW p \in PEPs, NEW t, Follows(t, p, disk.cp[p]),
           disk'.cp = [disk.cp EXCEPT ![p] = t.cp],
           disk'.tok = [disk.tok EXCEPT ![p] = t],
           accepted' = [accepted EXCEPT ![p] = Append(@, t)]
    PROVE  AcceptedIsOneChain' /\ t.epoch = Len(accepted[p]) + 1
<1> DEFINE a == accepted[p]
           at(n) == IF n = 0 THEN NoCp ELSE a[n].cp
<1>1. a \in Seq(Tokens) /\ Len(a) \in Nat
  BY DEF TypeOK
<1>2. /\ disk.cp[p] = at(Len(a))
      /\ \A n \in 1..Len(a) : /\ a[n].pep = p /\ a[n].epoch = n /\ a[n].cp.epoch = n
                              /\ a[n].cp.prev = at(n - 1)
                              /\ IsPrefix(LogOf(at(n - 1)), a[n].cp.log)
  BY DEF AcceptedIsOneChain
<1>3. EpochOf(disk.cp[p]) = Len(a)
  <2>1. CASE Len(a) = 0
    BY <1>2, <2>1 DEF EpochOf
  <2>2. CASE Len(a) # 0
    <3>1. Len(a) \in 1..Len(a) /\ a[Len(a)] \in Tokens
      BY <1>1, <2>2
    <3>2. disk.cp[p] # NoCp /\ disk.cp[p].epoch = Len(a)
      BY <1>2, <2>2, <3>1, TokenFacts
    <3> QED
      BY <3>2 DEF EpochOf
  <2> QED
    BY <2>1, <2>2
<1>4. t.epoch = Len(a) + 1
  BY <1>3 DEF Follows
<1>5. ASSUME NEW q \in PEPs, q # p
      PROVE  accepted'[q] = accepted[q] /\ disk'.cp[q] = disk.cp[q] /\ disk'.tok[q] = disk.tok[q]
  BY <1>5 DEF TypeOK, StateOK
<1>6. accepted'[p] = Append(a, t) /\ disk'.cp[p] = t.cp /\ disk'.tok[p] = t
  BY DEF TypeOK, StateOK
<1>7. ASSUME NEW q \in PEPs
      PROVE LET b == accepted'[q]
                to(n) == IF n = 0 THEN NoCp ELSE b[n].cp
            IN  /\ disk'.cp[q] = to(Len(b))
                /\ b # <<>> => disk'.tok[q] = b[Len(b)]
                /\ \A n \in 1..Len(b) : /\ b[n].pep = q /\ b[n].epoch = n /\ b[n].cp.epoch = n
                                        /\ b[n].cp.prev = to(n - 1)
                                        /\ IsPrefix(LogOf(to(n - 1)), b[n].cp.log)
  <2>1. CASE q # p
    BY <1>5, <2>1 DEF AcceptedIsOneChain
  <2>2. CASE q = p
    <3> DEFINE b == Append(a, t)
               to(n) == IF n = 0 THEN NoCp ELSE b[n].cp
    <3>1. /\ t \in Tokens /\ t.pep = p /\ t.cp.prev = at(Len(a)) /\ t.cp.epoch = Len(a) + 1
          /\ IsPrefix(LogOf(at(Len(a))), t.cp.log)
      BY <1>2, <1>4 DEF Follows
    <3>2. Len(b) = Len(a) + 1 /\ b[Len(b)] = t /\ \A n \in 1..Len(a) : b[n] = a[n]
      BY <1>1, <3>1
    <3>3. \A n \in 0..Len(a) : to(n) = at(n)
      BY <1>1, <3>2
    <3>4. ASSUME NEW n \in 1..Len(b)
          PROVE  /\ b[n].pep = p /\ b[n].epoch = n /\ b[n].cp.epoch = n
                 /\ b[n].cp.prev = to(n - 1)
                 /\ IsPrefix(LogOf(to(n - 1)), b[n].cp.log)
      <4>0. n - 1 \in 0..Len(a) /\ to(n - 1) = at(n - 1)
        BY <1>1, <3>2, <3>3
      <4> HIDE DEF at, to, a, b
      <4>1. CASE n \in 1..Len(a)
        BY <1>2, <3>2, <4>0, <4>1
      <4>2. CASE n = Len(a) + 1
        <5>1. n - 1 = Len(a)
          BY <1>1, <4>2
        <5> QED
          BY <1>4, <3>1, <3>2, <4>0, <4>2, <5>1
      <4> QED
        BY <1>1, <3>2, <4>1, <4>2
    <3>5. disk'.cp[p] = to(Len(b)) /\ disk'.tok[p] = b[Len(b)]
      BY <1>1, <1>6, <3>2
    <3> QED
      BY <1>6, <2>2, <3>4, <3>5
  <2> QED
    BY <2>1, <2>2
<1>8. AcceptedIsOneChain'
  BY <1>7 DEF AcceptedIsOneChain
<1> QED
  BY <1>4, <1>8

(* What a goroutine about to write, or having written, the file knows. *)
LEMMA CommitFacts ==
    ASSUME IInv, NEW i \in Handlers, h[i].pc \in {"save", "publish"}
    PROVE  /\ lock = i /\ h[i].p \in PEPs /\ h[i].tok \in Tokens /\ h[i].tok.pep = h[i].p
           /\ Follows(h[i].tok, h[i].p, mem.cp[h[i].p]) /\ StateOK(h[i].next)
           /\ h[i].next.cp = [mem.cp EXCEPT ![h[i].p] = h[i].tok.cp]
           /\ h[i].next.tok = [mem.tok EXCEPT ![h[i].p] = h[i].tok]
           /\ h[i].pc = "save" => mem = disk
           /\ h[i].pc = "publish" => disk = h[i].next /\ Certified(h[i].tok)
           /\ \A j \in Handlers : j # i => h[j].pc \notin {"save", "publish"}
<1>1. HandlerInv(i)
  BY DEF IInv
<1>2. h[i].tok \in Tokens /\ h[i].tok.pep = h[i].p /\ h[i].tok.cp \in Checkpoints
  BY <1>1, TokenFacts DEF HandlerInv, Follows
<1>3. StateOK(h[i].next)
  BY <1>1, <1>2 DEF HandlerInv, IInv, TypeOK, StateOK
<1>4. ASSUME NEW j \in Handlers, j # i PROVE h[j].pc \notin {"save", "publish"}
  BY <1>1, <1>4 DEF IInv, HandlerInv
<1> QED
  BY <1>1, <1>2, <1>3, <1>4 DEF HandlerInv

(* The file is renamed into place: the chain grows by one link. *)
LEMMA SaveInv ==
    ASSUME IInv, NEW i \in Handlers, Save(i)
    PROVE  IInv'
<1> DEFINE p == h[i].p
           t == h[i].tok
           written == [pc |-> "publish", p |-> h[i].p, tok |-> h[i].tok, next |-> h[i].next]
<1>1. /\ h[i].pc = "save" /\ disk' = h[i].next
      /\ accepted' = [accepted EXCEPT ![p] = Append(@, t)]
      /\ h' = [h EXCEPT ![i] = written] /\ h'[i] = written
      /\ UNCHANGED <<mem, lock, clock, sent>>
  BY DEF Save, Goto, IInv, TypeOK
<1>2. /\ p \in PEPs /\ t \in Tokens /\ t.pep = p /\ lock = i /\ mem = disk /\ StateOK(h[i].next)
      /\ Follows(t, p, mem.cp[p])
      /\ h[i].next.cp = [mem.cp EXCEPT ![p] = t.cp] /\ h[i].next.tok = [mem.tok EXCEPT ![p] = t]
      /\ DOMAIN h[i].next.active = PEPs
  BY <1>1, CommitFacts DEF StateOK
<1>3. AcceptedIsOneChain' /\ t.epoch = Len(accepted[p]) + 1
  BY <1>1, <1>2, ChainGrows DEF IInv
<1>4. accepted'[p] = Append(accepted[p], t) /\ accepted[p] \in Seq(Tokens)
  BY <1>1, <1>2 DEF IInv, TypeOK
<1>5. Certified(t)'
  BY <1>1, <1>2, <1>3, <1>4 DEF Certified
<1>6. TypeOK'
  <2>1. \A q \in PEPs : accepted'[q] \in Seq(Tokens)
    BY <1>1, <1>2, <1>4 DEF IInv, TypeOK
  <2> QED
    BY <1>1, <1>2, <2>1 DEF IInv, TypeOK, StateOK
<1>7. SentIsDurable'
  <2>1. ASSUME NEW u \in sent PROVE Certified(u)'
    BY <1>1, <1>2, CertifiedStable DEF IInv, TypeOK, SentIsDurable, Certified
  <2> QED
    BY <1>1, <2>1 DEF SentIsDurable, Certified
<1>8. LockInv'
  BY <1>1, <1>2, RequestAssumption DEF LockInv, Free
<1>9. HandlerInv(i)'
  <2>1. /\ h'[i].pc = "publish" /\ h'[i].p = p /\ h'[i].tok = t /\ h'[i].next = h[i].next
        /\ mem' = mem /\ lock' = lock
    BY <1>1
  <2> QED
    BY <1>1, <1>2, <1>5, <2>1 DEF HandlerInv, Certified
<1>10. ASSUME NEW j \in Handlers, j # i PROVE HandlerInv(j)'
  <2>1. h'[j] = h[j] /\ h[j].pc \notin {"save", "publish"} /\ HandlerInv(j)
    BY <1>1, <1>10, CommitFacts DEF IInv, TypeOK
  <2>2. h[j].pc = "reply" => h[j].tok \in Tokens /\ Certified(h[j].tok)'
    BY <1>1, <1>2, <2>1, CertifiedStable DEF IInv, HandlerInv
  <2> QED
    BY <1>1, <2>1, <2>2 DEF HandlerInv, Certified
<1> QED
  BY <1>3, <1>6, <1>7, <1>8, <1>9, <1>10 DEF IInv

(* The critical section ends with memory equal to the file: a write that   *)
(* failed left both alone, one that succeeded is published.                *)
LEMMA UnlockInv ==
    ASSUME IInv, NEW i \in Handlers, h[i].pc \in {"save", "publish"}, NEW s,
           h' = [h EXCEPT ![i] = s], lock' = Free, mem' = disk,
           UNCHANGED <<disk, clock, accepted, sent>>,
           s = Idle \/ (s = [pc |-> "reply", tok |-> h[i].tok] /\ Certified(h[i].tok))
    PROVE  IInv'
<1>1. h'[i] = s /\ h[i].tok \in Tokens
  BY CommitFacts DEF IInv, TypeOK
<1>2. HandlerInv(i)'
  BY <1>1 DEF HandlerInv, Idle, Certified
<1>3. ASSUME NEW j \in Handlers, j # i PROVE HandlerInv(j)'
  <2>1. h'[j] = h[j] /\ h[j].pc \notin {"save", "publish"} /\ HandlerInv(j)
    BY <1>3, CommitFacts DEF IInv, TypeOK
  <2> QED
    BY <2>1 DEF HandlerInv, Certified
<1>4. TypeOK' /\ AcceptedIsOneChain' /\ SentIsDurable' /\ LockInv'
  BY DEF IInv, TypeOK, StateOK, AcceptedIsOneChain, SentIsDurable, LockInv
<1> QED
  BY <1>2, <1>3, <1>4 DEF IInv

(* An answer leaves. *)
LEMMA ReplyInv ==
    ASSUME IInv, NEW i \in Handlers, Reply(i)
    PROVE  IInv'
<1>1. /\ h[i].pc = "reply" /\ sent' = sent \cup {h[i].tok} /\ h[i].tok \in Tokens
      /\ Certified(h[i].tok) /\ h' = [h EXCEPT ![i] = Idle] /\ h'[i] = Idle
      /\ UNCHANGED <<mem, disk, lock, clock, accepted>>
  BY DEF Reply, Goto, IInv, TypeOK, HandlerInv
<1>2. TypeOK' /\ AcceptedIsOneChain'
  BY <1>1 DEF IInv, TypeOK, StateOK, AcceptedIsOneChain
<1>3. SentIsDurable'
  BY <1>1 DEF IInv, SentIsDurable, Certified
<1>4. lock # i /\ LockInv'
  BY <1>1, RequestAssumption DEF IInv, LockInv, TypeOK, Free
<1>5. ASSUME NEW j \in Handlers PROVE HandlerInv(j)'
  <2>1. CASE j = i
    BY <1>1, <2>1 DEF HandlerInv, Idle
  <2>2. CASE j # i
    <3>1. h'[j] = h[j] /\ HandlerInv(j)
      BY <1>1, <2>2 DEF IInv, TypeOK
    <3> QED
      BY <1>1, <3>1 DEF HandlerInv, Certified
  <2> QED
    BY <2>1, <2>2
<1> QED
  BY <1>2, <1>3, <1>4, <1>5 DEF IInv

(* A restart: every goroutine is gone and memory is the file. *)
LEMMA RestartInv == IInv /\ Restart => IInv'
<1> SUFFICES ASSUME IInv, Restart PROVE IInv'
  OBVIOUS
<1>1. TypeOK' /\ AcceptedIsOneChain' /\ SentIsDurable' /\ LockInv'
  BY DEF Restart, IInv, TypeOK, StateOK, AcceptedIsOneChain, SentIsDurable, LockInv
<1>2. ASSUME NEW j \in Handlers PROVE HandlerInv(j)'
  BY DEF Restart, HandlerInv, Idle
<1> QED
  BY <1>1, <1>2 DEF IInv

(* Time passes, or nothing happens. *)
LEMMA TickInv == IInv /\ (Tick \/ UNCHANGED vars) => IInv'
<1> SUFFICES ASSUME IInv, Tick \/ UNCHANGED vars PROVE IInv'
  OBVIOUS
<1>1. UNCHANGED <<mem, disk, lock, h, accepted, sent>> /\ clock' \in 0..MaxTime
  BY RequestAssumption DEF Tick, vars, IInv, TypeOK
<1>2. TypeOK' /\ AcceptedIsOneChain' /\ SentIsDurable' /\ LockInv'
  BY <1>1 DEF IInv, TypeOK, StateOK, AcceptedIsOneChain, SentIsDurable, LockInv
<1>3. ASSUME NEW j \in Handlers PROVE HandlerInv(j)'
  BY <1>1 DEF IInv, HandlerInv, Certified
<1> QED
  BY <1>2, <1>3 DEF IInv

(* Every step preserves the invariant. *)
LEMMA StepInv == IInv /\ [Next]_vars => IInv'
<1> SUFFICES ASSUME IInv, [Next]_vars PROVE IInv'
  OBVIOUS
<1>1. ASSUME NEW i \in Handlers, Refuse(i) PROVE IInv'
  BY <1>1, IdleInv DEF Refuse
<1>2. ASSUME NEW i \in Handlers, SaveFails(i) PROVE IInv'
  BY <1>2, UnlockInv, CommitFacts DEF SaveFails, Goto
<1>3. ASSUME NEW i \in Handlers, Publish(i) PROVE IInv'
  BY <1>3, UnlockInv, CommitFacts DEF Publish, Goto
<1> QED
  BY <1>1, <1>2, <1>3, ReceiveInv, LookupInv, AppraiseInv, RecheckInv, SaveInv, ReplyInv,
     RestartInv, TickInv DEF Next, Step

-----------------------------------------------------------------------------
(* The invariant on which the results below rest. *)
THEOREM Invariance == Spec => []IInv
BY InitInv, StepInv, PTL DEF Spec

(* State file and memory stay well formed, and no token grants more than   *)
(* ValidRequest and the lifetime clamp allow (capacityHandler).            *)
THEOREM TypeCorrect == Spec => []TypeOK
<1>1. IInv => TypeOK
  BY DEF IInv
<1> QED
  BY <1>1, Invariance, PTL

(* Rival requests, failed writes and restarts never fork or skip the chain *)
(* of a PEP, whatever the number of goroutines and requests: the second    *)
(* critical section of capacityHandler only commits the successor of the   *)
(* checkpoint it finds.                                                    *)
THEOREM OneChain == Spec => []AcceptedIsOneChain
<1>1. IInv => AcceptedIsOneChain
  BY DEF IInv
<1> QED
  BY <1>1, Invariance, PTL

(* An answer, first or replayed, is the durable token of its epoch:        *)
(* savePersistentVerifierState comes before writeJSON on every path.       *)
THEOREM AnswersAreDurable == Spec => []SentIsDurable
<1>1. IInv => SentIsDurable
  BY DEF IInv
<1> QED
  BY <1>1, Invariance, PTL

-----------------------------------------------------------------------------
(* What memory shows of a PEP only moves to the successor checkpoint, also *)
(* when loadVerifierState reads a file that a dying commit has written.    *)
THEOREM MemoryMonotone == Spec => MemoryFollowsChain
<1> DEFINE Moves == \A p \in PEPs : mem'.cp[p] # mem.cp[p] =>
                        mem'.cp[p] # NoCp /\ mem'.cp[p].prev = mem.cp[p]
<1>1. ASSUME IInv, NEW i \in Handlers, h[i].pc \in {"save", "publish"}, mem' = disk PROVE Moves
  <2>1. CASE h[i].pc = "save"
    BY <1>1, <2>1, CommitFacts
  <2>2. CASE h[i].pc = "publish"
    <3>1. /\ mem'.cp = [mem.cp EXCEPT ![h[i].p] = h[i].tok.cp] /\ h[i].p \in PEPs
          /\ h[i].tok.cp.prev = mem.cp[h[i].p] /\ h[i].tok.cp # NoCp
      BY <1>1, <2>2, CommitFacts, TokenFacts DEF Follows
    <3>2. DOMAIN mem.cp = PEPs
      BY <1>1 DEF IInv, TypeOK, StateOK
    <3> QED
      BY <3>1, <3>2
  <2> QED
    BY <1>1, <2>1, <2>2
<1>2. ASSUME IInv, NEW i \in Handlers, Publish(i) PROVE Moves
  BY <1>1, <1>2, CommitFacts DEF Publish
<1>3. ASSUME IInv, Restart PROVE Moves
  <2>1. mem' = disk
    BY <1>3 DEF Restart
  <2>2. CASE lock = Free
    BY <1>3, <2>1, <2>2 DEF IInv, LockInv
  <2>3. CASE lock # Free
    <3>1. lock \in Handlers /\ h[lock].pc \in {"save", "publish"}
      BY <1>3, <2>3 DEF IInv, LockInv, TypeOK
    <3> QED
      BY <1>1, <1>3, <2>1, <3>1
  <2> QED
    BY <2>2, <2>3
<1>4. IInv /\ [Next]_vars => [Moves]_vars
  <2> SUFFICES ASSUME IInv, [Next]_vars PROVE Moves
    OBVIOUS
  <2>1. mem' = mem => Moves
    OBVIOUS
  <2> HIDE DEF Moves
  <2> QED
    BY <1>2, <1>3, <2>1 DEF Next, Step, Receive, Refuse, Lookup, Appraise, Recheck, Save,
                            SaveFails, Reply, Tick, vars
<1> QED
  BY <1>4, Invariance, PTL DEF Spec, MemoryFollowsChain

(* The Verifier implements CapacityService: savePersistentVerifierState is *)
(* the certification, writeJSON the answer, and every other step of the    *)
(* handlers, a restart included, is invisible.                             *)
THEOREM Refinement == Spec => ImplementsService
<1>1. Init => Service!Init
  BY DEF Init, Service!Init
<1>2. ASSUME IInv, NEW i \in Handlers, Save(i) PROVE Service!Next
  <2> DEFINE p == h[i].p
             t == h[i].tok
             a == accepted[p]
  <2>1. /\ p \in PEPs /\ t \in Tokens /\ t.pep = p /\ mem = disk /\ Follows(t, p, mem.cp[p])
        /\ h[i].next.cp = [mem.cp EXCEPT ![p] = t.cp] /\ h[i].next.tok = [mem.tok EXCEPT ![p] = t]
    BY <1>2, CommitFacts DEF Save
  <2>2. /\ disk' = h[i].next /\ sent' = sent
        /\ accepted' = [accepted EXCEPT ![p] = Append(@, t)]
    BY <1>2 DEF Save
  <2>3. t.epoch = Len(a) + 1
    BY <1>2, <2>1, <2>2, ChainGrows DEF IInv
  <2>4. disk.cp[p] = Service!Newest(p)
    <3>1. a \in Seq(Tokens) /\ disk.cp[p] = IF Len(a) = 0 THEN NoCp ELSE a[Len(a)].cp
      BY <1>2, <2>1 DEF IInv, TypeOK, AcceptedIsOneChain
    <3> QED
      BY <3>1 DEF Service!Newest
  <2>5. /\ t.cp.prev = Service!Newest(p) /\ t.cp.epoch = t.epoch
        /\ Service!IsPrefix(Service!LogBefore(Service!Newest(p)), t.cp.log)
    BY <2>1, <2>4 DEF Follows, LogOf, Service!LogBefore, IsPrefix, Service!IsPrefix
  <2>6. Service!Certify(t)
    BY <2>1, <2>2, <2>3, <2>5 DEF Service!Certify
  <2> QED
    BY <2>1, <2>6 DEF Service!Next
<1>3. ASSUME IInv, NEW i \in Handlers, Reply(i) PROVE Service!Next
  <2>1. h[i].tok \in Tokens /\ Certified(h[i].tok)
    BY <1>3 DEF Reply, IInv, HandlerInv
  <2> QED
    BY <1>3, <2>1 DEF Reply, Certified, Service!Next, Service!Answer
<1>4. IInv /\ [Next]_vars => [Service!Next]_(Service!vars)
  BY <1>2, <1>3 DEF Next, Step, Receive, Refuse, Lookup, Appraise, Recheck, SaveFails, Publish,
                    Restart, Tick, vars, Service!vars
<1> QED
  BY <1>1, <1>4, Invariance, PTL DEF Spec, ImplementsService, Service!Spec

-----------------------------------------------------------------------------
(* The tracked sessions.  What the loop of verifyEnforcementPolicy does to *)
(* them is shown in AppraisalHistoryProofs; its lemmas are used here for   *)
(* the events of the requests, whatever lifetime and scope they ask for.   *)
Histories == INSTANCE AppraisalHistoryProofs
             WITH Candidates <- HistoryEvents, Times <- {}, MaxSALifetime <- 0, Scope <- {},
                  MaxDelta <- 0, MaxEvents <- 0, delta <- <<>>, accepted <- <<>>, active <- <<>>

(* Both are the loop of module Appraisal. *)
LEMMA SameLoop ==
    ASSUME NEW events, NEW sessions, NEW maxLife, NEW scope
    PROVE  Histories!PolicyLoop(events, sessions, maxLife, scope) = PolicyLoop(events, sessions, maxLife, scope)
BY Zenon
DEF PolicyLoop, Histories!PolicyLoop, PolicyStep, Histories!PolicyStep, Admits, Histories!Admits,
    AdmitsSessionEvent, Histories!AdmitsSessionEvent, AfterEvent, Histories!AfterEvent,
    verifyObservedEvent, Histories!verifyObservedEvent, ProfileSatisfied, Histories!ProfileSatisfied,
    validateSessionLifetime, Histories!validateSessionLifetime,
    validateExpirationEvent, Histories!validateExpirationEvent,
    InScope, Histories!InScope, contains, Histories!contains, Stage, Histories!Stage,
    NoSession, Histories!NoSession, NoPlan, Histories!NoPlan, NoTime, Histories!NoTime,
    NoService, Histories!NoService, AllowedTypes, Histories!AllowedTypes,
    SessionTypes, Histories!SessionTypes,
    FoldLeft, Histories!FoldLeft, MapThenFoldSet, Histories!MapThenFoldSet, Max, Histories!Max

TurnsOf(log, k) == {i \in DOMAIN log : /\ log[i].key = k
                                       /\ log[i].type \in {"session_activated", "xfrm_delete_observed"}}

LEMMA LoopDecides ==
    ASSUME NEW events \in Seq(HistoryEvents), NEW sessions, DOMAIN sessions = Keys, NEW maxLife, NEW scope,
           PolicyLoop(events, sessions, maxLife, scope).ok
    PROVE  /\ DOMAIN PolicyLoop(events, sessions, maxLife, scope).active = Keys
           /\ \A k \in Keys : PolicyLoop(events, sessions, maxLife, scope).active[k] # NoSession <=>
                 IF TurnsOf(events, k) = {} THEN sessions[k] # NoSession
                 ELSE events[Max(TurnsOf(events, k))].type = "session_activated"
<1> DEFINE s == Histories!PolicyLoop(events, sessions, maxLife, scope)
<1>1. \A e \in HistoryEvents : (e.type \in Histories!SessionTypes => e.key \in Keys) /\ e.exp \in Int /\ e.ts \in Int
  BY RequestAssumption DEF SessionTypes, Histories!SessionTypes
<1>2. Histories!Shaped(s) /\ (s.ok => Histories!LastTurnDecides(events, sessions, s))
  BY <1>1, ProfileAssumption, Histories!LoopTurns
<1>3. s = PolicyLoop(events, sessions, maxLife, scope)
  BY SameLoop
<1> HIDE DEF s
<1>4. DOMAIN s.active = Keys /\ Histories!LastTurnDecides(events, sessions, s)
  BY <1>2, <1>3 DEF Histories!Shaped
<1>5. \A k : Histories!TurnsIn(events, k) = TurnsOf(events, k)
  BY DEF Histories!TurnsIn, TurnsOf
<1>6. \A S : Histories!Max(S) = Max(S)
  BY Zenon DEF Max, Histories!Max
<1>7. NoSession = Histories!NoSession
  BY DEF NoSession, Histories!NoSession, NoPlan, Histories!NoPlan, NoTime, Histories!NoTime
<1> QED
  BY <1>3, <1>4, <1>5, <1>6, <1>7 DEF Histories!LastTurnDecides

(* sessions are the ones that log leaves installed. *)
Reflects(log, sessions) ==
    /\ DOMAIN sessions = Keys
    /\ \A k \in Keys : sessions[k] # NoSession <=>
          TurnsOf(log, k) # {} /\ log[Max(TurnsOf(log, k))].type = "session_activated"

LEMMA GreatestTurn ==
    ASSUME NEW log \in Seq(HistoryEvents), NEW k, TurnsOf(log, k) # {}
    PROVE  Max(TurnsOf(log, k)) \in TurnsOf(log, k) /\ \A j \in TurnsOf(log, k) : j <= Max(TurnsOf(log, k))
<1>1. \A e \in HistoryEvents : (e.type \in Histories!SessionTypes => e.key \in Keys) /\ e.exp \in Int /\ e.ts \in Int
  BY RequestAssumption DEF SessionTypes, Histories!SessionTypes
<1>2. Histories!TurnsIn(log, k) = TurnsOf(log, k)
  BY DEF Histories!TurnsIn, TurnsOf
<1>3. \A S : Histories!Max(S) = Max(S)
  BY Zenon DEF Max, Histories!Max
<1>4. /\ Histories!Max(Histories!TurnsIn(log, k)) \in Histories!TurnsIn(log, k)
      /\ \A j \in Histories!TurnsIn(log, k) : j <= Histories!Max(Histories!TurnsIn(log, k))
  BY <1>1, <1>2, ProfileAssumption, Histories!LastTurnExists
<1> QED
  BY <1>2, <1>3, <1>4

LEMMA ReflectsAppraised ==
    ASSUME NEW log \in Seq(HistoryEvents), NEW events \in Seq(HistoryEvents), NEW sessions, Reflects(log, sessions),
           NEW maxLife, NEW scope, PolicyLoop(events, sessions, maxLife, scope).ok
    PROVE  Reflects(log \o events, PolicyLoop(events, sessions, maxLife, scope).active)
<1> DEFINE whole == log \o events
           n == Len(log)
           after == PolicyLoop(events, sessions, maxLife, scope).active
<1>1. /\ DOMAIN after = Keys
      /\ \A k \in Keys : after[k] # NoSession <=>
            IF TurnsOf(events, k) = {} THEN sessions[k] # NoSession
            ELSE events[Max(TurnsOf(events, k))].type = "session_activated"
  BY LoopDecides DEF Reflects
<1>2. /\ n \in Nat /\ DOMAIN log = 1..n /\ DOMAIN events = 1..Len(events) /\ Len(events) \in Nat
      /\ whole \in Seq(HistoryEvents) /\ DOMAIN whole = 1..(n + Len(events))
      /\ \A i \in 1..n : whole[i] = log[i]
      /\ \A i \in 1..Len(events) : whole[n + i] = events[i]
  OBVIOUS
<1> HIDE DEF whole, after
<1> SUFFICES ASSUME NEW k \in Keys
             PROVE  after[k] # NoSession <=>
                       TurnsOf(whole, k) # {} /\ whole[Max(TurnsOf(whole, k))].type = "session_activated"
  BY <1>1 DEF Reflects, whole, after
<1>3. CASE TurnsOf(events, k) = {}
  <2>1. TurnsOf(whole, k) = TurnsOf(log, k)
    <3>1. ASSUME NEW i \in TurnsOf(whole, k) PROVE i \in TurnsOf(log, k)
      <4>1. i \in 1..(n + Len(events)) /\ ~(i \in 1..n) => i - n \in 1..Len(events) /\ n + (i - n) = i
        BY <1>2
      <4>2. ~(i \in 1..n) => i - n \in TurnsOf(events, k)
        BY <1>2, <4>1 DEF TurnsOf
      <4> QED
        BY <1>2, <1>3, <4>2 DEF TurnsOf
    <3>2. ASSUME NEW i \in TurnsOf(log, k) PROVE i \in TurnsOf(whole, k)
      BY <1>2 DEF TurnsOf
    <3> QED
      BY <3>1, <3>2
  <2>2. TurnsOf(log, k) # {} => whole[Max(TurnsOf(log, k))] = log[Max(TurnsOf(log, k))]
    <3>1. TurnsOf(log, k) # {} => Max(TurnsOf(log, k)) \in TurnsOf(log, k)
      BY GreatestTurn
    <3> QED
      BY <1>2, <3>1 DEF TurnsOf
  <2> QED
    BY <1>1, <1>3, <2>1, <2>2 DEF Reflects
<1>4. CASE TurnsOf(events, k) # {}
  <2> DEFINE m == Max(TurnsOf(events, k))
             w == Max(TurnsOf(whole, k))
  <2>1. m \in TurnsOf(events, k) /\ \A j \in TurnsOf(events, k) : j <= m
    BY <1>4, GreatestTurn
  <2>2. m \in 1..Len(events) /\ n + m \in TurnsOf(whole, k)
    BY <1>2, <2>1 DEF TurnsOf
  <2>3. w \in TurnsOf(whole, k) /\ \A j \in TurnsOf(whole, k) : j <= w
    BY <1>2, <2>2, GreatestTurn
  <2> HIDE DEF m, w
  <2>4. w \in 1..(n + Len(events)) /\ n + m <= w
    BY <1>2, <2>2, <2>3 DEF TurnsOf
  <2>5. w - n \in 1..Len(events) /\ n + (w - n) = w
    BY <1>2, <2>2, <2>4
  <2>6. w - n \in TurnsOf(events, k)
    BY <1>2, <2>3, <2>5 DEF TurnsOf
  <2>7. w = n + m
    <3>1. w - n <= m /\ w \in Int /\ n \in Int /\ m \in Int
      BY <1>2, <2>1, <2>2, <2>4, <2>6
    <3> QED
      BY <2>4, <3>1
  <2>8. whole[w] = events[m]
    BY <1>2, <2>2, <2>7
  <2> QED
    BY <1>1, <1>4, <2>3, <2>8 DEF m, w
<1> QED
  BY <1>3, <1>4

(* Every copy of the maps, in memory, in the file or held by a goroutine,  *)
(* goes with its checkpoints.                                              *)
Coherent(s) == \A p \in PEPs : Reflects(LogOf(s.cp[p]), s.active[p])

ActiveInv ==
    /\ Coherent(mem) /\ Coherent(disk)
    /\ \A i \in Handlers :
          /\ h[i].pc = "appraise" => Reflects(LogOf(h[i].previous), h[i].active)
          /\ h[i].pc = "commit" => Reflects(LogOf(h[i].r.ev.cp), h[i].active)
          /\ h[i].pc \in {"save", "publish"} => Coherent(h[i].next)

LEMMA ActiveInit == Init => ActiveInv
<1> SUFFICES ASSUME Init PROVE ActiveInv
  OBVIOUS
<1>1. \A k : TurnsOf(<<>>, k) = {}
  BY DEF TurnsOf
<1>2. Coherent(mem)
  BY <1>1 DEF Init, Coherent, Reflects, LogOf
<1>3. disk = mem /\ \A i \in Handlers : h[i].pc = "idle"
  BY DEF Init, Idle
<1> QED
  BY <1>2, <1>3 DEF ActiveInv

(* A step that touches no map and leaves a goroutine with none. *)
LEMMA ActiveQuiet ==
    ASSUME IInv, ActiveInv, mem' = mem, disk' = disk, NEW i \in Handlers, NEW s, h' = [h EXCEPT ![i] = s],
           s.pc \in {"idle", "received", "reply"}
    PROVE  ActiveInv'
<1>1. \A j \in Handlers : h'[j] = IF j = i THEN s ELSE h[j]
  BY DEF IInv, TypeOK
<1> QED
  BY <1>1 DEF ActiveInv, Coherent

LEMMA ActiveAppraise ==
    ASSUME IInv, ActiveInv, NEW i \in Handlers, Appraise(i)
    PROVE  ActiveInv'
<1> DEFINE r == h[i].r
           v == verifyEnforcementPolicy(r.ev.events, r.ev.cp.created, h[i].active, r.life, r.scope)
           s == [pc |-> "commit", r |-> r, previous |-> h[i].previous, active |-> v.active, tok |-> Token(r, clock)]
<1>1. h[i].pc = "appraise" /\ mem' = mem /\ disk' = disk
  BY DEF Appraise
<1>2. CASE ~(VerifyHistoryEvidence(r.ev, r.pep, r.key, h[i].previous) /\ v.ok)
  <2>1. h' = [h EXCEPT ![i] = Idle]
    BY <1>2 DEF Appraise, Goto
  <2> QED
    BY <1>1, <2>1, ActiveQuiet DEF Idle
<1>3. CASE VerifyHistoryEvidence(r.ev, r.pep, r.key, h[i].previous) /\ v.ok
  <2>1. h' = [h EXCEPT ![i] = s]
    BY <1>3 DEF Appraise, Goto
  <2>2. /\ r.ev.events \in Seq(HistoryEvents) /\ r.ev.cp \in Checkpoints
        /\ h[i].previous \in Checkpoints \cup {NoCp} /\ Reflects(LogOf(h[i].previous), h[i].active)
    <3>1. Admitted(r) /\ h[i].previous \in Checkpoints \cup {NoCp} /\ clock \in 0..MaxTime
      BY <1>1 DEF IInv, HandlerInv, TypeOK
    <3> QED
      BY <1>1, <3>1, AdmittedFacts DEF ActiveInv
  <2>3. LogOf(h[i].previous) \in Seq(HistoryEvents)
    BY <2>2, RequestAssumption DEF LogOf, Checkpoints
  <2>4. /\ PolicyLoop(r.ev.events, h[i].active, r.life, r.scope).ok
        /\ v.active = PolicyLoop(r.ev.events, h[i].active, r.life, r.scope).active
    BY <1>3 DEF verifyEnforcementPolicy
  <2>5. Reflects(LogOf(h[i].previous) \o r.ev.events, v.active)
    BY <2>2, <2>3, <2>4, ReflectsAppraised
  <2>6. LogOf(r.ev.cp) = LogOf(h[i].previous) \o r.ev.events
    BY <1>3, <2>2, RequestAssumption DEF VerifyHistoryEvidence, LogOf
  <2>7. s.pc = "commit" /\ Reflects(LogOf(s.r.ev.cp), s.active)
    BY <2>5, <2>6
  <2> HIDE DEF s
  <2>8. \A j \in Handlers : h'[j] = IF j = i THEN s ELSE h[j]
    BY <2>1 DEF IInv, TypeOK
  <2> QED
    BY <1>1, <2>7, <2>8 DEF ActiveInv, Coherent
<1> QED
  BY <1>2, <1>3

LEMMA ActiveLookup ==
    ASSUME IInv, ActiveInv, NEW i \in Handlers, Lookup(i)
    PROVE  ActiveInv'
<1> DEFINE r == Clamp(h[i].r)
           s == [pc |-> "appraise", r |-> r, previous |-> mem.cp[r.pep], active |-> mem.active[r.pep]]
           u == [pc |-> "reply", tok |-> mem.tok[r.pep]]
<1>1. mem' = mem /\ disk' = disk /\ (h' = [h EXCEPT ![i] = s] \/ h' = [h EXCEPT ![i] = u])
  BY DEF Lookup, Goto
<1>2. r.pep \in PEPs
  BY ClampFacts DEF Lookup, ValidRequest, IInv, HandlerInv
<1>3. s.pc = "appraise" /\ Reflects(LogOf(s.previous), s.active)
  BY <1>2 DEF ActiveInv, Coherent
<1>4. u.pc = "reply"
  OBVIOUS
<1> HIDE DEF s, u
<1>5. CASE h' = [h EXCEPT ![i] = u]
  BY <1>1, <1>4, <1>5, ActiveQuiet
<1>6. CASE h' = [h EXCEPT ![i] = s]
  <2>1. \A j \in Handlers : h'[j] = IF j = i THEN s ELSE h[j]
    BY <1>6 DEF IInv, TypeOK
  <2> QED
    BY <1>1, <1>3, <2>1 DEF ActiveInv, Coherent
<1> QED
  BY <1>1, <1>5, <1>6

LEMMA ActiveRecheck ==
    ASSUME IInv, ActiveInv, NEW i \in Handlers, Recheck(i)
    PROVE  ActiveInv'
<1> DEFINE r == h[i].r
           s == [pc |-> "save", p |-> r.pep, tok |-> h[i].tok, next |-> NextState(i)]
           u == [pc |-> "reply", tok |-> mem.tok[r.pep]]
<1>1. /\ mem' = mem /\ disk' = disk /\ h[i].pc = "commit"
      /\ h' = [h EXCEPT ![i] = s] \/ h' = [h EXCEPT ![i] = u] \/ h' = [h EXCEPT ![i] = Idle]
  BY DEF Recheck, Goto
<1>2. r.pep \in PEPs
  <2>1. Admitted(r) /\ clock \in 0..MaxTime
    BY <1>1 DEF IInv, HandlerInv, TypeOK
  <2> QED
    BY <2>1, AdmittedFacts
<1>3. s.pc = "save" /\ Coherent(s.next)
  <2>1. DOMAIN mem.cp = PEPs /\ DOMAIN mem.active = PEPs
    BY DEF IInv, TypeOK, StateOK
  <2>2. \A p \in PEPs : /\ s.next.cp[p] = IF p = r.pep THEN r.ev.cp ELSE mem.cp[p]
                        /\ s.next.active[p] = IF p = r.pep THEN h[i].active ELSE mem.active[p]
    BY <1>2, <2>1 DEF NextState
  <2>3. Reflects(LogOf(r.ev.cp), h[i].active)
    BY <1>1 DEF ActiveInv
  <2> QED
    BY <2>2, <2>3 DEF ActiveInv, Coherent
<1>4. u.pc = "reply" /\ Idle.pc = "idle"
  BY DEF Idle
<1> HIDE DEF s, u
<1>5. CASE h' = [h EXCEPT ![i] = u] \/ h' = [h EXCEPT ![i] = Idle]
  BY <1>1, <1>4, <1>5, ActiveQuiet
<1>6. CASE h' = [h EXCEPT ![i] = s]
  <2>1. \A j \in Handlers : h'[j] = IF j = i THEN s ELSE h[j]
    BY <1>6 DEF IInv, TypeOK
  <2> QED
    BY <1>1, <1>3, <2>1 DEF ActiveInv, Coherent
<1> QED
  BY <1>1, <1>5, <1>6

LEMMA ActiveCommit ==
    ASSUME IInv, ActiveInv, NEW i \in Handlers, Save(i) \/ Publish(i)
    PROVE  ActiveInv'
<1> DEFINE s == IF h[i].pc = "save" THEN [pc |-> "publish", p |-> h[i].p, tok |-> h[i].tok, next |-> h[i].next]
                ELSE [pc |-> "reply", tok |-> h[i].tok]
<1>1. /\ h[i].pc \in {"save", "publish"} /\ h' = [h EXCEPT ![i] = s]
      /\ mem' \in {mem, h[i].next} /\ disk' \in {disk, h[i].next}
  BY DEF Save, Publish, Goto
<1>2. Coherent(h[i].next)
  BY <1>1 DEF ActiveInv
<1>3. s.pc = "reply" \/ (s.pc = "publish" /\ Coherent(s.next))
  BY <1>2
<1> HIDE DEF s
<1>4. \A j \in Handlers : h'[j] = IF j = i THEN s ELSE h[j]
  BY <1>1 DEF IInv, TypeOK
<1> QED
  BY <1>1, <1>2, <1>3, <1>4 DEF ActiveInv, Coherent

LEMMA ActiveStep == IInv /\ ActiveInv /\ [Next]_vars => ActiveInv'
<1> SUFFICES ASSUME IInv, ActiveInv, [Next]_vars PROVE ActiveInv'
  OBVIOUS
<1>1. ASSUME NEW i \in Handlers, NEW r \in Requests, Receive(i, r) PROVE ActiveInv'
  BY <1>1, ActiveQuiet DEF Receive, Goto
<1>2. ASSUME NEW i \in Handlers, Refuse(i) \/ SaveFails(i) \/ Reply(i) PROVE ActiveInv'
  BY <1>2, ActiveQuiet DEF Refuse, SaveFails, Reply, Goto, Idle
<1>3. ASSUME NEW i \in Handlers, Step(i) PROVE ActiveInv'
  BY <1>2, <1>3, ActiveLookup, ActiveAppraise, ActiveRecheck, ActiveCommit DEF Step
<1>4. CASE Restart
  <2>1. mem' = disk /\ disk' = disk /\ \A i \in Handlers : h'[i].pc = "idle"
    BY <1>4 DEF Restart, Idle
  <2> QED
    BY <2>1 DEF ActiveInv, Coherent
<1>5. CASE Tick \/ UNCHANGED vars
  BY <1>5 DEF Tick, vars, ActiveInv, Coherent
<1> QED
  BY <1>1, <1>3, <1>4, <1>5 DEF Next

(* The tracked sessions in the state file are the ones that the log of its *)
(* checkpoint leaves installed, for any events and any rival appraisals.   *)
THEOREM ActiveReflectsLog == Spec => []ActiveIsLog
<1>1. ActiveInv => ActiveIsLog
  BY DEF ActiveInv, Coherent, Reflects, TurnsOf, ActiveIsLog
<1> QED
  BY <1>1, ActiveInit, ActiveStep, Invariance, PTL DEF Spec
=============================================================================
