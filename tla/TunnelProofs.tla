--------------------------- MODULE TunnelProofs ---------------------------
(***************************************************************************)
(* Proofs about the tunnel: the inner addresses stay within the pool, the  *)
(* two roundings of an answer agree, the client installs the address the   *)
(* PEP gave and cleans up after the expiry, and no clean-up takes the      *)
(* route from the tunnel installed last.                                   *)
(***************************************************************************)
EXTENDS Tunnel, FiniteSetTheorems, WellFoundedInduction, TLAPS

Progress == {"none", "asked", "bounded", "answered", "relayed", "installed", "broken", "rejected",
             "failed"}

Tokens == [exp : Nat, iat : Nat]

(* The fields of an activation. *)
Fields(r) ==
    r \in [pc : Progress, svc : Services \cup {"none"}, inner : Nat, tok : Tokens, life : Nat,
           exp : Nat, bound : Nat, stamped : Nat, changed : Relays \cup {{}},
           via : Addresses \cup {0}, due : Nat, prior : SUBSET Activations,
           waiting : SUBSET Activations]

Types ==
    /\ attested \in BOOLEAN
    /\ act = [a \in Activations |-> act[a]]
    /\ \A a \in Activations : Fields(act[a])
    /\ token \in Tokens /\ next \in Nat
    /\ sess \in [Activations -> Nat]
    /\ route \in Addresses \cup {0}
    /\ states \subseteq Activations /\ timers \subseteq Activations
    /\ clock \in 0..MaxTime

LEMMA ConstantTypes ==
    /\ Second \in Nat /\ Second > 0 /\ SALifetime \in Nat /\ SALifetime > 0
    /\ MaxSALifetime \in Nat /\ MaxSALifetime > 0 /\ TokenTTL \in Nat /\ Margin \in Nat
    /\ MaxTime \in Nat /\ Modes \subseteq BOOLEAN
BY TunnelAssumption

-----------------------------------------------------------------------------
(* Arithmetic of the rounding. *)

LEMMA ProductMonotone ==
    ASSUME NEW x \in Int, NEW y \in Int, x <= y PROVE x * Second <= y * Second
<1>1. (y - x) * Second >= 0
  <2>1. y - x \in Nat
    OBVIOUS
  <2> QED
    BY <2>1, ConstantTypes, Z3
<1>2. (y - x) * Second = y * Second - x * Second
  BY ConstantTypes
<1>3. x * Second \in Int /\ y * Second \in Int
  BY ConstantTypes
<1> QED
  BY <1>1, <1>2, <1>3

(* Whole seconds are within a second below. *)
LEMMA Rounding ==
    ASSUME NEW t \in Int
    PROVE  /\ t \div Second \in Int
           /\ (t \div Second) * Second <= t
           /\ t < (t \div Second + 1) * Second
BY ConstantTypes

(* Rounding keeps a comparison with a number of whole seconds. *)
LEMMA WholeSeconds ==
    ASSUME NEW t \in Int, NEW n \in Int
    PROVE  /\ t < (n + 1) * Second => t \div Second <= n
           /\ t >= n * Second => t \div Second >= n
<1> DEFINE d == t \div Second
<1>1. d \in Int /\ d * Second <= t /\ t < (d + 1) * Second
  BY Rounding
<1> HIDE DEF d
<1>2. ASSUME t < (n + 1) * Second, ~(d <= n) PROVE FALSE
  <2>1. n + 1 <= d
    BY <1>1, <1>2
  <2>2. (n + 1) * Second <= d * Second
    BY <1>1, <2>1, ProductMonotone
  <2>3. (n + 1) * Second \in Int /\ d * Second \in Int
    BY <1>1, ConstantTypes
  <2> QED
    BY <1>1, <1>2, <2>2, <2>3
<1>3. ASSUME t >= n * Second, ~(d >= n) PROVE FALSE
  <2>1. d + 1 <= n
    BY <1>1, <1>3
  <2>2. (d + 1) * Second <= n * Second
    BY <1>1, <2>1, ProductMonotone
  <2>3. (d + 1) * Second \in Int /\ n * Second \in Int
    BY <1>1, ConstantTypes
  <2> QED
    BY <1>1, <1>3, <2>2, <2>3
<1> QED
  BY <1>2, <1>3 DEF d

LEMMA FormatType == ASSUME NEW t \in Nat PROVE Format(t) \in Nat
<1>1. t \in Int /\ 0 \in Int /\ t >= 0 * Second
  BY ConstantTypes
<1>2. t \div Second >= 0
  BY <1>1, WholeSeconds
<1> QED
  BY <1>2, Rounding DEF Format

LEMMA LowestOfThree ==
    ASSUME NEW x \in Int, NEW y \in Int, NEW z \in Int
    PROVE  /\ lowest({x, y, z}) \in {x, y, z}
           /\ lowest({x, y, z}) <= x /\ lowest({x, y, z}) <= y /\ lowest({x, y, z}) <= z
<1>1. \E n \in {x, y, z} : \A m \in {x, y, z} : n <= m
  OBVIOUS
<1> QED
  BY <1>1 DEF lowest

(* The lifetime is within the configured ones and ends before the token. *)
LEMMA BoundedByToken ==
    ASSUME NEW tok \in Tokens, clock \in Nat
    PROVE  /\ boundLifetime(tok) \in Int
           /\ boundLifetime(tok) <= SALifetime /\ boundLifetime(tok) <= MaxSALifetime
           /\ boundLifetime(tok) * Second + clock <= tok.exp * Second
<1> DEFINE u == Until(tok.exp, clock)
           d == u \div Second
<1>1. tok.exp \in Int /\ clock \in Int /\ tok.exp * Second \in Int /\ Second \in Int
  BY ConstantTypes DEF Tokens
<1>2. u \in Int /\ u = tok.exp * Second - clock
  BY <1>1 DEF Until
<1> HIDE DEF u
<1>3. d \in Int /\ d * Second <= u
  BY <1>2, Rounding
<1>4. boundLifetime(tok) = lowest({SALifetime, MaxSALifetime, d})
  BY DEF boundLifetime, u
<1> HIDE DEF d
<1>5. /\ boundLifetime(tok) \in Int
      /\ boundLifetime(tok) <= SALifetime /\ boundLifetime(tok) <= MaxSALifetime
      /\ boundLifetime(tok) <= d
  <2>1. SALifetime \in Int /\ MaxSALifetime \in Int
    BY ConstantTypes
  <2> DEFINE l == lowest({SALifetime, MaxSALifetime, d})
  <2>2. l \in {SALifetime, MaxSALifetime, d} /\ l <= SALifetime /\ l <= MaxSALifetime /\ l <= d
    BY <1>3, <2>1, LowestOfThree
  <2> HIDE DEF l
  <2>3. l \in Int
    BY <1>3, <2>1, <2>2
  <2> QED
    BY <1>4, <2>2, <2>3 DEF l
<1>6. boundLifetime(tok) * Second <= d * Second
  BY <1>3, <1>5, ProductMonotone
<1>7. boundLifetime(tok) * Second \in Int /\ d * Second \in Int
  BY <1>1, <1>3, <1>5
<1>8. boundLifetime(tok) * Second + clock <= tok.exp * Second
  <2> DEFINE p == boundLifetime(tok) * Second
             q == d * Second
             r == tok.exp * Second
  <2>1. p \in Int /\ q \in Int /\ r \in Int /\ p <= q /\ q <= u /\ u = r - clock
    BY <1>1, <1>2, <1>3, <1>6, <1>7
  <2> HIDE DEF p, q, r
  <2>2. p + clock <= r
    BY <1>1, <1>2, <2>1
  <2> QED
    BY <2>2 DEF p, r
<1> QED
  BY <1>5, <1>8

-----------------------------------------------------------------------------
(* Types. *)

LEMMA TypesInit == Init => Types
<1> SUFFICES ASSUME Init PROVE Types
  OBVIOUS
<1>1. Fields(Blank)
  BY DEF Fields, Blank, Progress, Tokens
<1>2. attested \in BOOLEAN /\ token \in Tokens /\ clock \in 0..MaxTime
  BY ConstantTypes DEF Init, Tokens
<1>3. act = [a \in Activations |-> Blank]
  BY DEF Init
<1>4. act = [a \in Activations |-> act[a]] /\ \A a \in Activations : Fields(act[a])
  BY <1>1, <1>3
<1> QED
  BY <1>2, <1>4 DEF Init, Types

(* An update of one activation keeps the others and its other fields. *)
Updated(a, r) == act' = [act EXCEPT ![a] = r]

LEMMA UpdateTypes ==
    ASSUME Types, NEW a \in Activations, NEW r, Updated(a, r), Fields(r)
    PROVE  /\ act' = [b \in Activations |-> act'[b]]
           /\ \A b \in Activations : Fields(act'[b])
           /\ act'[a] = r /\ \A b \in Activations \ {a} : act'[b] = act[b]
<1>1. act' = [b \in Activations |-> IF b = a THEN r ELSE act[b]]
  BY DEF Types, Updated
<1> QED
  BY <1>1 DEF Types

(* What each action makes of its activation. *)
AskedRec(a, svc) == [act[a] EXCEPT !.pc = "asked", !.svc = svc, !.inner = next + 1]

TokenAt == IF attested THEN CurrentToken ELSE token
LifeAt == IF attested THEN boundLifetime(TokenAt) ELSE SALifetime

BoundedRec(a) == [act[a] EXCEPT !.pc = "bounded", !.tok = TokenAt, !.life = LifeAt, !.bound = clock]

Expiry(a) == Format(clock + act[a].life * Second)
StampedRec(a) == [act[a] EXCEPT !.pc = "answered", !.exp = Expiry(a), !.stamped = clock]

RelayedRec(a, c, i) == [act[a] EXCEPT !.pc = "relayed", !.changed = c, !.via = i]

InstalledRec(a) ==
    [act[a] EXCEPT !.pc = "installed", !.due = CleanupDue(act[a].life), !.prior = Reached,
                   !.waiting = timers]

BrokenRec(a) == [act[a] EXCEPT !.pc = "broken", !.prior = Reached]

LEMMA TokenAtType == ASSUME Types PROVE TokenAt \in Tokens
<1>1. Format(clock) \in Nat
  BY ConstantTypes, FormatType DEF Types
<1>2. Format(clock) + TokenTTL \in Nat
  BY <1>1, ConstantTypes
<1>3. CurrentToken \in Tokens
  BY <1>1, <1>2 DEF CurrentToken, Tokens, Types
<1> QED
  BY <1>3 DEF TokenAt, Types

LEMMA LifeAtBounds ==
    ASSUME Types, LifeAt > 0
    PROVE  /\ LifeAt \in Nat /\ LifeAt <= SALifetime
           /\ attested => LifeAt <= MaxSALifetime /\ LifeAt * Second + clock <= TokenAt.exp * Second
<1>1. clock \in Nat /\ TokenAt \in Tokens
  BY TokenAtType, ConstantTypes DEF Types
<1>2. CASE attested
  <2>1. LifeAt = boundLifetime(TokenAt)
    BY <1>2 DEF LifeAt
  <2>2. LifeAt \in Int /\ LifeAt <= SALifetime /\ LifeAt <= MaxSALifetime
        /\ LifeAt * Second + clock <= TokenAt.exp * Second
    BY <1>1, <2>1, BoundedByToken
  <2> QED
    BY <2>2
<1>3. CASE ~attested
  BY <1>3, ConstantTypes DEF LifeAt
<1> QED
  BY <1>2, <1>3

LEMMA RecordTypes ==
    ASSUME Types, NEW a \in Activations
    PROVE  /\ \A svc \in Services : Fields(AskedRec(a, svc))
           /\ LifeAt > 0 => Fields(BoundedRec(a))
           /\ Fields(StampedRec(a)) /\ Fields(InstalledRec(a)) /\ Fields(BrokenRec(a))
           /\ \A p \in Progress : Fields([act[a] EXCEPT !.pc = p])
           /\ \A c \in Relays, i \in Addresses : Fields(RelayedRec(a, c, i))
<1>1. Fields(act[a]) /\ next \in Nat /\ clock \in Nat
  BY ConstantTypes DEF Types
<1>2. ASSUME NEW svc \in Services PROVE Fields(AskedRec(a, svc))
  <2>1. next + 1 \in Nat
    BY <1>1
  <2> QED
    BY <1>1, <2>1 DEF Fields, AskedRec, Progress
<1>3. ASSUME LifeAt > 0 PROVE Fields(BoundedRec(a))
  <2>1. LifeAt \in Nat /\ TokenAt \in Tokens
    BY <1>3, LifeAtBounds, TokenAtType
  <2> QED
    BY <1>1, <2>1 DEF Fields, BoundedRec, Progress
<1>4. act[a].life * Second \in Nat /\ clock + act[a].life * Second \in Nat
  BY <1>1, ConstantTypes DEF Fields
<1>5. Fields(StampedRec(a))
  <2>1. Expiry(a) \in Nat
    BY <1>4, FormatType DEF Expiry
  <2> QED
    BY <1>1, <2>1 DEF Fields, StampedRec, Progress
<1>6. Fields(InstalledRec(a))
  <2>1. /\ CleanupDue(act[a].life) \in Nat /\ Reached \in SUBSET Activations
        /\ timers \in SUBSET Activations
    BY <1>4 DEF CleanupDue, Reached, Types
  <2> QED
    BY <1>1, <2>1 DEF Fields, InstalledRec, Progress
<1>7. ASSUME NEW p \in Progress PROVE Fields([act[a] EXCEPT !.pc = p])
  BY <1>1 DEF Fields
<1>8. ASSUME NEW c \in Relays, NEW i \in Addresses PROVE Fields(RelayedRec(a, c, i))
  BY <1>1 DEF Fields, RelayedRec, Progress
<1>9. Fields(BrokenRec(a))
  <2>1. Reached \in SUBSET Activations
    BY DEF Reached
  <2> QED
    BY <1>1, <2>1 DEF Fields, BrokenRec, Progress
<1> QED
  BY <1>2, <1>3, <1>5, <1>6, <1>7, <1>8, <1>9

(* The actions of one activation as updates of its record. *)
LEMMA Forms ==
    ASSUME Types, NEW a \in Activations
    PROVE  /\ \A svc : Ask(a, svc) => Updated(a, AskedRec(a, svc))
           /\ Bound(a) => \/ LifeAt > 0 /\ Updated(a, BoundedRec(a))
                          \/ LifeAt <= 0 /\ Updated(a, [act[a] EXCEPT !.pc = "failed"])
           /\ Stamp(a) => Updated(a, StampedRec(a))
           /\ \A c, i : Relay(a, c, i) => Updated(a, RelayedRec(a, c, i))
           /\ Install(a) => Updated(a, InstalledRec(a))
           /\ InstallFails(a) => Updated(a, BrokenRec(a))
           /\ Reject(a) => Updated(a, [act[a] EXCEPT !.pc = "rejected"])
<1>0. act = [b \in Activations |-> act[b]] /\ Fields(act[a])
  BY DEF Types
<1>1. ASSUME NEW svc, Ask(a, svc) PROVE Updated(a, AskedRec(a, svc))
  BY <1>0, <1>1 DEF Ask, Updated, AskedRec
<1>2. ASSUME Bound(a)
      PROVE  \/ LifeAt > 0 /\ Updated(a, BoundedRec(a))
             \/ LifeAt <= 0 /\ Updated(a, [act[a] EXCEPT !.pc = "failed"])
  <2>1. act' = IF LifeAt <= 0 THEN [act EXCEPT ![a].pc = "failed"]
               ELSE [act EXCEPT ![a].pc = "bounded", ![a].tok = TokenAt, ![a].life = LifeAt,
                                ![a].bound = clock]
    BY <1>2 DEF Bound, LifeAt, TokenAt
  <2>2. LifeAt \in Int
    <3>1. attested => LifeAt = boundLifetime(TokenAt)
      BY DEF LifeAt
    <3>2. TokenAt \in Tokens /\ clock \in Nat
      BY TokenAtType, ConstantTypes DEF Types
    <3> QED
      BY <3>1, <3>2, BoundedByToken, ConstantTypes DEF LifeAt
  <2>3. CASE LifeAt <= 0
    BY <1>0, <2>1, <2>3 DEF Updated
  <2>4. CASE LifeAt > 0
    <3>1. ~(LifeAt <= 0)
      BY <2>2, <2>4
    <3> QED
      BY <1>0, <2>1, <2>4, <3>1 DEF Updated, BoundedRec
  <2> QED
    BY <2>2, <2>3, <2>4
<1>3. Stamp(a) => Updated(a, StampedRec(a))
  BY <1>0 DEF Stamp, Updated, StampedRec, Expiry
<1>4. ASSUME NEW c, NEW i, Relay(a, c, i) PROVE Updated(a, RelayedRec(a, c, i))
  BY <1>0, <1>4 DEF Relay, Updated, RelayedRec
<1>5. Install(a) => Updated(a, InstalledRec(a))
  BY <1>0 DEF Install, Updated, InstalledRec
<1>6. InstallFails(a) => Updated(a, BrokenRec(a))
  BY <1>0 DEF InstallFails, Updated, BrokenRec
<1>7. Reject(a) => Updated(a, [act[a] EXCEPT !.pc = "rejected"])
  BY <1>0 DEF Reject, Updated
<1> QED
  BY <1>1, <1>2, <1>3, <1>4, <1>5, <1>6, <1>7

(* The fields that an update leaves alone. *)
LEMMA Kept ==
    ASSUME Types, NEW a \in Activations
    PROVE  /\ \A svc :
                /\ AskedRec(a, svc).pc = "asked" /\ AskedRec(a, svc).inner = next + 1
                /\ AskedRec(a, svc).life = act[a].life /\ AskedRec(a, svc).exp = act[a].exp
                /\ AskedRec(a, svc).tok = act[a].tok /\ AskedRec(a, svc).bound = act[a].bound
                /\ AskedRec(a, svc).stamped = act[a].stamped
           /\ BoundedRec(a).pc = "bounded" /\ BoundedRec(a).inner = act[a].inner
           /\ BoundedRec(a).life = LifeAt /\ BoundedRec(a).tok = TokenAt
           /\ BoundedRec(a).bound = clock /\ BoundedRec(a).exp = act[a].exp
           /\ BoundedRec(a).stamped = act[a].stamped
           /\ StampedRec(a).pc = "answered" /\ StampedRec(a).inner = act[a].inner
           /\ StampedRec(a).life = act[a].life /\ StampedRec(a).tok = act[a].tok
           /\ StampedRec(a).bound = act[a].bound /\ StampedRec(a).exp = Expiry(a)
           /\ StampedRec(a).stamped = clock
           /\ InstalledRec(a).pc = "installed" /\ InstalledRec(a).inner = act[a].inner
           /\ InstalledRec(a).life = act[a].life /\ InstalledRec(a).tok = act[a].tok
           /\ InstalledRec(a).bound = act[a].bound /\ InstalledRec(a).exp = act[a].exp
           /\ InstalledRec(a).stamped = act[a].stamped /\ InstalledRec(a).via = act[a].via
           /\ InstalledRec(a).due = CleanupDue(act[a].life) /\ InstalledRec(a).prior = Reached
           /\ InstalledRec(a).waiting = timers
BY DEF Types, Fields, AskedRec, BoundedRec, StampedRec, InstalledRec

(* An update that only moves an activation on, to p. *)
Moved(a, p) ==
    /\ act'[a].pc = p
    /\ act'[a].inner = act[a].inner /\ act'[a].tok = act[a].tok /\ act'[a].life = act[a].life
    /\ act'[a].exp = act[a].exp /\ act'[a].bound = act[a].bound
    /\ act'[a].stamped = act[a].stamped

LEMMA Moves ==
    ASSUME Types, NEW a \in Activations
    PROVE  /\ \A p \in Progress :
                  Updated(a, [act[a] EXCEPT !.pc = p]) => Moved(a, p)
           /\ \A c, i : Updated(a, RelayedRec(a, c, i))
                  => Moved(a, "relayed") /\ act'[a].changed = c /\ act'[a].via = i
           /\ Updated(a, BrokenRec(a)) => Moved(a, "broken") /\ act'[a].prior = Reached
<1>0. act = [b \in Activations |-> act[b]] /\ Fields(act[a])
  BY DEF Types
<1>1. ASSUME NEW p \in Progress, Updated(a, [act[a] EXCEPT !.pc = p])
      PROVE  Moved(a, p)
  <2>1. act'[a] = [act[a] EXCEPT !.pc = p]
    BY <1>0, <1>1 DEF Updated
  <2> QED
    BY <1>0, <2>1 DEF Moved, Fields
<1>2. ASSUME NEW c, NEW i, Updated(a, RelayedRec(a, c, i))
      PROVE  Moved(a, "relayed") /\ act'[a].changed = c /\ act'[a].via = i
  <2>1. act'[a] = RelayedRec(a, c, i)
    BY <1>0, <1>2 DEF Updated
  <2> QED
    BY <1>0, <2>1 DEF Moved, Fields, RelayedRec
<1>3. ASSUME Updated(a, BrokenRec(a)) PROVE Moved(a, "broken") /\ act'[a].prior = Reached
  <2>1. act'[a] = BrokenRec(a)
    BY <1>0, <1>3 DEF Updated
  <2> QED
    BY <1>0, <2>1 DEF Moved, Fields, BrokenRec
<1> QED
  BY <1>1, <1>2, <1>3

(* Both ends without a tunnel are such updates. *)
LEMMA EndMoves ==
    ASSUME Types, NEW a \in Activations, InstallFails(a) \/ Reject(a)
    PROVE  \E p \in {"broken", "rejected"} :
               Moved(a, p) /\ \A b \in Activations \ {a} : act'[b] = act[b]
<1>1. ASSUME InstallFails(a)
      PROVE  Moved(a, "broken") /\ \A b \in Activations \ {a} : act'[b] = act[b]
  <2>1. Updated(a, BrokenRec(a)) /\ Fields(BrokenRec(a))
    BY <1>1, Forms, RecordTypes
  <2> QED
    BY <2>1, UpdateTypes, Moves
<1>2. ASSUME Reject(a)
      PROVE  Moved(a, "rejected") /\ \A b \in Activations \ {a} : act'[b] = act[b]
  <2>1. Updated(a, [act[a] EXCEPT !.pc = "rejected"]) /\ "rejected" \in Progress
    BY <1>2, Forms DEF Progress
  <2>2. Fields([act[a] EXCEPT !.pc = "rejected"])
    BY <2>1, RecordTypes
  <2> QED
    BY <2>1, <2>2, UpdateTypes, Moves
<1> QED
  BY <1>1, <1>2

(* A restart fails the requests in progress and changes nothing else. *)
LEMMA Restarted ==
    ASSUME Types, RestartPEP
    PROVE  /\ act' = [a \in Activations |-> act'[a]]
           /\ \A a \in Activations :
                /\ Fields(act'[a])
                /\ \/ act'[a] = act[a] /\ act[a].pc \notin {"asked", "bounded"}
                   \/ /\ act[a].pc \in {"asked", "bounded"} /\ Moved(a, "failed")
<1> DEFINE failed(a) == [act[a] EXCEPT !.pc = "failed"]
<1>1. act' = [a \in Activations |-> IF act[a].pc \in {"asked", "bounded"} THEN failed(a) ELSE act[a]]
  BY DEF RestartPEP
<1>2. ASSUME NEW a \in Activations
      PROVE  /\ Fields(failed(a)) /\ failed(a).pc = "failed" /\ failed(a).inner = act[a].inner
             /\ failed(a).tok = act[a].tok /\ failed(a).life = act[a].life /\ failed(a).exp = act[a].exp
             /\ failed(a).bound = act[a].bound /\ failed(a).stamped = act[a].stamped
  <2>1. Fields(act[a]) /\ "failed" \in Progress
    BY DEF Types, Progress
  <2>2. Fields(failed(a))
    BY <2>1, RecordTypes
  <2> QED
    BY <2>1, <2>2 DEF Fields
<1> HIDE DEF failed
<1>3. ASSUME NEW a \in Activations
      PROVE  /\ Fields(act'[a])
             /\ \/ act'[a] = act[a] /\ act[a].pc \notin {"asked", "bounded"}
                \/ /\ act[a].pc \in {"asked", "bounded"} /\ Moved(a, "failed")
  <2>1. CASE act[a].pc \in {"asked", "bounded"}
    BY <1>1, <1>2, <2>1 DEF Moved
  <2>2. CASE act[a].pc \notin {"asked", "bounded"}
    BY <1>1, <2>2 DEF Types
  <2> QED
    BY <2>1, <2>2
<1> QED
  BY <1>1, <1>3

Highest(S) == CHOOSE n \in S : \A m \in S : m <= n

(* A bounded set of numbers has a greatest one. *)
LEMMA HighestExists ==
    ASSUME NEW n \in Nat, NEW S \in SUBSET (0..n), S # {}
    PROVE  Highest(S) \in S
<1> DEFINE T == {n - x : x \in S}
           R == OpToRel(<, Nat)
<1>0. \A x \in S : x \in Nat /\ x <= n /\ n - x \in Nat
  OBVIOUS
<1>1. T \subseteq Nat /\ T # {}
  BY <1>0
<1>2. PICK m \in T : \A y \in T : ~(<<y, m>> \in R)
  BY <1>1, NatLessThanWellFounded, WFMin
<1>3. \A y \in T : ~(y < m)
  BY <1>1, <1>2 DEF OpToRel
<1>4. PICK x \in S : m = n - x
  OBVIOUS
<1>5. \A y \in S : n - y \in T
  OBVIOUS
<1>6. \A y \in S : y <= x
  BY <1>0, <1>3, <1>4, <1>5
<1> QED
  BY <1>6 DEF Highest

-----------------------------------------------------------------------------
(* The addresses: no more were given out than activations have asked. *)
Asked == {a \in Activations : act[a].pc # "none"}

AddressInv ==
    /\ next <= Cardinality(Asked)
    /\ \A a \in Activations :
         /\ act[a].inner <= Cardinality(Asked)
         /\ act[a].pc = "none" => act[a].inner = 0
         /\ act[a].pc # "none" => act[a].inner >= 1
    /\ pol = [i \in Addresses |-> pol[i]]

LEMMA AskedCount ==
    /\ IsFiniteSet(Asked) /\ Cardinality(Asked) \in Nat /\ Cardinality(Activations) \in Nat
    /\ Cardinality(Asked) <= Cardinality(Activations)
<1>1. IsFiniteSet(Activations) /\ Asked \in SUBSET Activations
  BY TunnelAssumption DEF Asked
<1> QED
  BY <1>1, FS_Subset, FS_CardinalityType

LEMMA HighestAddressBound ==
    ASSUME Types, AddressInv
    PROVE  HighestAddress \in Nat /\ HighestAddress <= Cardinality(Asked)
<1> DEFINE kept == {act[a].inner : a \in {b \in Activations : sess[b] # 0}}
<1>1. HighestAddress = IF attested /\ kept # {} THEN Highest(kept) ELSE 0
  BY DEF HighestAddress, Highest
<1>2. \A a \in Activations : act[a].inner \in 0..Cardinality(Asked)
  BY AskedCount DEF AddressInv, Types, Fields
<1>3. kept \in SUBSET (0..Cardinality(Asked))
  BY <1>2
<1> HIDE DEF kept
<1>4. kept # {} => Highest(kept) \in 0..Cardinality(Asked)
  BY <1>3, AskedCount, HighestExists
<1> QED
  BY <1>1, <1>4, AskedCount

LEMMA TypesNext == Types /\ AddressInv /\ [Next]_vars => Types'
<1> SUFFICES ASSUME Types, AddressInv, [Next]_vars PROVE Types'
  OBVIOUS
<1>1. ASSUME NEW a \in Activations, NEW r, Updated(a, r), Fields(r),
             UNCHANGED attested, token' \in Tokens, next' \in Nat, sess' \in [Activations -> Nat],
             route' \in Addresses \cup {0}, states' \subseteq Activations,
             timers' \subseteq Activations, UNCHANGED clock
      PROVE  Types'
  <2>1. /\ act' = [b \in Activations |-> act'[b]]
        /\ \A b \in Activations : Fields(act'[b])
    BY <1>1, UpdateTypes
  <2> QED
    BY <1>1, <2>1 DEF Types
<1>2. ASSUME NEW a \in Activations, NEW svc \in Services, Ask(a, svc) PROVE Types'
  <2>1. Updated(a, AskedRec(a, svc)) /\ Fields(AskedRec(a, svc))
    BY <1>2, Forms, RecordTypes
  <2>2. next + 1 \in Nat
    BY DEF Types
  <2> QED
    BY <1>1, <1>2, <2>1, <2>2 DEF Ask, Types
<1>3. ASSUME NEW a \in Activations, Bound(a) PROVE Types'
  <2>1. token' = TokenAt /\ TokenAt \in Tokens
    BY <1>3, TokenAtType DEF Bound, TokenAt
  <2>2. PICK r : Updated(a, r) /\ Fields(r)
    <3>1. "failed" \in Progress
      BY DEF Progress
    <3> QED
      BY <1>3, <3>1, Forms, RecordTypes
  <2> QED
    BY <1>1, <1>3, <2>1, <2>2 DEF Bound, Types
<1>4. ASSUME NEW a \in Activations, Stamp(a) PROVE Types'
  <2>1. Updated(a, StampedRec(a)) /\ Fields(StampedRec(a))
    BY <1>4, Forms, RecordTypes
  <2>2. Expiry(a) \in Nat
    BY <2>1, Kept DEF Fields
  <2>3. sess' \in [Activations -> Nat]
    BY <1>4, <2>2 DEF Stamp, Expiry, Types
  <2> QED
    BY <1>1, <1>4, <2>1, <2>3 DEF Stamp, Types
<1>5. ASSUME NEW a \in Activations, Reap(a) PROVE Types'
  <2>1. sess' \in [Activations -> Nat]
    BY <1>5 DEF Reap, Types
  <2> QED
    BY <1>5, <2>1 DEF Reap, Types
<1>6. ASSUME NEW a \in Activations, NEW c \in Relays, NEW i \in Addresses, Relay(a, c, i)
      PROVE  Types'
  <2>1. Updated(a, RelayedRec(a, c, i)) /\ Fields(RelayedRec(a, c, i))
    BY <1>6, Forms, RecordTypes
  <2> QED
    BY <1>1, <1>6, <2>1 DEF Relay, Types
<1>7. ASSUME NEW a \in Activations, Install(a) PROVE Types'
  <2>1. Updated(a, InstalledRec(a)) /\ Fields(InstalledRec(a)) /\ act[a].via \in Addresses \cup {0}
    BY <1>7, Forms, RecordTypes DEF Types, Fields
  <2>2. /\ route' = act[a].via /\ states' = states \cup {a} /\ timers' = timers \cup {a}
        /\ UNCHANGED <<attested, token, next, sess, clock>>
    BY <1>7 DEF Install
  <2> QED
    BY <1>1, <2>1, <2>2 DEF Types
<1>8. ASSUME NEW a \in Activations, InstallFails(a) \/ Reject(a) PROVE Types'
  <2>1. PICK r : Updated(a, r) /\ Fields(r)
    <3>1. "rejected" \in Progress
      BY DEF Progress
    <3> QED
      BY <1>8, <3>1, Forms, RecordTypes
  <2>2. act[a].via \in Addresses \cup {0}
    BY DEF Types, Fields
  <2>3. /\ route' \in {route, 0, act[a].via} /\ states' \subseteq states \cup {a}
        /\ UNCHANGED <<attested, token, next, sess, timers, clock>>
    BY <1>8 DEF InstallFails, Reject, RouteAfterDelete
  <2> QED
    BY <1>1, <2>1, <2>2, <2>3 DEF Types
<1>9. ASSUME NEW a \in Activations, Cleanup(a) PROVE Types'
  BY <1>9 DEF Cleanup, RouteAfterDelete, Types
<1>10. CASE RestartPEP
  <2>1. sess' \in [Activations -> Nat] /\ UNCHANGED <<attested, token, route, states, timers, clock>>
    BY <1>10 DEF RestartPEP, Types
  <2>2. next' \in Nat
    BY <1>10, HighestAddressBound DEF RestartPEP
  <2> QED
    BY <1>10, <2>1, <2>2, Restarted DEF Types
<1>11. CASE Tick
  <2>1. clock' \in 0..MaxTime
    BY <1>11, ConstantTypes DEF Tick, Types
  <2> QED
    BY <1>11, <2>1 DEF Tick, Types
<1>12. CASE UNCHANGED vars
  BY <1>12 DEF vars, Types
<1> QED
  BY <1>2, <1>3, <1>4, <1>5, <1>6, <1>7, <1>8, <1>9, <1>10, <1>11, <1>12 DEF Next

(* A step that starts no activation keeps the count. *)
LEMMA AddressKept ==
    ASSUME Types, AddressInv, Types', next' \in Nat, next' <= Cardinality(Asked),
           \A a \in Activations : act'[a].inner = act[a].inner
                                  /\ (act'[a].pc = "none" <=> act[a].pc = "none"),
           pol' = [i \in Addresses |-> pol'[i]]
    PROVE  AddressInv'
<1>1. Asked' = Asked
  BY DEF Asked
<1> QED
  BY <1>1 DEF AddressInv

LEMMA AddressNext == Types /\ AddressInv /\ Types' /\ [Next]_vars => AddressInv'
<1> SUFFICES ASSUME Types, AddressInv, Types', [Next]_vars PROVE AddressInv'
  OBVIOUS
<1>0. next \in Nat /\ next <= Cardinality(Asked) /\ pol = [i \in Addresses |-> pol[i]]
  BY DEF Types, AddressInv
<1>1. ASSUME NEW a \in Activations, NEW svc \in Services, Ask(a, svc) PROVE AddressInv'
  <2>1. Updated(a, AskedRec(a, svc)) /\ Fields(AskedRec(a, svc)) /\ act[a].pc = "none"
    BY <1>1, Forms, RecordTypes DEF Ask
  <2>2. act'[a] = AskedRec(a, svc) /\ \A b \in Activations \ {a} : act'[b] = act[b]
    BY <2>1, UpdateTypes
  <2>3. act'[a].pc = "asked" /\ act'[a].inner = next + 1
    BY <2>2, Kept
  <2>4. Asked' = Asked \cup {a} /\ a \notin Asked
    BY <2>1, <2>2, <2>3 DEF Asked
  <2>5. Cardinality(Asked') = Cardinality(Asked) + 1
    BY <2>4, AskedCount, FS_AddElement
  <2>6. next' = next + 1 /\ pol' = pol
    BY <1>1 DEF Ask
  <2>7. next' <= Cardinality(Asked')
    BY <1>0, <2>5, <2>6, AskedCount
  <2>8. ASSUME NEW b \in Activations
        PROVE /\ act'[b].inner <= Cardinality(Asked')
              /\ act'[b].pc = "none" => act'[b].inner = 0
              /\ act'[b].pc # "none" => act'[b].inner >= 1
    <3>1. CASE b = a
      BY <1>0, <2>3, <2>5, <3>1, AskedCount
    <3>2. CASE b # a
      <4>1. act'[b] = act[b] /\ act[b].inner \in Nat
        BY <2>2, <3>2 DEF Types, Fields
      <4> QED
        BY <2>5, <4>1, AskedCount DEF AddressInv
    <3> QED
      BY <3>1, <3>2
  <2> QED
    BY <1>0, <2>6, <2>7, <2>8 DEF AddressInv
<1>2. ASSUME NEW a \in Activations, NEW p \in Progress \ {"none"}, act[a].pc # "none", Moved(a, p),
             \A b \in Activations \ {a} : act'[b] = act[b],
             UNCHANGED next, pol' = [i \in Addresses |-> pol'[i]]
      PROVE AddressInv'
  <2>1. \A b \in Activations : act'[b].inner = act[b].inner
                               /\ (act'[b].pc = "none" <=> act[b].pc = "none")
    BY <1>2 DEF Moved
  <2> QED
    BY <1>0, <1>2, <2>1, AddressKept
<1>3. ASSUME NEW a \in Activations, NEW r, Updated(a, r), Fields(r)
      PROVE  act'[a] = r /\ \A b \in Activations \ {a} : act'[b] = act[b]
  BY <1>3, UpdateTypes
<1>4. ASSUME NEW a \in Activations, Bound(a) PROVE AddressInv'
  <2>1. "failed" \in Progress \ {"none"} /\ "bounded" \in Progress \ {"none"}
    BY DEF Progress
  <2>2. act[a].pc = "asked" /\ UNCHANGED <<next, pol>>
    BY <1>4 DEF Bound
  <2>3. CASE LifeAt > 0 /\ Updated(a, BoundedRec(a))
    <3>1. act'[a] = BoundedRec(a) /\ \A b \in Activations \ {a} : act'[b] = act[b]
      BY <1>3, <2>3, RecordTypes
    <3>2. act'[a].pc = "bounded" /\ act'[a].inner = act[a].inner
      BY <3>1, Kept
    <3>3. \A b \in Activations : act'[b].inner = act[b].inner
                                 /\ (act'[b].pc = "none" <=> act[b].pc = "none")
      BY <2>2, <3>1, <3>2
    <3> QED
      BY <1>0, <2>2, <3>3, AddressKept
  <2>4. CASE Updated(a, [act[a] EXCEPT !.pc = "failed"])
    <3>1. Moved(a, "failed") /\ \A b \in Activations \ {a} : act'[b] = act[b]
      BY <1>3, <2>1, <2>4, RecordTypes, Moves
    <3> QED
      BY <1>0, <1>2, <2>1, <2>2, <3>1
  <2> QED
    BY <1>4, <2>3, <2>4, Forms
<1>5. ASSUME NEW a \in Activations, Stamp(a) PROVE AddressInv'
  <2>1. act'[a] = StampedRec(a) /\ \A b \in Activations \ {a} : act'[b] = act[b]
    BY <1>3, <1>5, Forms, RecordTypes
  <2>2. act[a].pc = "bounded" /\ UNCHANGED <<next, pol>>
    BY <1>5 DEF Stamp
  <2>3. \A b \in Activations : act'[b].inner = act[b].inner
                               /\ (act'[b].pc = "none" <=> act[b].pc = "none")
    BY <2>1, <2>2, Kept
  <2> QED
    BY <1>0, <2>2, <2>3, AddressKept
<1>6. ASSUME NEW a \in Activations, NEW c \in Relays, NEW i \in Addresses, Relay(a, c, i)
      PROVE  AddressInv'
  <2>0. Updated(a, RelayedRec(a, c, i)) /\ Fields(RelayedRec(a, c, i))
    BY <1>6, Forms, RecordTypes
  <2>1. Moved(a, "relayed") /\ \A b \in Activations \ {a} : act'[b] = act[b]
    BY <1>3, <2>0, Moves
  <2>2. act[a].pc = "answered" /\ UNCHANGED <<next, pol>> /\ "relayed" \in Progress \ {"none"}
    BY <1>6 DEF Relay, Progress
  <2> QED
    BY <1>0, <1>2, <2>1, <2>2
<1>7. ASSUME NEW a \in Activations, Install(a) PROVE AddressInv'
  <2>1. act'[a] = InstalledRec(a) /\ \A b \in Activations \ {a} : act'[b] = act[b]
    BY <1>3, <1>7, Forms, RecordTypes
  <2>2. act[a].pc = "relayed" /\ UNCHANGED next /\ pol' = [pol EXCEPT ![act[a].via] = a]
    BY <1>7 DEF Install
  <2>3. \A b \in Activations : act'[b].inner = act[b].inner
                               /\ (act'[b].pc = "none" <=> act[b].pc = "none")
    BY <2>1, <2>2, Kept
  <2>4. pol' = [i \in Addresses |-> pol'[i]]
    BY <1>0, <2>2
  <2> QED
    BY <1>0, <2>2, <2>3, <2>4, AddressKept
<1>8. ASSUME NEW a \in Activations, InstallFails(a) \/ Reject(a) PROVE AddressInv'
  <2>2. {"broken", "rejected"} \subseteq Progress \ {"none"}
    BY DEF Progress
  <2>3. PICK p \in {"broken", "rejected"} :
            Moved(a, p) /\ \A b \in Activations \ {a} : act'[b] = act[b]
    BY <1>8, EndMoves
  <2>4. act[a].pc = "relayed" /\ UNCHANGED next
        /\ (pol' = pol \/ pol' = [pol EXCEPT ![act[a].via] = NoOwner])
    BY <1>8 DEF InstallFails, Reject
  <2>5. pol' = [i \in Addresses |-> pol'[i]]
    BY <1>0, <2>4
  <2> QED
    BY <1>2, <2>2, <2>3, <2>4, <2>5
<1>9. ASSUME UNCHANGED <<act, next>>, pol' = [i \in Addresses |-> pol'[i]] PROVE AddressInv'
  BY <1>0, <1>9, AddressKept
<1>10. ASSUME NEW a \in Activations, Reap(a) \/ Cleanup(a) PROVE AddressInv'
  <2>1. UNCHANGED <<act, next>> /\ (pol' = pol \/ pol' = [pol EXCEPT ![act[a].via] = NoOwner])
    BY <1>10 DEF Reap, Cleanup
  <2>2. pol' = [i \in Addresses |-> pol'[i]]
    BY <1>0, <2>1
  <2> QED
    BY <1>9, <2>1, <2>2
<1>11. CASE RestartPEP
  <2>1. \A b \in Activations : act'[b].inner = act[b].inner
                               /\ (act'[b].pc = "none" <=> act[b].pc = "none")
    BY <1>11, Restarted DEF Moved
  <2>2. next' = HighestAddress /\ pol' = pol
    BY <1>11 DEF RestartPEP
  <2> QED
    BY <1>0, <2>1, <2>2, HighestAddressBound, AddressKept
<1>12. CASE Tick \/ UNCHANGED vars
  BY <1>0, <1>9, <1>12 DEF Tick, vars
<1> QED
  BY <1>1, <1>4, <1>5, <1>6, <1>7, <1>8, <1>10, <1>11, <1>12 DEF Next

LEMMA AddressInit == Init => AddressInv
<1> SUFFICES ASSUME Init PROVE AddressInv
  OBVIOUS
<1>1. \A a \in Activations : act[a].pc = "none" /\ act[a].inner = 0
  BY DEF Init, Blank
<1>2. next = 0 /\ pol = [i \in Addresses |-> pol[i]]
  BY DEF Init
<1> QED
  BY <1>1, <1>2, AskedCount DEF AddressInv

LEMMA AddressInvariance == Spec => [](Types /\ AddressInv)
<1>1. Types /\ AddressInv /\ [Next]_vars => Types' /\ AddressInv'
  BY TypesNext, AddressNext
<1> QED
  BY <1>1, TypesInit, AddressInit, PTL DEF Spec

-----------------------------------------------------------------------------
(* The answers. *)

(* Lifetime and expiry, from the token and the two readings of the clock. *)
Derived(r) ==
    /\ r.life <= SALifetime
    /\ attested /\ r.life > 0 =>
         r.life <= MaxSALifetime /\ r.life * Second + r.bound <= r.tok.exp * Second
    /\ r.pc = "bounded" => r.life > 0
    /\ r.exp # 0 => r.life > 0 /\ r.exp = Format(r.stamped + r.life * Second)
    /\ r.stamped <= clock

(* Before the answer there is nothing to compare it with. *)
Unanswered(a) ==
    act[a].pc \in {"none", "asked", "bounded"} =>
        act[a].exp = 0 /\ act[a].stamped = 0 /\ sess[a] = 0

(* An address that arrived other than it was given shows as a change, of   *)
(* which there is none without attestation; so it is not installed.        *)
Signed(r) ==
    /\ r.pc = "relayed" => /\ r.via = r.inner \/ "client_inner_ip" \in r.changed
                           /\ attested \/ r.changed = {}
    /\ r.pc = "installed" => r.via = r.inner /\ r.exp * Second <= r.due

AnswerInv ==
    \A a \in Activations :
        Derived(act[a]) /\ Unanswered(a) /\ Signed(act[a]) /\ sess[a] \in {0, act[a].exp}

Fine(a) == Derived(act[a]) /\ Unanswered(a) /\ Signed(act[a]) /\ sess[a] \in {0, act[a].exp}

(* What passes the client's checks has the address that the PEP gave. *)
LEMMA AddressAsGiven ==
    ASSUME NEW a \in Activations, Signed(act[a]), act[a].pc = "relayed", verifyTunnelAttestation(a)
    PROVE  act[a].via = act[a].inner
BY DEF Signed, verifyTunnelAttestation, VerifyTunnelBinding, BoundParameters

LEMMA AnswerInit == Init => AnswerInv
<1> SUFFICES ASSUME Init, NEW a \in Activations PROVE Fine(a)
  BY DEF AnswerInv, Fine
<1>1. act[a] = Blank /\ sess[a] = 0 /\ clock = 0
  BY DEF Init
<1>2. Blank.pc = "none" /\ Blank.life = 0 /\ Blank.exp = 0 /\ Blank.stamped = 0
  BY DEF Blank
<1> QED
  BY <1>1, <1>2, ConstantTypes DEF Fine, Derived, Unanswered, Signed

(* A move that only changes the progress keeps what was derived. *)
LEMMA DerivedKept ==
    ASSUME NEW a \in Activations, NEW p, p # "bounded", Fine(a), Moved(a, p), attested' = attested,
           clock' = clock
    PROVE  Derived(act[a])'
BY DEF Fine, Derived, Moved

(* Installed, the clean-up is due when the expiry has passed. *)
LEMMA DueAfterExpiry ==
    ASSUME Types, NEW a \in Activations, Derived(act[a])
    PROVE  act[a].exp * Second <= CleanupDue(act[a].life)
<1> DEFINE r == act[a]
           p == r.life * Second
           q == r.exp * Second
<1>1. r.exp \in Nat /\ r.life \in Nat /\ r.stamped \in Nat /\ clock \in Nat /\ r.stamped <= clock
  BY ConstantTypes DEF Types, Fields, Derived
<1>2. p \in Nat /\ q \in Nat
  BY <1>1, ConstantTypes
<1>3. CleanupDue(act[a].life) = clock + p
  BY DEF CleanupDue
<1>4. CASE r.exp = 0
  <2>1. q = 0
    BY <1>4, ConstantTypes
  <2> HIDE DEF p, q
  <2>2. q <= clock + p
    BY <1>1, <1>2, <2>1
  <2> QED
    BY <1>3, <2>2 DEF q
<1>5. CASE r.exp # 0
  <2>1. r.exp = (r.stamped + p) \div Second
    BY <1>5 DEF Derived, Format
  <2>2. r.stamped + p \in Int
    BY <1>1, <1>2
  <2>3. r.exp * Second <= r.stamped + p
    BY <2>1, <2>2, Rounding
  <2> HIDE DEF p
  <2>4. r.exp * Second <= clock + p
    <3>1. q <= r.stamped + p
      BY <2>3
    <3> HIDE DEF q
    <3>2. q <= clock + p
      BY <1>1, <1>2, <3>1
    <3> QED
      BY <3>2 DEF q
  <2> QED
    BY <1>3, <2>4
<1> QED
  BY <1>4, <1>5

(* With less than a second between the readings, the expiry is within the  *)
(* token's.                                                                *)
LEMMA ExpiryWithinToken ==
    ASSUME Types, NEW a \in Activations, Derived(act[a]), attested,
           act[a].stamped - act[a].bound < Second
    PROVE  act[a].exp <= act[a].tok.exp
<1> DEFINE r == act[a]
           p == r.life * Second
           q == r.tok.exp * Second
<1>1. /\ r.exp \in Nat /\ r.life \in Nat /\ r.stamped \in Nat /\ r.bound \in Nat
      /\ r.tok.exp \in Nat
  BY DEF Types, Fields, Tokens
<1>2. p \in Int /\ q \in Int /\ Second \in Nat
  BY <1>1, ConstantTypes
<1>3. CASE r.exp = 0
  BY <1>1, <1>3
<1>4. CASE r.exp # 0
  <2>1. r.exp = (r.stamped + p) \div Second /\ p + r.bound <= q
    BY <1>4 DEF Derived, Format
  <2>2. (r.tok.exp + 1) * Second = q + Second
    BY <1>1, <1>2
  <2> DEFINE s == r.stamped
             b == r.bound
  <2>3. s - b < Second /\ s \in Nat /\ b \in Nat /\ p + b <= q
    BY <1>1, <2>1
  <2> HIDE DEF p, q, s, b
  <2>4. s + p < q + Second
    BY <1>2, <2>3
  <2>5. s + p \in Int /\ r.tok.exp \in Int
    BY <1>1, <1>2, <2>3
  <2>6. s + p < (r.tok.exp + 1) * Second
    BY <2>2, <2>4
  <2>7. (s + p) \div Second <= r.tok.exp
    BY <2>5, <2>6, WholeSeconds
  <2> QED
    BY <2>1, <2>7 DEF s
<1> QED
  BY <1>3, <1>4

LEMMA AnswerNext == Types /\ AddressInv /\ AnswerInv /\ [Next]_vars => AnswerInv'
<1> SUFFICES ASSUME Types, AddressInv, AnswerInv, [Next]_vars PROVE AnswerInv'
  OBVIOUS
<1>0. \A a \in Activations : Fine(a)
  BY DEF AnswerInv, Fine
<1>1. ASSUME NEW a \in Activations, Fine(a)',
             \A b \in Activations \ {a} : act'[b] = act[b] /\ sess'[b] = sess[b],
             UNCHANGED <<attested, clock>>
      PROVE AnswerInv'
  <2>1. ASSUME NEW b \in Activations \ {a} PROVE Fine(b)'
    <3>1. Fine(b) /\ act'[b] = act[b] /\ sess'[b] = sess[b] /\ UNCHANGED <<attested, clock>>
      BY <1>0, <1>1
    <3> QED
      BY <3>1 DEF Fine, Derived, Unanswered, Signed
  <2>2. \A b \in Activations : Fine(b)'
    BY <1>1, <2>1
  <2> QED
    BY <2>2 DEF AnswerInv, Fine
<1>2. ASSUME NEW a \in Activations, NEW r, Updated(a, r), Fields(r)
      PROVE  act'[a] = r /\ \A b \in Activations \ {a} : act'[b] = act[b]
  BY <1>2, UpdateTypes
<1>3. ASSUME NEW a \in Activations, NEW svc \in Services, Ask(a, svc) PROVE AnswerInv'
  <2>1. act'[a] = AskedRec(a, svc) /\ \A b \in Activations \ {a} : act'[b] = act[b]
    BY <1>2, <1>3, Forms, RecordTypes
  <2>2. act[a].pc = "none" /\ UNCHANGED <<attested, clock, sess>>
    BY <1>3 DEF Ask
  <2>3. /\ act'[a].pc = "asked" /\ act'[a].life = act[a].life /\ act'[a].exp = act[a].exp
        /\ act'[a].tok = act[a].tok /\ act'[a].bound = act[a].bound
        /\ act'[a].stamped = act[a].stamped
    BY <2>1, Kept
  <2>4. Fine(a)'
    BY <1>0, <2>2, <2>3 DEF Fine, Derived, Unanswered, Signed
  <2> QED
    BY <1>1, <2>1, <2>2, <2>4
<1>4. ASSUME NEW a \in Activations, Bound(a) PROVE AnswerInv'
  <2>1. act[a].pc = "asked" /\ UNCHANGED <<attested, clock, sess>>
    BY <1>4 DEF Bound
  <2>2. CASE LifeAt > 0 /\ Updated(a, BoundedRec(a))
    <3>1. act'[a] = BoundedRec(a) /\ \A b \in Activations \ {a} : act'[b] = act[b]
      BY <1>2, <2>2, RecordTypes
    <3>2. /\ act'[a].pc = "bounded" /\ act'[a].life = LifeAt /\ act'[a].tok = TokenAt
          /\ act'[a].bound = clock /\ act'[a].exp = act[a].exp /\ act'[a].stamped = act[a].stamped
      BY <3>1, Kept
    <3>3. act[a].exp = 0 /\ act[a].stamped = 0 /\ sess[a] = 0 /\ 0 <= clock
      BY <1>0, <2>1, ConstantTypes DEF Fine, Unanswered, Types
    <3>4. Derived(act[a])'
      BY <2>1, <2>2, <3>2, <3>3, LifeAtBounds DEF Derived
    <3>5. Fine(a)'
      BY <2>1, <3>2, <3>3, <3>4 DEF Fine, Unanswered, Signed
    <3> QED
      BY <1>1, <2>1, <3>1, <3>5
  <2>3. CASE Updated(a, [act[a] EXCEPT !.pc = "failed"])
    <3>1. "failed" \in Progress
      BY DEF Progress
    <3>2. Moved(a, "failed") /\ \A b \in Activations \ {a} : act'[b] = act[b]
      BY <1>2, <2>3, <3>1, RecordTypes, Moves
    <3>3. Fine(a)'
      BY <1>0, <2>1, <3>2, DerivedKept DEF Fine, Unanswered, Signed, Moved
    <3> QED
      BY <1>1, <2>1, <3>2, <3>3
  <2> QED
    BY <1>4, <2>2, <2>3, Forms
<1>5. ASSUME NEW a \in Activations, Stamp(a) PROVE AnswerInv'
  <2>1. act'[a] = StampedRec(a) /\ \A b \in Activations \ {a} : act'[b] = act[b]
    BY <1>2, <1>5, Forms, RecordTypes
  <2>2. act[a].pc = "bounded" /\ UNCHANGED <<attested, clock>> /\ sess' = [sess EXCEPT ![a] = Expiry(a)]
    BY <1>5 DEF Stamp, Expiry
  <2>3. sess'[a] = Expiry(a) /\ \A b \in Activations \ {a} : sess'[b] = sess[b]
    BY <2>2 DEF Types
  <2>4. /\ act'[a].pc = "answered" /\ act'[a].life = act[a].life /\ act'[a].tok = act[a].tok
        /\ act'[a].bound = act[a].bound /\ act'[a].exp = Expiry(a) /\ act'[a].stamped = clock
    BY <2>1, Kept
  <2>5. clock <= clock /\ act[a].life > 0
    BY <1>0, <2>2 DEF Types, Fine, Derived
  <2>6. Derived(act[a])'
    BY <1>0, <2>2, <2>4, <2>5 DEF Fine, Derived, Expiry
  <2>7. Fine(a)'
    BY <2>3, <2>4, <2>6 DEF Fine, Unanswered, Signed
  <2> QED
    BY <1>1, <2>1, <2>2, <2>3, <2>7
<1>6. ASSUME NEW a \in Activations, Reap(a) PROVE AnswerInv'
  <2>1. UNCHANGED <<attested, act, clock>> /\ sess' = [sess EXCEPT ![a] = 0]
    BY <1>6 DEF Reap
  <2>2. sess'[a] = 0 /\ \A b \in Activations \ {a} : sess'[b] = sess[b]
    BY <2>1 DEF Types
  <2>3. Fine(a)'
    BY <1>0, <2>1, <2>2 DEF Fine, Derived, Unanswered, Signed
  <2> QED
    BY <1>1, <2>1, <2>2, <2>3
<1>7. ASSUME NEW a \in Activations, NEW c \in Relays, NEW i \in Addresses, Relay(a, c, i)
      PROVE  AnswerInv'
  <2>0. Updated(a, RelayedRec(a, c, i)) /\ Fields(RelayedRec(a, c, i))
    BY <1>7, Forms, RecordTypes
  <2>1. Moved(a, "relayed") /\ \A b \in Activations \ {a} : act'[b] = act[b]
    BY <1>2, <2>0, Moves
  <2>2. act[a].pc = "answered" /\ UNCHANGED <<attested, clock, sess>>
    BY <1>7 DEF Relay
  <2>3. /\ act'[a].changed = c /\ act'[a].via = i /\ (attested \/ c = {})
        /\ "client_inner_ip" \in c <=> i # act[a].inner
    BY <1>7, <2>0, Moves DEF Relay
  <2>4. Signed(act[a])'
    BY <2>1, <2>2, <2>3 DEF Signed, Moved
  <2>5. Fine(a)'
    BY <1>0, <2>1, <2>2, <2>4, DerivedKept DEF Fine, Unanswered, Moved
  <2> QED
    BY <1>1, <2>1, <2>2, <2>5
<1>8. ASSUME NEW a \in Activations, Install(a) PROVE AnswerInv'
  <2>1. act'[a] = InstalledRec(a) /\ \A b \in Activations \ {a} : act'[b] = act[b]
    BY <1>2, <1>8, Forms, RecordTypes
  <2>2. act[a].pc = "relayed" /\ UNCHANGED <<attested, clock, sess>> /\ verifyTunnelAttestation(a)
    BY <1>8 DEF Install
  <2>3. /\ act'[a].pc = "installed" /\ act'[a].life = act[a].life /\ act'[a].tok = act[a].tok
        /\ act'[a].bound = act[a].bound /\ act'[a].exp = act[a].exp
        /\ act'[a].stamped = act[a].stamped /\ act'[a].via = act[a].via
        /\ act'[a].due = CleanupDue(act[a].life) /\ act'[a].inner = act[a].inner
    BY <2>1, Kept
  <2>4. Derived(act[a])'
    BY <1>0, <2>2, <2>3 DEF Fine, Derived
  <2>5. act[a].via = act[a].inner
    BY <1>0, <2>2, AddressAsGiven DEF Fine
  <2>6. act[a].exp * Second <= CleanupDue(act[a].life)
    BY <1>0, DueAfterExpiry DEF Fine
  <2>7. Signed(act[a])'
    BY <2>2, <2>3, <2>5, <2>6 DEF Signed
  <2>8. Fine(a)'
    BY <1>0, <2>2, <2>3, <2>4, <2>7 DEF Fine, Unanswered
  <2> QED
    BY <1>1, <2>1, <2>2, <2>8
<1>9. ASSUME NEW a \in Activations, InstallFails(a) \/ Reject(a) PROVE AnswerInv'
  <2>3. PICK p \in {"broken", "rejected"} :
            Moved(a, p) /\ \A b \in Activations \ {a} : act'[b] = act[b]
    BY <1>9, EndMoves
  <2>4. act[a].pc = "relayed" /\ UNCHANGED <<attested, clock, sess>>
    BY <1>9 DEF InstallFails, Reject
  <2>5. Fine(a)'
    BY <1>0, <2>3, <2>4, DerivedKept DEF Fine, Unanswered, Signed, Moved
  <2> QED
    BY <1>1, <2>3, <2>4, <2>5
<1>10. ASSUME NEW a \in Activations, Cleanup(a) PROVE AnswerInv'
  BY <1>0, <1>10 DEF Cleanup, AnswerInv, Derived, Unanswered, Signed
<1>11. CASE RestartPEP
  <2>1. UNCHANGED <<attested, clock>> /\ \A a \in Activations : sess'[a] \in {0, sess[a]}
    BY <1>11 DEF RestartPEP
  <2>2. ASSUME NEW a \in Activations PROVE Fine(a)'
    <3>1. Fine(a) /\ sess'[a] \in {0, sess[a]} /\ sess[a] \in {0, act[a].exp}
      BY <1>0, <2>1 DEF Fine
    <3>2. CASE act'[a] = act[a]
      BY <2>1, <3>1, <3>2 DEF Fine, Derived, Unanswered, Signed
    <3>3. CASE act[a].pc \in {"asked", "bounded"} /\ Moved(a, "failed")
      BY <2>1, <3>1, <3>3, DerivedKept DEF Fine, Unanswered, Signed, Moved
    <3> QED
      BY <1>11, <3>2, <3>3, Restarted
  <2> QED
    BY <2>2 DEF AnswerInv, Fine
<1>12. CASE Tick
  <2>1. UNCHANGED <<attested, act, sess>> /\ clock \in Nat /\ clock' = clock + 1
    BY <1>12, ConstantTypes DEF Tick, Types
  <2>2. ASSUME NEW a \in Activations PROVE Fine(a)'
    <3>1. act[a].stamped \in Nat /\ act[a].stamped <= clock /\ Fine(a)
      BY <1>0 DEF Types, Fields, Fine, Derived
    <3>2. act[a].stamped <= clock'
      BY <2>1, <3>1
    <3> QED
      BY <2>1, <3>1, <3>2 DEF Fine, Derived, Unanswered, Signed
  <2> QED
    BY <2>2 DEF AnswerInv, Fine
<1>13. CASE UNCHANGED vars
  BY <1>13 DEF vars, AnswerInv, Derived, Unanswered, Signed
<1> QED
  BY <1>3, <1>4, <1>5, <1>6, <1>7, <1>8, <1>9, <1>10, <1>11, <1>12, <1>13 DEF Next

-----------------------------------------------------------------------------
(* The client's side. *)

TakenOver(a) == \E b \in Reached : a \in act[b].prior

(* The tunnel is there until its time has come, unless it was displaced,   *)
(* and so is the route, unless that was taken over.                        *)
Whole(a) ==
    \/ clock >= act[a].due \/ Displaced(a)
    \/ Installed(a) /\ (TakenOver(a) \/ route = act[a].inner)

HeldInv ==
    /\ \A a \in Activations : act[a].pc = "installed" => Whole(a)
    /\ timers \subseteq {a \in Activations : act[a].pc = "installed"}
    /\ \A a \in Activations : \A b \in timers \ {a} :
          act[a].pc = "installed" => a \in act[b].prior \/ b \in act[a].waiting

LEMMA InnerInPool ==
    ASSUME Types, AddressInv, NEW a \in Activations, act[a].pc # "none"
    PROVE  act[a].inner \in Addresses
<1>1. act[a].inner \in Nat /\ act[a].inner >= 1 /\ act[a].inner <= Cardinality(Asked)
  BY DEF AddressInv, Types, Fields
<1> QED
  BY <1>1, AskedCount DEF Addresses

(* A step that touches the kernel only on behalf of activation b, which    *)
(* has reached it, under the address b was given.                          *)
LEMMA HeldKept ==
    ASSUME Types, AddressInv, NEW a \in Activations, NEW b \in Activations \ {a},
           act[a].pc = "installed", Whole(a), act'[a] = act[a],
           act'[b].inner = act[b].inner, b \in Reached', clock' = clock,
           \A d \in Reached : d \in Reached' /\ act'[d] = act[d],
           \A i \in Addresses \ {act[b].inner} : pol'[i] = pol[i],
           a \in states => a \in states',
           (a \in act'[b].prior) \/ (b \in act[a].waiting \ timers'
                                       /\ route' = RouteAfterDelete(act[b].inner)),
           \A d \in Reached : d \in timers' => d \in timers
    PROVE  Whole(a)'
<1>1. CASE clock >= act[a].due
  BY <1>1 DEF Whole
<1>2. CASE act[b].inner = act[a].inner
  <2>1. Displaced(a)'
    BY <1>2 DEF Displaced
  <2> QED
    BY <2>1 DEF Whole
<1>3. CASE Displaced(a)
  <2>1. PICK d \in Reached \ {a} :
            act[d].inner = act[a].inner /\ (a \in act[d].prior \/ d \in act[a].waiting \ timers)
    BY <1>3 DEF Displaced
  <2>2. d \in Reached' \ {a} /\ act'[d] = act[d]
    BY <2>1
  <2>3. Displaced(a)'
    BY <2>1, <2>2 DEF Displaced
  <2> QED
    BY <2>3 DEF Whole
<1>4. CASE act[b].inner # act[a].inner /\ Installed(a) /\ (TakenOver(a) \/ route = act[a].inner)
  <2>1. act[a].inner \in Addresses
    BY InnerInPool
  <2>3. pol'[act[a].inner] = pol[act[a].inner]
    BY <1>4, <2>1
  <2>4. Installed(a)'
    BY <1>4, <2>3 DEF Installed
  <2>5. TakenOver(a) => TakenOver(a)'
    BY DEF TakenOver
  <2>6. a \in act'[b].prior => TakenOver(a)'
    BY DEF TakenOver
  <2>7. route = act[a].inner /\ route' = RouteAfterDelete(act[b].inner) => route' = act'[a].inner
    BY <1>4 DEF RouteAfterDelete
  <2> QED
    BY <1>4, <2>4, <2>5, <2>6, <2>7 DEF Whole
<1> QED
  BY <1>1, <1>2, <1>3, <1>4 DEF Whole

(* A step that leaves the client, and what has reached it, alone. *)
LEMMA HeldElsewhere ==
    ASSUME Types, Types', HeldInv,
           \A a \in Activations : a \in Reached \/ a \in Reached' => act'[a] = act[a],
           clock' >= clock, UNCHANGED <<pol, route, states, timers>>
    PROVE  HeldInv'
<1>1. Reached' = Reached
  BY DEF Reached
<1>2. ASSUME NEW a \in Activations, act'[a].pc = "installed" PROVE Whole(a)'
  <2>1. act'[a] = act[a] /\ act[a].pc = "installed" /\ Whole(a)
    BY <1>2 DEF Reached, HeldInv
  <2>2. clock >= act[a].due => clock' >= act'[a].due
    <3>1. clock \in Nat /\ clock' \in Nat /\ act[a].due \in Nat
      BY ConstantTypes DEF Types, Fields
    <3> QED
      BY <2>1, <3>1
  <2>3. (Displaced(a) => Displaced(a)') /\ (TakenOver(a) => TakenOver(a)')
    <3>1. \A b \in Reached : act'[b] = act[b]
      BY DEF Reached
    <3> QED
      BY <1>1, <2>1, <3>1 DEF Displaced, TakenOver
  <2>4. Installed(a) => Installed(a)'
    BY <2>1 DEF Installed
  <2> QED
    BY <2>1, <2>2, <2>3, <2>4 DEF Whole
<1>3. timers' \subseteq {a \in Activations : act'[a].pc = "installed"}
  BY DEF HeldInv, Reached
<1>4. ASSUME NEW a \in Activations, NEW b \in timers' \ {a}, act'[a].pc = "installed"
      PROVE  a \in act'[b].prior \/ b \in act'[a].waiting
  <2>1. b \in timers /\ act[b].pc = "installed" /\ b \in Activations
    BY DEF HeldInv
  <2>2. act'[a] = act[a] /\ act'[b] = act[b]
    BY <1>4, <2>1 DEF Reached
  <2> QED
    BY <1>4, <2>1, <2>2 DEF HeldInv
<1> QED
  BY <1>2, <1>3, <1>4 DEF HeldInv

LEMMA HeldNext ==
    Types /\ AddressInv /\ AnswerInv /\ Types' /\ HeldInv /\ [Next]_vars => HeldInv'
<1> SUFFICES ASSUME Types, AddressInv, AnswerInv, Types', HeldInv, [Next]_vars PROVE HeldInv'
  OBVIOUS
<1>0. clock \in Nat /\ \A a \in Activations : Signed(act[a])
  BY ConstantTypes DEF Types, AnswerInv
<1>1. ASSUME NEW a \in Activations, NEW r, Updated(a, r), Fields(r)
      PROVE  act'[a] = r /\ \A b \in Activations \ {a} : act'[b] = act[b]
  BY <1>1, UpdateTypes
<1>2. ASSUME NEW a \in Activations, act[a].pc \notin {"installed", "broken"},
             act'[a].pc \notin {"installed", "broken"},
             \A b \in Activations \ {a} : act'[b] = act[b],
             UNCHANGED <<clock, pol, route, states, timers>>
      PROVE  HeldInv'
  <2>1. \A b \in Activations : b \in Reached \/ b \in Reached' => act'[b] = act[b]
    BY <1>2 DEF Reached
  <2>2. clock' >= clock
    BY <1>0, <1>2
  <2> QED
    BY <1>2, <2>1, <2>2, HeldElsewhere
<1>3. ASSUME NEW a \in Activations, NEW svc \in Services, Ask(a, svc) PROVE HeldInv'
  <2>1. act'[a] = AskedRec(a, svc) /\ \A b \in Activations \ {a} : act'[b] = act[b]
    BY <1>1, <1>3, Forms, RecordTypes
  <2>2. act[a].pc = "none" /\ UNCHANGED <<clock, pol, route, states, timers>>
    BY <1>3 DEF Ask
  <2> QED
    BY <1>2, <2>1, <2>2, Kept
<1>4. ASSUME NEW a \in Activations, Bound(a) PROVE HeldInv'
  <2>1. act[a].pc = "asked" /\ UNCHANGED <<clock, pol, route, states, timers>>
    BY <1>4 DEF Bound
  <2>2. CASE LifeAt > 0 /\ Updated(a, BoundedRec(a))
    <3>1. act'[a] = BoundedRec(a) /\ \A b \in Activations \ {a} : act'[b] = act[b]
      BY <1>1, <2>2, RecordTypes
    <3> QED
      BY <1>2, <2>1, <3>1, Kept
  <2>3. CASE Updated(a, [act[a] EXCEPT !.pc = "failed"])
    <3>1. "failed" \in Progress
      BY DEF Progress
    <3>2. Moved(a, "failed") /\ \A b \in Activations \ {a} : act'[b] = act[b]
      BY <1>1, <2>3, <3>1, RecordTypes, Moves
    <3> QED
      BY <1>2, <2>1, <3>2 DEF Moved
  <2> QED
    BY <1>4, <2>2, <2>3, Forms
<1>5. ASSUME NEW a \in Activations, Stamp(a) PROVE HeldInv'
  <2>1. act'[a] = StampedRec(a) /\ \A b \in Activations \ {a} : act'[b] = act[b]
    BY <1>1, <1>5, Forms, RecordTypes
  <2>2. act[a].pc = "bounded" /\ UNCHANGED <<clock, pol, route, states, timers>>
    BY <1>5 DEF Stamp
  <2> QED
    BY <1>2, <2>1, <2>2, Kept
<1>6. ASSUME NEW a \in Activations, NEW c \in Relays, NEW i \in Addresses, Relay(a, c, i)
      PROVE  HeldInv'
  <2>1. Updated(a, RelayedRec(a, c, i)) /\ Fields(RelayedRec(a, c, i))
    BY <1>6, Forms, RecordTypes
  <2>2. Moved(a, "relayed") /\ \A b \in Activations \ {a} : act'[b] = act[b]
    BY <1>1, <2>1, Moves
  <2>3. act[a].pc = "answered" /\ UNCHANGED <<clock, pol, route, states, timers>>
    BY <1>6 DEF Relay
  <2> QED
    BY <1>2, <2>2, <2>3 DEF Moved
<1>7. ASSUME NEW a \in Activations, Reject(a) PROVE HeldInv'
  <2>1. Updated(a, [act[a] EXCEPT !.pc = "rejected"]) /\ "rejected" \in Progress
    BY <1>7, Forms DEF Progress
  <2>2. Moved(a, "rejected") /\ \A b \in Activations \ {a} : act'[b] = act[b]
    BY <1>1, <2>1, RecordTypes, Moves
  <2>3. act[a].pc = "relayed" /\ UNCHANGED <<clock, pol, route, states, timers>>
    BY <1>7 DEF Reject
  <2> QED
    BY <1>2, <2>2, <2>3 DEF Moved
<1>8. CASE RestartPEP
  <2>1. UNCHANGED <<clock, pol, route, states, timers>> /\ clock' >= clock
    BY <1>0, <1>8 DEF RestartPEP
  <2>2. \A a \in Activations : a \in Reached \/ a \in Reached' => act'[a] = act[a]
    BY <1>8, Restarted DEF Moved, Reached
  <2> QED
    BY <2>1, <2>2, HeldElsewhere
<1>9. ASSUME UNCHANGED <<act, pol, route, states, timers>>, clock' >= clock PROVE HeldInv'
  BY <1>9, HeldElsewhere
<1>10. CASE Tick \/ UNCHANGED vars \/ \E a \in Activations : Reap(a)
  <2>1. UNCHANGED <<act, pol, route, states, timers>> /\ (clock' = clock \/ clock' = clock + 1)
    BY <1>10 DEF Tick, vars, Reap
  <2> QED
    BY <1>0, <1>9, <2>1
<1>11. ASSUME NEW b \in Activations, act[b].pc = "relayed" \/ act[b].pc = "installed",
              act'[b].inner = act[b].inner, act'[b].pc \in {"installed", "broken"},
              act[b].pc = "installed" => act'[b] = act[b],
              \A d \in Activations \ {b} : act'[d] = act[d], clock' = clock,
              \A i \in Addresses \ {act[b].inner} : pol'[i] = pol[i],
              states \ {b} \subseteq states',
              (Reached \subseteq act'[b].prior)
                  \/ (b \in timers \ timers' /\ act'[b] = act[b]
                      /\ route' = RouteAfterDelete(act[b].inner)),
              timers' \subseteq timers \/ (timers' = timers \cup {b} /\ b \notin Reached)
       PROVE  \A a \in Activations \ {b} : act'[a].pc = "installed" => Whole(a)'
  <2> SUFFICES ASSUME NEW a \in Activations \ {b}, act'[a].pc = "installed" PROVE Whole(a)'
    OBVIOUS
  <2>1. act'[a] = act[a] /\ act[a].pc = "installed" /\ Whole(a) /\ a \in Reached
    BY <1>11 DEF HeldInv, Reached
  <2>2. b \in Reached' /\ \A d \in Reached : d \in Reached' /\ act'[d] = act[d]
    BY <1>11 DEF Reached
  <2>3. \/ a \in act'[b].prior
        \/ b \in act[a].waiting \ timers' /\ route' = RouteAfterDelete(act[b].inner)
    BY <1>11, <2>1 DEF HeldInv
  <2>4. \A d \in Reached : d \in timers' => d \in timers
    BY <1>11
  <2> QED
    BY <1>11, <2>1, <2>2, <2>3, <2>4, HeldKept
<1>12. ASSUME NEW b \in Activations, Install(b) PROVE HeldInv'
  <2>1. act'[b] = InstalledRec(b) /\ \A d \in Activations \ {b} : act'[d] = act[d]
    BY <1>1, <1>12, Forms, RecordTypes
  <2>2. /\ act[b].pc = "relayed" /\ clock' = clock /\ pol' = [pol EXCEPT ![act[b].via] = b]
        /\ route' = act[b].via /\ states' = states \cup {b} /\ timers' = timers \cup {b}
    BY <1>12 DEF Install
  <2>3. /\ act'[b].pc = "installed" /\ act'[b].inner = act[b].inner /\ act'[b].prior = Reached
        /\ act'[b].waiting = timers /\ b \notin Reached
    BY <2>1, <2>2, Kept DEF Reached
  <2>4. act[b].via = act[b].inner
    BY <1>0, <1>12, AddressAsGiven DEF Install
  <2>5. Whole(b)'
    <3>1. act[b].inner \in Addresses
      BY <2>2, InnerInPool
    <3>2. pol'[act'[b].inner] = b /\ route' = act'[b].inner
      BY <2>2, <2>3, <2>4, <3>1 DEF AddressInv
    <3> QED
      BY <2>2, <3>2 DEF Whole, Installed
  <2>6. \A a \in Activations \ {b} : act'[a].pc = "installed" => Whole(a)'
    <3>1. \A i \in Addresses \ {act[b].inner} : pol'[i] = pol[i]
      BY <2>2, <2>4 DEF AddressInv
    <3> QED
      BY <1>11, <2>1, <2>2, <2>3, <3>1
  <2>7. timers' \subseteq {a \in Activations : act'[a].pc = "installed"}
    BY <2>1, <2>2, <2>3 DEF HeldInv
  <2>8. ASSUME NEW a \in Activations, NEW d \in timers' \ {a}, act'[a].pc = "installed"
        PROVE  a \in act'[d].prior \/ d \in act'[a].waiting
    <3>1. CASE a = b
      BY <2>2, <2>3, <3>1
    <3>2. CASE a # b /\ d = b
      <4>1. a \in Reached
        BY <2>1, <2>8, <3>2 DEF Reached
      <4> QED
        BY <2>3, <3>2, <4>1
    <3>3. CASE a # b /\ d # b
      <4>1. d \in timers /\ act'[a] = act[a] /\ act'[d] = act[d]
        BY <2>1, <2>2, <3>3 DEF HeldInv
      <4> QED
        BY <2>8, <4>1 DEF HeldInv
    <3> QED
      BY <3>1, <3>2, <3>3
  <2> QED
    BY <2>5, <2>6, <2>7, <2>8 DEF HeldInv
<1>13. ASSUME NEW b \in Activations, InstallFails(b) PROVE HeldInv'
  <2>1. Updated(b, BrokenRec(b)) /\ Fields(BrokenRec(b))
    BY <1>13, Forms, RecordTypes
  <2>2. /\ Moved(b, "broken") /\ act'[b].prior = Reached
        /\ \A d \in Activations \ {b} : act'[d] = act[d]
    BY <1>1, <2>1, Moves
  <2>3. /\ act[b].pc = "relayed" /\ clock' = clock /\ pol' = [pol EXCEPT ![act[b].via] = NoOwner]
        /\ states \subseteq states' /\ timers' = timers
    BY <1>13 DEF InstallFails
  <2>4. act[b].via = act[b].inner
    BY <1>0, <1>13, AddressAsGiven DEF InstallFails
  <2>5. act'[b].pc = "broken" /\ act'[b].inner = act[b].inner
    BY <2>2 DEF Moved
  <2>6. \A a \in Activations \ {b} : act'[a].pc = "installed" => Whole(a)'
    <3>1. \A i \in Addresses \ {act[b].inner} : pol'[i] = pol[i]
      BY <2>3, <2>4 DEF AddressInv
    <3>2. Reached \subseteq act'[b].prior
      BY <2>2
    <3>3. states \ {b} \subseteq states' /\ timers' \subseteq timers /\ clock' = clock
      BY <2>3
    <3>4. act[b].pc = "relayed" /\ (act[b].pc = "installed" => act'[b] = act[b])
      BY <2>3
    <3>5. act'[b].pc \in {"installed", "broken"}
      BY <2>5
    <3> QED
      BY <1>11, <2>2, <2>5, <3>1, <3>2, <3>3, <3>4, <3>5
  <2>7. b \notin timers /\ timers' \subseteq {a \in Activations : act'[a].pc = "installed"}
    BY <2>2, <2>3 DEF HeldInv
  <2>8. ASSUME NEW a \in Activations, NEW d \in timers' \ {a}, act'[a].pc = "installed"
        PROVE  a \in act'[d].prior \/ d \in act'[a].waiting
    <3>1. d \in timers /\ act'[a] = act[a] /\ act'[d] = act[d]
      BY <2>2, <2>3, <2>5, <2>7, <2>8 DEF HeldInv
    <3> QED
      BY <2>8, <3>1 DEF HeldInv
  <2> QED
    BY <2>5, <2>6, <2>7, <2>8 DEF HeldInv
<1>14. ASSUME NEW b \in Activations, Cleanup(b) PROVE HeldInv'
  <2>1. /\ clock >= act[b].due /\ UNCHANGED <<act, clock>> /\ timers' = timers \ {b}
        /\ pol' = [pol EXCEPT ![act[b].via] = NoOwner] /\ states' = states \ {b}
        /\ route' = RouteAfterDelete(act[b].via)
    BY <1>14 DEF Cleanup
  <2>2. act[b].pc = "installed" /\ act[b].via = act[b].inner
    BY <1>0, <1>14 DEF Cleanup, HeldInv, Signed
  <2>3. Whole(b)'
    BY <2>1 DEF Whole
  <2>4. \A a \in Activations \ {b} : act'[a].pc = "installed" => Whole(a)'
    <3>1. \A i \in Addresses \ {act[b].inner} : pol'[i] = pol[i]
      BY <2>1, <2>2 DEF AddressInv
    <3>2. /\ b \in timers \ timers' /\ states \ {b} \subseteq states' /\ timers' \subseteq timers
          /\ route' = RouteAfterDelete(act[b].inner)
      BY <1>14, <2>1, <2>2 DEF Cleanup
    <3>3. clock' = clock /\ (\A d \in Activations \ {b} : act'[d] = act[d]) /\ act'[b] = act[b]
      BY <2>1
    <3>4. act'[b].inner = act[b].inner /\ act'[b].pc \in {"installed", "broken"}
      BY <2>2, <3>3
    <3> QED
      BY <1>11, <2>2, <3>1, <3>2, <3>3, <3>4
  <2>5. timers' \subseteq {a \in Activations : act'[a].pc = "installed"}
    BY <2>1 DEF HeldInv
  <2>6. \A a \in Activations : \A d \in timers' \ {a} :
            act'[a].pc = "installed" => a \in act'[d].prior \/ d \in act'[a].waiting
    BY <2>1 DEF HeldInv
  <2> QED
    BY <2>3, <2>4, <2>5, <2>6 DEF HeldInv
<1> QED
  BY <1>3, <1>4, <1>5, <1>6, <1>7, <1>8, <1>10, <1>12, <1>13, <1>14 DEF Next

-----------------------------------------------------------------------------
(* The theorems. *)

TunnelInv == Types /\ AddressInv /\ AnswerInv /\ HeldInv

LEMMA TunnelInvariance == Spec => []TunnelInv
<1>1. Init => TunnelInv
  <2>1. Init => HeldInv
    BY DEF Init, Blank, HeldInv
  <2> QED
    BY <2>1, TypesInit, AddressInit, AnswerInit DEF TunnelInv
<1>2. TunnelInv /\ [Next]_vars => TunnelInv'
  BY TypesNext, AddressNext, AnswerNext, HeldNext DEF TunnelInv
<1> QED
  BY <1>1, <1>2, PTL DEF Spec

(* The inner addresses stay in the pool and the lifetimes within           *)
(* SA_LIFETIME_SECONDS, for any number of activations and restarts         *)
(* (allocateClientInnerIP, initAllocators, boundLifetime).                 *)
THEOREM PoolSuffices == Spec => []TypeOK
<1>1. TunnelInv => TypeOK
  <2> SUFFICES ASSUME TunnelInv PROVE TypeOK
    OBVIOUS
  <2>1. ASSUME NEW a \in Activations
        PROVE  act[a].inner \in 0..Cardinality(Activations) /\ act[a].life \in 0..SALifetime
    <3>1. act[a].inner \in Nat /\ act[a].life \in Nat /\ act[a].inner <= Cardinality(Asked)
          /\ act[a].life <= SALifetime
      BY DEF TunnelInv, Types, Fields, AddressInv, AnswerInv, Derived
    <3> QED
      BY <3>1, AskedCount, ConstantTypes
  <2> QED
    BY <2>1 DEF TunnelInv, Types, TypeOK
<1> QED
  BY <1>1, TunnelInvariance, PTL

(* For every tick, lifetime, token and scope, an honest answer for a       *)
(* service in the scope, whose two clock readings are less than a second   *)
(* apart, is within its token and passes the client's checks               *)
(* (boundLifetime, activateHandler, VerifyTunnelBinding).                  *)
THEOREM HonestAnswers == Spec => []HonestAnswerAccepted
<1>1. TunnelInv => HonestAnswerAccepted
  <2> SUFFICES ASSUME TunnelInv, attested, NEW a \in Activations,
                      act[a].stamped - act[a].bound < Second
               PROVE  /\ act[a].exp <= act[a].tok.exp
                      /\ /\ act[a].pc = "relayed" /\ act[a].changed = {}
                         /\ TokenValid(act[a].tok) /\ ContainsScope(act[a].svc)
                         => verifyTunnelAttestation(a)
    BY DEF HonestAnswerAccepted
  <2>1. Types /\ Derived(act[a])
    BY DEF TunnelInv, AnswerInv
  <2>2. act[a].exp <= act[a].tok.exp
    BY <2>1, ExpiryWithinToken
  <2>3. act[a].life <= MaxSALifetime /\ ~(act[a].exp > act[a].tok.exp)
    <3>1. act[a].life \in Nat /\ act[a].exp \in Nat /\ act[a].tok.exp \in Nat
      BY <2>1 DEF Types, Fields, Tokens
    <3> QED
      BY <2>1, <2>2, <3>1, ConstantTypes DEF Derived
  <2> QED
    BY <2>2, <2>3 DEF verifyTunnelAttestation, VerifyTunnelBinding
<1> QED
  BY <1>1, TunnelInvariance, PTL

(* What the invariant says of a tunnel whose session has not expired. *)
LEMMA LivingIsWhole ==
    ASSUME TunnelInv, NEW a \in Activations, Living(a), ~Displaced(a)
    PROVE  Installed(a) /\ (TakenOver(a) \/ route = act[a].inner)
<1> DEFINE q == act[a].exp * Second
<1>1. clock < q /\ q <= act[a].due /\ Whole(a)
  BY DEF TunnelInv, AnswerInv, Signed, HeldInv, Living
<1>2. clock \in Nat /\ act[a].due \in Nat /\ act[a].exp \in Nat /\ q \in Nat
  BY ConstantTypes DEF TunnelInv, Types, Fields
<1> HIDE DEF q
<1>3. ~(clock >= act[a].due)
  BY <1>1, <1>2
<1> QED
  BY <1>1, <1>3 DEF Whole

(* Policies and states of the client's side are there, under the address   *)
(* the PEP gave, until the session's expiry, unless a later activation     *)
(* with that address, or the clean-up of an earlier one, displaced them    *)
(* (scheduleClientXFRMCleanup).                                            *)
THEOREM ClientOutlives == Spec => []ClientOutlivesPEP
<1>1. TunnelInv => ClientOutlivesPEP
  BY LivingIsWhole DEF ClientOutlivesPEP
<1> QED
  BY <1>1, TunnelInvariance, PTL

(* The route stays with the tunnel that was installed last, whatever       *)
(* clean-ups come (BuildClientXFRMTunnelPlan).                             *)
THEOREM RouteStays == Spec => []RouteToLatest
<1>1. TunnelInv => RouteToLatest
  BY LivingIsWhole DEF RouteToLatest, TakenOver
<1> QED
  BY <1>1, TunnelInvariance, PTL
=============================================================================
