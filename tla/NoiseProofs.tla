---------------------------- MODULE NoiseProofs ----------------------------
(***************************************************************************)
(* Proofs about the handshake: for any clients, keys and PSKs, a packet    *)
(* opens exactly when it is genuine, and both sides then agree.  The terms *)
(* are free: the argument reads what was mixed off the key, from the       *)
(* outside in.                                                             *)
(***************************************************************************)
EXTENDS Noise, TLAPS

(* What stands for nothing is not a result. *)
Sentinel == "packet" \notin DOMAIN Nothing /\ "client" \notin DOMAIN Nothing

IsState(s) == s = [ck |-> s.ck, h |-> s.h, k |-> s.k, n |-> s.n]

-----------------------------------------------------------------------------
(* The primitives and the states. *)

LEMMA KdfInjective ==
    ASSUME NEW a, NEW b, NEW c, NEW d, NEW n, NEW m, hkdf(a, b, n) = hkdf(c, d, m)
    PROVE  a = c /\ b = d /\ n = m
BY DEF hkdf

LEMMA PubInjective == ASSUME NEW x, NEW y, Pub(x) = Pub(y) PROVE x = y
BY DEF Pub

(* Two key agreements that share a private key share the other one. *)
LEMMA SharedSecret ==
    ASSUME NEW x, NEW y, NEW z
    PROVE  /\ X25519(x, Pub(y)) = X25519(y, Pub(x))
           /\ X25519(x, Pub(y)) = X25519(y, Pub(z)) => x = z
           /\ X25519(x, Pub(y)) = X25519(z, Pub(x)) => y = z
<1>1. X25519(x, Pub(y)) = <<"dh", {x, y}>> /\ X25519(y, Pub(x)) = <<"dh", {y, x}>>
      /\ X25519(y, Pub(z)) = <<"dh", {y, z}>> /\ X25519(z, Pub(x)) = <<"dh", {z, x}>>
  BY DEF X25519, Pub
<1>2. {x, y} = {y, x} /\ ({x, y} = {y, z} => x = z) /\ ({x, y} = {z, x} => y = z)
  OBVIOUS
<1> QED
  BY <1>1, <1>2

LEMMA MixHashState ==
    ASSUME NEW s, NEW d, IsState(s)
    PROVE  /\ IsState(mixHash(s, d)) /\ mixHash(s, d).ck = s.ck
           /\ mixHash(s, d).k = s.k /\ mixHash(s, d).n = s.n
BY DEF IsState, mixHash

LEMMA MixKeyState ==
    ASSUME NEW s, NEW i, IsState(s)
    PROVE  /\ IsState(mixKey(s, i)) /\ mixKey(s, i).ck = hkdf(s.ck, i, 1)
           /\ mixKey(s, i).k = hkdf(s.ck, i, 2)
<1> DEFINE a == hkdf(s.ck, i, 1)
           b == hkdf(s.ck, i, 2)
<1>1. mixKey(s, i) = [s EXCEPT !.ck = a, !.k = b, !.n = 0]
  BY DEF mixKey
<1> HIDE DEF a, b
<1>2. IsState(mixKey(s, i)) /\ mixKey(s, i).ck = a /\ mixKey(s, i).k = b
  BY <1>1 DEF IsState
<1> QED
  BY <1>2 DEF a, b

LEMMA MixBothState ==
    ASSUME NEW s, NEW i, IsState(s)
    PROVE  /\ IsState(mixKeyAndHash(s, i)) /\ mixKeyAndHash(s, i).ck = hkdf(s.ck, i, 1)
           /\ mixKeyAndHash(s, i).k = hkdf(s.ck, i, 3)
<1> DEFINE m == mixHash(s, hkdf(s.ck, i, 2))
<1>1. IsState(m)
  BY MixHashState
<1>2. mixKeyAndHash(s, i) = [m EXCEPT !.ck = hkdf(s.ck, i, 1), !.k = hkdf(s.ck, i, 3), !.n = 0]
  BY DEF mixKeyAndHash
<1> HIDE DEF m
<1> QED
  BY <1>1, <1>2 DEF IsState

LEMMA CipherState ==
    ASSUME NEW s, NEW c, IsState(s)
    PROVE  IsState(AfterCipher(s, c)) /\ AfterCipher(s, c).ck = s.ck
<1> DEFINE t == [s EXCEPT !.n = @ + 1]
<1>1. IsState(t) /\ t.ck = s.ck
  BY DEF IsState
<1>2. AfterCipher(s, c) = mixHash(t, c)
  BY DEF AfterCipher
<1> HIDE DEF t
<1> QED
  BY <1>1, <1>2, MixHashState

LEMMA HeaderStateKeys ==
    ASSUME NEW p, NEW es
    PROVE  /\ IsState(HeaderState(p, es))
           /\ HeaderState(p, es).ck = hkdf(hkdf(<<"name">>, p, 1), es, 1)
           /\ HeaderState(p, es).k = hkdf(hkdf(<<"name">>, p, 1), es, 2)
<1> DEFINE a == mixHash(newSymmetricState, p)
           b == mixKey(a, p)
<1>1. IsState(newSymmetricState) /\ newSymmetricState.ck = <<"name">>
  BY DEF IsState, newSymmetricState
<1>2. IsState(a) /\ a.ck = <<"name">>
  BY <1>1, MixHashState
<1>3. HeaderState(p, es) = mixKey(b, es)
  BY DEF HeaderState
<1> HIDE DEF a
<1>4. IsState(b) /\ b.ck = hkdf(<<"name">>, p, 1)
  BY <1>2, MixKeyState
<1> HIDE DEF b
<1>5. IsState(mixKey(b, es)) /\ mixKey(b, es).ck = hkdf(b.ck, es, 1) /\ mixKey(b, es).k = hkdf(b.ck, es, 2)
  BY <1>4, MixKeyState
<1> QED
  BY <1>3, <1>4, <1>5

LEMMA PayloadStateKeys ==
    ASSUME NEW s, NEW ss, NEW psk, IsState(s)
    PROVE  /\ IsState(PayloadState(s, ss, psk))
           /\ PayloadState(s, ss, psk).ck = hkdf(hkdf(s.ck, ss, 1), <<"psk", psk>>, 1)
           /\ PayloadState(s, ss, psk).k = hkdf(hkdf(s.ck, ss, 1), <<"psk", psk>>, 3)
<1> DEFINE t == mixKey(s, ss)
           i == <<"psk", psk>>
<1>1. IsState(t) /\ t.ck = hkdf(s.ck, ss, 1)
  BY MixKeyState
<1>2. PayloadState(s, ss, psk) = mixKeyAndHash(t, i)
  BY DEF PayloadState
<1> HIDE DEF t, i
<1>3. /\ IsState(mixKeyAndHash(t, i)) /\ mixKeyAndHash(t, i).ck = hkdf(t.ck, i, 1)
      /\ mixKeyAndHash(t, i).k = hkdf(t.ck, i, 3)
  BY <1>1, MixBothState
<1> QED
  BY <1>1, <1>2, <1>3 DEF i

(* A ciphertext names its key, and opens under the state that made it. *)
LEMMA SealedParts ==
    ASSUME NEW s, NEW p
    PROVE  /\ Encrypted(s, p)[1] = "sealed" /\ Encrypted(s, p)[2] = s.k /\ Encrypted(s, p)[5] = p
           /\ CanOpen(s.k, s.n, s.h, Encrypted(s, p))
BY DEF Encrypted, Seal, CanOpen

-----------------------------------------------------------------------------
(* The packets that were built and the one that arrives. *)

(* The two states of a packet's builder. *)
State1(pdp, e) == HeaderState(Pub(e), X25519(e, Pub(pdp)))
Ns(id, pdp, t, e) == Encrypted(State1(pdp, e), <<"ns", t, id.pub>>)
State2(id, pdp, t, e) ==
    PayloadState(AfterCipher(State1(pdp, e), Ns(id, pdp, t, e)), X25519(id.priv, Pub(pdp)), id.psk)
Nm(id, pdp, p, t, e) == Encrypted(State2(id, pdp, t, e), <<"payload", p>>)

IsBuilt(b, id, pdp, p, t, e) ==
    /\ b.packet = <<Pub(e), Ns(id, pdp, t, e), Nm(id, pdp, p, t, e)>>
    /\ b.key = ResponseKey(AfterCipher(State2(id, pdp, t, e), Nm(id, pdp, p, t, e)))
    /\ b.id = id /\ b.pdp = pdp /\ b.payload = p /\ b.ts = t

BuiltInv ==
    /\ built = [e \in Ephemerals |-> built[e]]
    /\ \A e \in Builds : \E id \in Identities, pdp \in PDPs, p \in Payloads, t \in Times :
           IsBuilt(built[e], id, pdp, p, t, e)

WireInv ==
    stage # "build" => \E a \in Part(1), b \in Part(2), c \in Part(3) : wire = <<a, b, c>>

LEMMA BuildForm ==
    ASSUME NEW id, NEW pdp, NEW p, NEW t, NEW e
    PROVE  IsBuilt(BuildIKpsk1SPA(id, pdp, p, t, e), id, pdp, p, t, e)
<1> DEFINE ns == Ns(id, pdp, t, e)
           nm == Nm(id, pdp, p, t, e)
           key == split(AfterCipher(State2(id, pdp, t, e), nm))[2]
<1>1. BuildIKpsk1SPA(id, pdp, p, t, e)
        = [packet |-> <<Pub(e), ns, nm>>, key |-> key, id |-> id, pdp |-> pdp, payload |-> p, ts |-> t]
  BY DEF BuildIKpsk1SPA, State1, Ns, State2, Nm
<1>2. key = ResponseKey(AfterCipher(State2(id, pdp, t, e), nm))
  BY DEF ResponseKey
<1> HIDE DEF ns, nm, key
<1>3. LET b == BuildIKpsk1SPA(id, pdp, p, t, e)
      IN  /\ b.packet = <<Pub(e), ns, nm>> /\ b.key = key
          /\ b.id = id /\ b.pdp = pdp /\ b.payload = p /\ b.ts = t
  BY <1>1
<1> QED
  BY <1>2, <1>3 DEF IsBuilt, ns, nm

LEMMA BuiltNext == BuiltInv /\ [Next]_vars => BuiltInv'
<1> SUFFICES ASSUME BuiltInv, [Next]_vars PROVE BuiltInv'
  OBVIOUS
<1>1. ASSUME NEW e \in Ephemerals, NEW id \in Identities, NEW pdp \in PDPs, NEW p \in Payloads,
             NEW t \in Times, Build(e, id, pdp, p, t)
      PROVE  BuiltInv'
  <2>1. built' = [built EXCEPT ![e] = BuildIKpsk1SPA(id, pdp, p, t, e)]
    BY <1>1 DEF Build
  <2>2. built' = [f \in Ephemerals |-> IF f = e THEN BuildIKpsk1SPA(id, pdp, p, t, e) ELSE built[f]]
    BY <2>1 DEF BuiltInv
  <2>3. ASSUME NEW f \in Builds'
        PROVE  \E i \in Identities, d \in PDPs, q \in Payloads, u \in Times :
                   IsBuilt(built'[f], i, d, q, u, f)
    <3>1. CASE f = e
      <4>1. built'[f] = BuildIKpsk1SPA(id, pdp, p, t, e)
        BY <2>2, <3>1
      <4>2. IsBuilt(built'[f], id, pdp, p, t, f)
        BY <3>1, <4>1, BuildForm
      <4> QED
        BY <4>2
    <3>2. CASE f # e
      <4>1. built'[f] = built[f] /\ f \in Builds
        BY <2>2, <3>2 DEF Builds
      <4>2. \E i \in Identities, d \in PDPs, q \in Payloads, u \in Times :
                IsBuilt(built[f], i, d, q, u, f)
        BY <4>1 DEF BuiltInv
      <4> QED
        BY <4>1, <4>2
    <3> QED
      BY <3>1, <3>2
  <2> QED
    BY <2>2, <2>3 DEF BuiltInv
<1>2. CASE UNCHANGED built
  BY <1>2 DEF BuiltInv, Builds
<1> QED
  BY <1>1, <1>2 DEF Next, Arrive, OpenIKpsk1SPAHeader, CompleteIKpsk1SPA, vars

LEMMA WireNext == WireInv /\ [Next]_vars => WireInv'
<1> SUFFICES ASSUME WireInv, [Next]_vars PROVE WireInv'
  OBVIOUS
<1>1. ASSUME NEW e, NEW id, NEW pdp, NEW p, NEW t, Build(e, id, pdp, p, t) PROVE WireInv'
  BY <1>1 DEF Build, WireInv
<1>2. CASE Arrive
  <2>1. built' = built /\ \E a \in Part(1), b \in Part(2), c \in Part(3) : wire' = <<a, b, c>>
    BY <1>2 DEF Arrive
  <2>2. Part(1)' = Part(1) /\ Part(2)' = Part(2) /\ Part(3)' = Part(3)
    BY <2>1 DEF Part, Builds
  <2> QED
    BY <2>1, <2>2 DEF WireInv
<1>3. CASE UNCHANGED <<built, wire>> /\ (stage' # "build" => stage # "build")
  <2>1. Part(1)' = Part(1) /\ Part(2)' = Part(2) /\ Part(3)' = Part(3)
    BY <1>3 DEF Part, Builds
  <2> QED
    BY <1>3, <2>1 DEF WireInv
<1>4. ASSUME NEW t, OpenIKpsk1SPAHeader(t) PROVE WireInv'
  BY <1>3, <1>4 DEF OpenIKpsk1SPAHeader
<1>5. CASE CompleteIKpsk1SPA \/ UNCHANGED vars
  BY <1>3, <1>5 DEF CompleteIKpsk1SPA, vars
<1> QED
  BY <1>1, <1>2, <1>4, <1>5 DEF Next

-----------------------------------------------------------------------------
(* The two stages of the opening, in terms of what arrived. *)

Named == wire[2][5][3]
Stamp == wire[2][5][2]

HS == HeaderState(wire[1], X25519(Self, wire[1]))
HeaderGood == CanOpen(HS.k, HS.n, HS.h, wire[2]) /\ ~BadTime(Stamp, now)

PS == PayloadState(AfterCipher(HS, wire[2]), X25519(Self, Named), Registered[Named])
Good == HeaderGood /\ Registered[Named] # NoPSK /\ CanOpen(PS.k, PS.n, PS.h, wire[3])

Result == [client |-> Named, ts |-> Stamp, payload |-> wire[3][5][2],
           key |-> ResponseKey(AfterCipher(PS, wire[3]))]

OpenInv ==
    /\ stage \in {"build", "arrived"} => opened = Nothing
    /\ stage = "header" =>
         /\ opened = Nothing /\ HeaderGood
         /\ header.client = Named /\ header.ts = Stamp /\ header.s = AfterCipher(HS, wire[2])
    /\ stage = "done" => opened = IF Good THEN Result ELSE Nothing
    /\ stage \in {"build", "arrived", "header", "done"}
    /\ stage = "done" \/ stage = "header" => now \in Times

LEMMA OpenNext == OpenInv /\ [Next]_vars => OpenInv'
<1> SUFFICES ASSUME OpenInv, [Next]_vars PROVE OpenInv'
  OBVIOUS
<1>1. ASSUME NEW e, NEW id, NEW pdp, NEW p, NEW t, Build(e, id, pdp, p, t) PROVE OpenInv'
  BY <1>1 DEF Build, OpenInv
<1>2. CASE Arrive
  BY <1>2 DEF Arrive, OpenInv
<1>3. ASSUME NEW t \in Times, OpenIKpsk1SPAHeader(t) PROVE OpenInv'
  <2> DEFINE good == CanOpen(HS.k, HS.n, HS.h, wire[2]) /\ ~BadTime(Stamp, t)
  <2>1. /\ stage = "arrived" /\ now' = t /\ UNCHANGED <<wire, opened>>
        /\ header' = IF good THEN [client |-> Named, ts |-> Stamp, s |-> AfterCipher(HS, wire[2])]
                             ELSE Nothing
        /\ stage' = IF good THEN "header" ELSE "done"
    BY <1>3 DEF OpenIKpsk1SPAHeader, HS, Named, Stamp
  <2>2. HS' = HS /\ Stamp' = Stamp /\ Named' = Named
    BY <2>1 DEF HS, Stamp, Named
  <2>3. HeaderGood' <=> good
    BY <2>1, <2>2 DEF HeaderGood
  <2>4. opened = Nothing
    BY <2>1 DEF OpenInv
  <2> HIDE DEF good
  <2>5. CASE good
    <3>1. /\ header'.client = Named /\ header'.ts = Stamp /\ header'.s = AfterCipher(HS, wire[2])
          /\ stage' = "header"
      BY <2>1, <2>5
    <3> QED
      BY <2>1, <2>2, <2>3, <2>4, <2>5, <3>1 DEF OpenInv
  <2>6. CASE ~good
    <3>1. ~Good'
      BY <2>3, <2>6 DEF Good
    <3> QED
      BY <2>1, <2>4, <2>6, <3>1 DEF OpenInv
  <2> QED
    BY <2>5, <2>6
<1>4. CASE CompleteIKpsk1SPA
  <2>1. /\ stage = "header" /\ HeaderGood /\ header.client = Named /\ header.ts = Stamp
        /\ header.s = AfterCipher(HS, wire[2]) /\ now \in Times
    BY <1>4 DEF CompleteIKpsk1SPA, OpenInv
  <2>2. /\ stage' = "done" /\ UNCHANGED <<wire, now>>
        /\ opened' = IF Registered[Named] # NoPSK /\ CanOpen(PS.k, PS.n, PS.h, wire[3])
                     THEN Result ELSE Nothing
    BY <1>4, <2>1 DEF CompleteIKpsk1SPA, PS, Result
  <2>3. opened' = IF Good THEN Result ELSE Nothing
    BY <2>1, <2>2 DEF Good
  <2>4. Result' = Result /\ Good' = Good
    BY <2>2 DEF Result, Good, HeaderGood, PS, HS, Named, Stamp
  <2>5. opened' = IF Good' THEN Result' ELSE Nothing
    BY <2>3, <2>4
  <2> QED
    BY <2>1, <2>2, <2>5 DEF OpenInv
<1>5. CASE UNCHANGED vars
  <2>1. UNCHANGED <<wire, header, opened, now, stage>>
    BY <1>5 DEF vars
  <2>2. Result' = Result /\ Good' = Good /\ HeaderGood' = HeaderGood /\ HS' = HS /\ Named' = Named
        /\ Stamp' = Stamp
    BY <2>1 DEF Result, Good, HeaderGood, PS, HS, Named, Stamp
  <2> QED
    BY <2>1, <2>2 DEF OpenInv
<1> QED
  BY <1>1, <1>2, <1>3, <1>4, <1>5 DEF Next

(* What a part on the wire can be. *)
LEMMA PartForm ==
    ASSUME BuiltInv, NEW n \in 2..3, NEW c \in Part(n), c[1] = "sealed"
    PROVE  \E e \in Builds : c = built[e].packet[n]
<1>1. <<"damaged">>[1] = "damaged"
  OBVIOUS
<1>2. n # 1
  OBVIOUS
<1> QED
  BY <1>1, <1>2 DEF Part

(* A packet that was built for Self with the registered keys opens. *)
LEMMA GenuineOpens ==
    ASSUME BuiltInv, now \in Times, NEW e \in Builds, Genuine(built[e])
    PROVE  Good
<1>1. PICK id \in Identities, pdp \in PDPs, p \in Payloads, t \in Times :
          IsBuilt(built[e], id, pdp, p, t, e)
  BY DEF BuiltInv
<1> DEFINE ns == Ns(id, pdp, t, e)
           nm == Nm(id, pdp, p, t, e)
<1>2. /\ wire = <<Pub(e), ns, nm>> /\ pdp = Self /\ id.pub = Pub(id.priv)
      /\ Registered[id.pub] = id.psk /\ t - now <= Skew /\ now - t <= Skew
  BY <1>1 DEF Genuine, IsBuilt
<1>3. wire[1] = Pub(e) /\ wire[2] = ns /\ wire[3] = nm
  BY <1>2
<1>4. wire[2][5] = <<"ns", t, id.pub>>
  BY <1>3, SealedParts DEF Ns
<1>5. Stamp = t /\ Named = id.pub
  BY <1>4 DEF Stamp, Named
<1>6. HS = State1(pdp, e)
  BY <1>2, <1>3, SharedSecret DEF HS, State1
<1>7. PS = State2(id, pdp, t, e)
  <2>1. X25519(Self, Named) = X25519(id.priv, Pub(pdp))
    BY <1>2, <1>5, SharedSecret
  <2> QED
    BY <1>2, <1>3, <1>5, <1>6, <2>1 DEF PS, State2
<1>8. CanOpen(HS.k, HS.n, HS.h, wire[2]) /\ CanOpen(PS.k, PS.n, PS.h, wire[3])
  BY <1>3, <1>6, <1>7, SealedParts DEF Ns, Nm
<1>9. ~BadTime(Stamp, now)
  BY <1>2, <1>5, NoiseAssumption DEF BadTime
<1>10. Registered[Named] # NoPSK
  BY <1>2, <1>5, NoiseAssumption
<1> QED
  BY <1>8, <1>9, <1>10 DEF Good, HeaderGood

(* The chaining key under a payload names the ephemeral key, the shared    *)
(* secrets and the PSK.                                                    *)
LEMMA PayloadKeyNames ==
    ASSUME NEW p, NEW es, NEW c, NEW ss, NEW psk, NEW q, NEW et, NEW d, NEW tt, NEW psl,
           LET s == PayloadState(AfterCipher(HeaderState(p, es), c), ss, psk)
               t == PayloadState(AfterCipher(HeaderState(q, et), d), tt, psl)
           IN  s.k = t.k \/ s.ck = t.ck
    PROVE  p = q /\ es = et /\ ss = tt /\ psk = psl
<1> DEFINE a == AfterCipher(HeaderState(p, es), c)
           b == AfterCipher(HeaderState(q, et), d)
<1>1. IsState(a) /\ a.ck = hkdf(hkdf(<<"name">>, p, 1), es, 1)
  BY HeaderStateKeys, CipherState
<1>2. IsState(b) /\ b.ck = hkdf(hkdf(<<"name">>, q, 1), et, 1)
  BY HeaderStateKeys, CipherState
<1>3. PayloadState(a, ss, psk).k = PayloadState(b, tt, psl).k
      \/ PayloadState(a, ss, psk).ck = PayloadState(b, tt, psl).ck
  OBVIOUS
<1> HIDE DEF a, b
<1>4. PICK n \in {1, 3} :
          hkdf(hkdf(a.ck, ss, 1), <<"psk", psk>>, n) = hkdf(hkdf(b.ck, tt, 1), <<"psk", psl>>, n)
  <2>1. /\ PayloadState(a, ss, psk).ck = hkdf(hkdf(a.ck, ss, 1), <<"psk", psk>>, 1)
        /\ PayloadState(a, ss, psk).k = hkdf(hkdf(a.ck, ss, 1), <<"psk", psk>>, 3)
    BY <1>1, PayloadStateKeys
  <2>2. /\ PayloadState(b, tt, psl).ck = hkdf(hkdf(b.ck, tt, 1), <<"psk", psl>>, 1)
        /\ PayloadState(b, tt, psl).k = hkdf(hkdf(b.ck, tt, 1), <<"psk", psl>>, 3)
    BY <1>2, PayloadStateKeys
  <2> QED
    BY <1>3, <2>1, <2>2
<1>5. hkdf(a.ck, ss, 1) = hkdf(b.ck, tt, 1) /\ <<"psk", psk>> = <<"psk", psl>>
  BY <1>4, KdfInjective
<1>6. a.ck = b.ck /\ ss = tt /\ psk = psl
  BY <1>5, KdfInjective
<1>7. hkdf(<<"name">>, p, 1) = hkdf(<<"name">>, q, 1) /\ es = et
  BY <1>1, <1>2, <1>6, KdfInjective
<1> QED
  BY <1>6, <1>7, KdfInjective

(* What opens is all one packet, and the two states of its builder are the *)
(* ones the PDP has reached.                                               *)
LEMMA OpenedIsGenuine ==
    ASSUME BuiltInv, WireInv, now \in Times, stage # "build", Good
    PROVE  \E e \in Builds, id \in Identities, p \in Payloads, t \in Times :
               /\ IsBuilt(built[e], id, Self, p, t, e) /\ Genuine(built[e])
               /\ PS = State2(id, Self, t, e) /\ wire = built[e].packet
<1>1. wire[2][1] = "sealed" /\ wire[2][2] = HS.k /\ wire[3][1] = "sealed" /\ wire[3][2] = PS.k
  BY DEF Good, HeaderGood, CanOpen
<1>2. PICK a \in Part(1), b \in Part(2), c \in Part(3) : wire = <<a, b, c>>
  BY DEF WireInv
<1>3. wire[1] = a /\ wire[2] = b /\ wire[3] = c
  BY <1>2
<1>4. PICK e \in Builds : wire[2] = built[e].packet[2]
  <2>1. 2 \in 2..3 /\ wire[2] \in Part(2)
    BY <1>2, <1>3
  <2> QED
    BY <1>1, <2>1, PartForm
<1>5. PICK f \in Builds : wire[3] = built[f].packet[3]
  <2>1. 3 \in 2..3 /\ wire[3] \in Part(3)
    BY <1>2, <1>3
  <2> QED
    BY <1>1, <2>1, PartForm
<1>6. PICK id \in Identities, pdp \in PDPs, p \in Payloads, t \in Times :
          IsBuilt(built[e], id, pdp, p, t, e)
  BY DEF BuiltInv
<1>7. PICK jd \in Identities, qdp \in PDPs, q \in Payloads, u \in Times :
          IsBuilt(built[f], jd, qdp, q, u, f)
  BY DEF BuiltInv
<1>8. wire[2] = Ns(id, pdp, t, e) /\ wire[3] = Nm(jd, qdp, q, u, f)
  BY <1>4, <1>5, <1>6, <1>7 DEF IsBuilt
<1>9. HS.k = State1(pdp, e).k /\ PS.k = State2(jd, qdp, u, f).k /\ wire[2][5] = <<"ns", t, id.pub>>
  BY <1>1, <1>8, SealedParts DEF Ns, Nm
<1>10. Stamp = t /\ Named = id.pub
  BY <1>9 DEF Stamp, Named
(* The header's key: the ephemeral key and the PDP. *)
<1>11. wire[1] = Pub(e) /\ X25519(Self, wire[1]) = X25519(e, Pub(pdp))
  <2> DEFINE x == X25519(Self, wire[1])
             y == X25519(e, Pub(pdp))
             ca == hkdf(<<"name">>, wire[1], 1)
             cb == hkdf(<<"name">>, Pub(e), 1)
  <2>1. HS.k = hkdf(ca, x, 2)
    BY HeaderStateKeys DEF HS
  <2>2. State1(pdp, e).k = hkdf(cb, y, 2)
    BY HeaderStateKeys DEF State1
  <2> HIDE DEF x, y, ca, cb
  <2>3. hkdf(ca, x, 2) = hkdf(cb, y, 2)
    BY <1>9, <2>1, <2>2
  <2>4. ca = cb /\ x = y
    BY <2>3, KdfInjective
  <2>5. wire[1] = Pub(e)
    BY <2>4, KdfInjective DEF ca, cb
  <2> QED
    BY <2>4, <2>5 DEF x, y
<1>12. pdp = Self
  <2>1. X25519(Self, Pub(e)) = X25519(e, Pub(pdp))
    BY <1>11
  <2> QED
    BY <2>1, SharedSecret
<1>13. HS = State1(pdp, e)
  BY <1>11 DEF HS, State1
(* The payload's key: the same packet, the client's keys and the PSK. *)
<1>14. /\ wire[1] = Pub(f) /\ X25519(Self, Named) = X25519(jd.priv, Pub(qdp))
       /\ Registered[Named] = jd.psk
  <2>1. PayloadState(AfterCipher(HeaderState(wire[1], X25519(Self, wire[1])), wire[2]),
                     X25519(Self, Named), Registered[Named]).k
        = PayloadState(AfterCipher(HeaderState(Pub(f), X25519(f, Pub(qdp))), Ns(jd, qdp, u, f)),
                       X25519(jd.priv, Pub(qdp)), jd.psk).k
    BY <1>9 DEF PS, HS, State1, State2
  <2> QED
    BY <2>1, PayloadKeyNames
<1>15. e = f
  BY <1>11, <1>14, PubInjective
<1>16. jd = id /\ qdp = pdp /\ q = p /\ u = t
  BY <1>6, <1>7, <1>15 DEF IsBuilt
<1>17. id.pub = Pub(id.priv)
  <2>1. id.pub = Pub(id.pub[2])
    BY NoiseAssumption
  <2>2. X25519(Self, Pub(id.pub[2])) = X25519(id.priv, Pub(Self))
    BY <1>10, <1>12, <1>14, <1>16, <2>1
  <2>3. id.pub[2] = id.priv
    BY <2>2, SharedSecret
  <2> QED
    BY <2>1, <2>3
<1>18. wire = built[e].packet
  <2>1. wire = <<wire[1], wire[2], wire[3]>>
    BY <1>2, <1>3
  <2>2. built[e].packet = <<Pub(e), Ns(id, pdp, t, e), Nm(id, pdp, p, t, e)>>
    BY <1>6 DEF IsBuilt
  <2> QED
    BY <1>8, <1>11, <1>15, <1>16, <2>1, <2>2
<1>19. PS = State2(id, Self, t, e)
  BY <1>8, <1>10, <1>12, <1>13, <1>14, <1>16 DEF PS, State2
<1>20. Genuine(built[e])
  <2>1. built[e].id = id /\ built[e].pdp = Self /\ built[e].ts = t
    BY <1>6, <1>12 DEF IsBuilt
  <2>2. t - now <= Skew /\ now - t <= Skew
    <3>1. ~BadTime(t, now) /\ t \in Int /\ now \in Int /\ Skew \in Int
      BY <1>10, NoiseAssumption DEF Good, HeaderGood
    <3> QED
      BY <3>1 DEF BadTime
  <2>3. Registered[id.pub] = id.psk
    BY <1>10, <1>14, <1>16
  <2> QED
    BY <1>17, <1>18, <2>1, <2>2, <2>3 DEF Genuine
<1> QED
  BY <1>6, <1>12, <1>18, <1>19, <1>20

-----------------------------------------------------------------------------
(* The theorems. *)

NoiseInv == BuiltInv /\ WireInv /\ OpenInv

LEMMA NoiseInvariance == Spec => []NoiseInv
<1>1. Init => NoiseInv
  <2> SUFFICES ASSUME Init PROVE NoiseInv
    OBVIOUS
  <2>1. built = [e \in Ephemerals |-> built[e]] /\ Builds = {}
    BY DEF Init, Builds
  <2> QED
    BY <2>1 DEF Init, NoiseInv, BuiltInv, WireInv, OpenInv
<1>2. NoiseInv /\ [Next]_vars => NoiseInv'
  BY BuiltNext, WireNext, OpenNext DEF NoiseInv
<1> QED
  BY <1>1, <1>2, PTL DEF Spec

LEMMA ResultIsResult == Sentinel => Result # Nothing
<1>1. "client" \in DOMAIN Result
  BY DEF Result
<1> QED
  BY <1>1 DEF Sentinel

(* A packet opens exactly when it is one client's packet for this PDP,     *)
(* whole, in time, and built with the keys and the PSK that are registered *)
(* (BuildIKpsk1SPA, OpenIKpsk1SPAHeader, CompleteIKpsk1SPA).               *)
THEOREM ExactlyGenuine == Sentinel /\ Spec => []OpensExactlyGenuine
<1> SUFFICES ASSUME Sentinel PROVE Spec => []OpensExactlyGenuine
  OBVIOUS
<1>1. NoiseInv => OpensExactlyGenuine
  <2> SUFFICES ASSUME NoiseInv, stage = "done"
               PROVE  opened # Nothing <=> \E e \in Builds : Genuine(built[e])
    BY DEF OpensExactlyGenuine
  <2>1. BuiltInv /\ WireInv /\ now \in Times /\ opened = IF Good THEN Result ELSE Nothing
    BY DEF NoiseInv, OpenInv
  <2>2. opened # Nothing <=> Good
    BY <2>1, ResultIsResult
  <2>3. Good => \E e \in Builds : Genuine(built[e])
    BY <2>1, OpenedIsGenuine
  <2>4. (\E e \in Builds : Genuine(built[e])) => Good
    BY <2>1, GenuineOpens
  <2> QED
    BY <2>2, <2>3, <2>4
<1> QED
  BY <1>1, NoiseInvariance, PTL

(* Both sides agree on client, time stamp and payload, and the response    *)
(* decrypts for the builder of the packet that was opened and for no other *)
(* (split, EncryptResponse, DecryptResponse).                              *)
THEOREM BothSidesAgree == Sentinel /\ Spec => []SidesAgree
<1> SUFFICES ASSUME Sentinel PROVE Spec => []SidesAgree
  OBVIOUS
<1>1. NoiseInv => SidesAgree
  <2> SUFFICES ASSUME NoiseInv, opened # Nothing, NEW f \in Builds
               PROVE  IF built[f].packet = wire
                      THEN /\ <<opened.client, opened.ts, opened.payload>>
                                = <<built[f].id.pub, built[f].ts, built[f].payload>>
                           /\ Decrypts(built[f].key, Response(opened.key))
                      ELSE ~Decrypts(built[f].key, Response(opened.key))
    BY DEF SidesAgree
  <2>1. /\ BuiltInv /\ WireInv /\ stage = "done" /\ now \in Times
        /\ opened = IF Good THEN Result ELSE Nothing
    BY DEF NoiseInv, OpenInv
  <2>2. Good /\ opened = Result
    BY <2>1
  <2>3. PICK e \in Builds, id \in Identities, p \in Payloads, t \in Times :
            /\ IsBuilt(built[e], id, Self, p, t, e)
            /\ PS = State2(id, Self, t, e) /\ wire = built[e].packet
    BY <2>1, <2>2, OpenedIsGenuine
  <2>4. PICK jd \in Identities, qdp \in PDPs, q \in Payloads, u \in Times :
            IsBuilt(built[f], jd, qdp, q, u, f)
    BY <2>1 DEF BuiltInv
  <2>5. wire = <<Pub(e), Ns(id, Self, t, e), Nm(id, Self, p, t, e)>>
    BY <2>3 DEF IsBuilt
  <2>6. built[f].packet[1] = Pub(f) /\ wire[1] = Pub(e)
    BY <2>4, <2>5 DEF IsBuilt
  <2>7. built[f].packet = wire => f = e
    BY <2>6, PubInjective
  <2>8. Decrypts(built[f].key, Response(opened.key)) <=> built[f].key = opened.key
    BY DEF Decrypts, Response, CanOpen, Seal
  <2>9. opened.key = ResponseKey(AfterCipher(PS, wire[3]))
    BY <2>2 DEF Result
  <2>10. CASE built[f].packet = wire
    <3>1. e = f /\ IsBuilt(built[f], id, Self, p, t, f)
      BY <2>3, <2>7, <2>10
    <3>2. wire[2] = Ns(id, Self, t, e) /\ wire[3] = Nm(id, Self, p, t, e)
      BY <2>5
    <3>3. wire[2][5] = <<"ns", t, id.pub>> /\ wire[3][5] = <<"payload", p>>
      BY <3>2, SealedParts DEF Ns, Nm
    <3>4. opened.client = id.pub /\ opened.ts = t /\ opened.payload = p
      BY <2>2, <3>3 DEF Result, Named, Stamp
    <3>5. built[f].id.pub = id.pub /\ built[f].ts = t /\ built[f].payload = p
      BY <3>1 DEF IsBuilt
    <3>6. built[f].key = opened.key
      BY <2>3, <2>9, <3>1, <3>2 DEF IsBuilt
    <3> QED
      BY <2>8, <2>10, <3>4, <3>5, <3>6
  <2>11. CASE built[f].packet # wire
    <3>1. f # e
      BY <2>3, <2>11
    <3> DEFINE s == State2(id, Self, t, e)
               r == State2(jd, qdp, u, f)
               nm == Nm(jd, qdp, q, u, f)
    <3>2. IsState(s) /\ IsState(r)
      BY HeaderStateKeys, CipherState, PayloadStateKeys DEF State1, State2
    <3>3. built[f].key = ResponseKey(AfterCipher(r, nm)) /\ opened.key = ResponseKey(AfterCipher(s, wire[3]))
      BY <2>3, <2>4, <2>9 DEF IsBuilt
    <3>4. s.ck = r.ck => e = f
      <4>1. s.ck = r.ck => Pub(e) = Pub(f)
        BY PayloadKeyNames DEF State1, State2
      <4> QED
        BY <4>1, PubInjective
    <3> HIDE DEF s, r, nm
    <3>5. AfterCipher(r, nm).ck = r.ck /\ AfterCipher(s, wire[3]).ck = s.ck
      BY <3>2, CipherState
    <3>6. built[f].key = hkdf(r.ck, Nothing, 2) /\ opened.key = hkdf(s.ck, Nothing, 2)
      BY <3>3, <3>5 DEF ResponseKey, split
    <3>7. built[f].key # opened.key
      BY <3>1, <3>4, <3>6, KdfInjective
    <3> QED
      BY <2>8, <2>11, <3>7
  <2> QED
    BY <2>10, <2>11
<1> QED
  BY <1>1, NoiseInvariance, PTL
=============================================================================
