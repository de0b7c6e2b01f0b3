------------------------------- MODULE Noise -------------------------------
(***************************************************************************)
(* The single-packet authorization handshake (common/noiseutil): a client  *)
(* builds a packet of three parts, the PDP opens the header, completes the *)
(* opening with the PSK the PIP has for the client the header names, and   *)
(* answers under a key both have derived.                                  *)
(*                                                                         *)
(* Cryptography is symbolic: a key, hash or ciphertext is the term that    *)
(* computes it, so that equal means computed from equal inputs, and a      *)
(* ciphertext opens under its own key, nonce and associated data only.     *)
(* Every term is a tuple that starts with its kind.                        *)
(***************************************************************************)
EXTENDS Integers, Sequences

CONSTANTS
    Identities,     \* client identity files: [priv, pub, psk]
    PDPs,           \* static private keys of PDPs; one of them opens
    Self,           \* the opening PDP's
    Registered,     \* the PIP's PSK for a client's public key, NoPSK if unknown
    NoPSK,
    Payloads, Times,
    Skew,           \* allowedSkew
    Nothing,
    Ephemerals      \* one ephemeral private key per packet built

VARIABLES
    built,          \* ephemeral -> BuildResult with its inputs, or Nothing
    wire,           \* the packet that arrives
    header,         \* OpenHeaderResult
    opened,         \* OpenResult
    now,            \* the PDP's clock when it opened the header
    stage           \* "build", "arrived", "header", "done"

vars == <<built, wire, header, opened, now, stage>>

(* Primitives: X25519, SHA-256, HKDF and AES-GCM. *)
Pub(priv)      == <<"pub", priv>>
X25519(priv, pub) == <<"dh", {priv, pub[2]}>>
Hash(h, data)  == <<"hash", h, data>>
hkdf(ck, input, n) == <<"kdf", n, ck, input>>
Seal(k, n, ad, plain) == <<"sealed", k, n, ad, plain>>
CanOpen(k, n, ad, c) == c[1] = "sealed" /\ c[2] = k /\ c[3] = n /\ c[4] = ad

(* An identity file holds some public key, perhaps not its own, and a PSK. *)
ASSUME NoiseAssumption ==
    /\ \A id \in Identities : id.pub = Pub(id.pub[2]) /\ id.psk # NoPSK
    /\ "damaged" \notin Ephemerals /\ Times \subseteq Int /\ Skew \in Int

(* symmetricState. *)
newSymmetricState == [ck |-> <<"name">>, h |-> <<"name">>, k |-> Nothing, n |-> 0]

mixHash(s, data) == [s EXCEPT !.h = Hash(@, data)]

mixKey(s, input) == [s EXCEPT !.ck = hkdf(s.ck, input, 1), !.k = hkdf(s.ck, input, 2), !.n = 0]

(* Mutant: the input is mixed into the hash but not into the keys. *)
BugNotMixed(s, input) == mixHash(s, <<"label">>)

mixKeyAndHash(s, input) ==
    [mixHash(s, hkdf(s.ck, input, 2)) EXCEPT
        !.ck = hkdf(s.ck, input, 1), !.k = hkdf(s.ck, input, 3), !.n = 0]

Encrypted(s, plain) == Seal(s.k, s.n, s.h, plain)

(* encryptAndHash and decryptAndHash leave the same state behind. *)
AfterCipher(s, cipher) == mixHash([s EXCEPT !.n = @ + 1], cipher)

split(s) == <<hkdf(s.ck, Nothing, 1), hkdf(s.ck, Nothing, 2)>>

(* e and es: both sides reach this state before the ns part. *)
HeaderState(ePub, es) == mixKey(mixKey(mixHash(newSymmetricState, ePub), ePub), es)

(* ss and psk, before the nm part. *)
PayloadState(s, ss, psk) == mixKeyAndHash(mixKey(s, ss), <<"psk", psk>>)

-----------------------------------------------------------------------------
(* BuildIKpsk1SPA; pdp is the private key behind the PDP key configured. *)
BuildIKpsk1SPA(id, pdp, payload, time, e) ==
    LET s1 == HeaderState(Pub(e), X25519(e, Pub(pdp)))
        ns == Encrypted(s1, <<"ns", time, id.pub>>)
        s2 == PayloadState(AfterCipher(s1, ns), X25519(id.priv, Pub(pdp)), id.psk)
        nm == Encrypted(s2, <<"payload", payload>>)
    IN  [packet |-> <<Pub(e), ns, nm>>, key |-> split(AfterCipher(s2, nm))[2],
         id |-> id, pdp |-> pdp, payload |-> payload, ts |-> time]

Init ==
    /\ built = [e \in Ephemerals |-> Nothing]
    /\ wire = Nothing /\ header = Nothing /\ opened = Nothing
    /\ now = 0 /\ stage = "build"

Build(e, id, pdp, payload, time) ==
    /\ stage = "build" /\ built[e] = Nothing
    /\ built' = [built EXCEPT ![e] = BuildIKpsk1SPA(id, pdp, payload, time, e)]
    /\ UNCHANGED <<wire, header, opened, now, stage>>

Builds == {e \in Ephemerals : built[e] # Nothing}

(* A packet arrives; some of its parts may be damaged on the way, or have  *)
(* been taken for those of another packet.                                 *)
Part(n) == {built[e].packet[n] : e \in Builds} \cup
           {IF n = 1 THEN Pub("damaged") ELSE <<"damaged">>}

Arrive ==
    /\ stage = "build" /\ Builds # {}
    /\ \E a \in Part(1), b \in Part(2), c \in Part(3) : wire' = <<a, b, c>>
    /\ stage' = "arrived"
    /\ UNCHANGED <<built, header, opened, now>>

BadTime(ts, time) == time - ts > Skew \/ ts - time > Skew

OpenIKpsk1SPAHeader(time) ==
    LET s == HeaderState(wire[1], X25519(Self, wire[1]))
        plain == wire[2][5]
        good == CanOpen(s.k, s.n, s.h, wire[2]) /\ ~BadTime(plain[2], time)
    IN  /\ stage = "arrived"
        /\ now' = time
        /\ header' = IF good THEN [client |-> plain[3], ts |-> plain[2], s |-> AfterCipher(s, wire[2])]
                             ELSE Nothing
        /\ stage' = IF good THEN "header" ELSE "done"
        /\ UNCHANGED <<built, wire, opened>>

(* Mutant: the key of the other direction. *)
BugOtherDirection(s) == split(s)[1]

ResponseKey(s) == split(s)[2]

(* CompleteIKpsk1SPA, with the PSK that fetchClient got, if any. *)
CompleteIKpsk1SPA ==
    LET psk == Registered[header.client]
        s == PayloadState(header.s, X25519(Self, header.client), psk)
    IN  /\ stage = "header"
        /\ stage' = "done"
        /\ opened' = IF psk # NoPSK /\ CanOpen(s.k, s.n, s.h, wire[3])
                     THEN [client |-> header.client, ts |-> header.ts, payload |-> wire[3][5][2],
                           key |-> ResponseKey(AfterCipher(s, wire[3]))]
                     ELSE Nothing
        /\ UNCHANGED <<built, wire, header, now>>

Next ==
    \/ \E e \in Ephemerals, id \in Identities, pdp \in PDPs, p \in Payloads, t \in Times :
           Build(e, id, pdp, p, t)
    \/ Arrive
    \/ \E t \in Times : OpenIKpsk1SPAHeader(t)
    \/ CompleteIKpsk1SPA

Spec == Init /\ [][Next]_vars

-----------------------------------------------------------------------------
(* What the handshake promises, without its construction. *)
Genuine(b) ==
    /\ b.packet = wire
    /\ b.pdp = Self /\ b.id.pub = Pub(b.id.priv)
    /\ Registered[b.id.pub] = b.id.psk
    /\ b.ts - now <= Skew /\ now - b.ts <= Skew

(* EncryptResponse and DecryptResponse: nonce 0, no associated data. *)
Response(key) == Seal(key, 0, Nothing, <<"response">>)
Decrypts(key, c) == CanOpen(key, 0, Nothing, c)

(* PROPERTY.  A packet opens exactly when all its parts are one client's   *)
(* packet for this PDP, built with the key and PSK that the PIP knows and  *)
(* within the skew: damaged parts, parts of different packets, another     *)
(* PDP's packet, a wrong PSK and a key that is not the identity's own are  *)
(* all refused at one of the two stages (BuildIKpsk1SPA,                   *)
(* OpenIKpsk1SPAHeader, CompleteIKpsk1SPA).                                *)
OpensExactlyGenuine ==
    stage = "done" =>
        (opened # Nothing <=> \E e \in Builds : Genuine(built[e]))

(* PROPERTY.  Both sides agree on client, time stamp and payload, and the  *)
(* response decrypts for the builder of this packet and for no other       *)
(* (split, EncryptResponse, DecryptResponse).                              *)
SidesAgree ==
    opened # Nothing => \A e \in Builds :
        LET b == built[e]
        IN  IF b.packet = wire
            THEN /\ <<opened.client, opened.ts, opened.payload>> = <<b.id.pub, b.ts, b.payload>>
                 /\ Decrypts(b.key, Response(opened.key))
            ELSE ~Decrypts(b.key, Response(opened.key))
=============================================================================
