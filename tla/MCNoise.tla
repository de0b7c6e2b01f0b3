------------------------------ MODULE MCNoise ------------------------------
(***************************************************************************)
(* Two registered clients, one with an outdated PSK in its file, one whose *)
(* file holds a public key that is not its own, and an unknown one.        *)
(***************************************************************************)
EXTENDS Noise

Id(priv, pub, psk) == [priv |-> priv, pub |-> Pub(pub), psk |-> psk]

TheIdentities == {Id("a", "a", "ka"), Id("b", "b", "old"), Id("a", "b", "kb"), Id("u", "u", "ku")}
TheRegistered == [k \in {Pub("a"), Pub("b"), Pub("u")} |->
                      CASE k[2] = "a" -> "ka" [] k[2] = "b" -> "kb" [] OTHER -> NoPSK]
TheTimes == {0, 1, 3}
=============================================================================
