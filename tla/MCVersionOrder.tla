----------------------------- MODULE MCVersionOrder -----------------------------
(* VersionOrder for TLC: short versions over the parts and characters whose   *)
(* order is not that of their bytes.                                          *)
EXTENDS VersionOrder

Strings(C) == UNION {[1..n -> C] : n \in 1..2}
Prereleases == UNION {[1..n -> {"0", "1", "a"}] : n \in 0..2}

Universe == [semver |-> {[core |-> c, pre |-> p] : c \in {<<1>>, <<1, 0>>, <<1, 0, 1>>},
                                                  p \in Prereleases},
             maven |-> Strings({"alpha", "rc", "0", "1", "sp", "a"}),
             calver |-> {<<y>> : y \in 1..2} \union [1..2 -> 1..2] \union [1..3 -> 1..2],
             rpm |-> Strings({"0", "1", "a", ".", "~"}),
             debian |-> {s \in Strings({"0", "1", "a", "-", "~"}) : s[1] # "-"},
             generic |-> Strings({"0", "1", "a", ".", "~"})]
===============================================================================
