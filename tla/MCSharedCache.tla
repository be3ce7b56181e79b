--------------------------- MODULE MCSharedCache ---------------------------
(* Two backends and two keys, one payload that fits and one that does   *)
(* not.                                                                    *)
EXTENDS SharedCache

CONSTANTS b1, b2, k1, k2, v1, big

MCBackends == {b1, b2}
MCKeys == {k1, k2}
MCValues == {v1, big}

MCOversize == {big}

====
