------------------------------ MODULE MCNormalizer ------------------------------
(* Model-checking instance of Normalizer. *)
EXTENDS Normalizer

CONSTANTS p1, p2, bad

MCBundles == {{}, {p1}, {p1, p2}, Garbled}

(* Every delivery is about a project that may be opted in. *)
MCProjectOf(d) == p1
=================================================================================
