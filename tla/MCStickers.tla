----------------------------- MODULE MCStickers -----------------------------
(* Small instances of Stickers for TLC. *)
EXTENDS Stickers, TLC

CONSTANTS i1, i2, f1, f2, r1, r2

\* The two files differ only where the fingerprint does not look.
Alike == [f \in {f1, f2} |-> 1]

\* The two files differ in their fingerprints.
Different == [f \in {f1, f2} |-> f]

Symmetry == Permutations({i1, i2}) \cup Permutations({f1, f2}) \cup Permutations({r1, r2})
=============================================================================
