----------------------------- MODULE MCStaticTf -----------------------------
(* Small instances of the static TF audit for TLC. *)
EXTENDS StaticTfAudit, TLC, Sequences

CONSTANTS f1, f2, f3, v1, o1, o2

MCFrames == {f1, f2, f3}
MCValues == {v1}
MCOwners == {o1, o2}
Interchangeable ==
  Permutations(Frames) \cup Permutations(Values) \cup Permutations(Owners)
=============================================================================
