----------------------------- MODULE MCApplicant -----------------------------
(* Small instances of Applicant for TLC. *)
EXTENDS Applicant, TLC

\* One bank for every group, or one question of its own for each of the two.
Shared == [g \in Groups |-> Questions]
Own == {b \in [Groups -> {{q} : q \in Questions}] : \A g, h \in Groups : b[g] = b[h] => g = h}

\* One group and the replies that matter in one; two groups and those that matter across them.
Alone(sends, meets) == [joins : {{g} : g \in Groups}, sends : {sends}, meets : {meets}, bank : {Shared}]
Both(sends, meets, banks) == [joins : {Groups}, sends : {sends}, meets : {meets}, bank : banks]
Trouble == {"overlap", "expiry", "crash", "fault"}
Applicants ==
  UNION {Alone({"wrong", kind}, {"overlap", "fault"}) : kind \in {"sample", "mixed", "kernel", "declared"}}
    \cup Alone({"wrong", "undated"}, Trouble \ {"overlap"}) \cup Alone({"press"}, Trouble)
    \cup Both({"declared", "answer"}, {}, {Shared} \cup Own)
    \cup Both({"agent"}, {"overlap"}, {Shared})
Answerers == Both({"declared", "answer"}, {}, Own)
Pressers == Alone({"press"}, {"fault"})
Symmetric == Permutations(Groups) \cup Permutations(Questions) \cup Permutations(Workers)
=============================================================================
