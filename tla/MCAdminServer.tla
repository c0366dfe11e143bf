---------------------------- MODULE MCAdminServer ----------------------------
(* Values for the constants of AdminServer in the runs of TLC.               *)
EXTENDS AdminServer

Make(v, id, draft, prerelease, assets) ==
    [version |-> v, id |-> id, draft |-> draft, prerelease |-> prerelease, assets |-> assets]

Running == <<0, 10, 0>>

\* A newer release, a preview of a newer one, and one whose number has fewer digits.
Listed == {Make(<<0, 11, 0>>, 1, FALSE, FALSE, TRUE), Make(<<1, 0, 0>>, 2, FALSE, TRUE, TRUE),
           Make(<<0, 9, 1>>, 3, FALSE, FALSE, TRUE)}
=============================================================================
