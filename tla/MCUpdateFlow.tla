---------------------------- MODULE MCUpdateFlow ----------------------------
(* UpdateFlow with a few versions and feeds for TLC.                          *)
EXTENDS UpdateFlow

V(base, pre) == [base |-> base, pre |-> pre]
Beta(n) == <<<<1, 1>>, <<0, n>>>>
SmallVersions == {V(1, <<>>), V(1, Beta(1)), V(2, <<>>)}

SmallStarted == {V(1, <<>>), V(1, Beta(1))}

Feed(npm, unstable, release, tag) == [npm |-> npm, unstable |-> unstable, release |-> release, tag |-> tag]
SmallFeeds == {Feed(V(1, <<>>), V(1, Beta(1)), NoVersion, V(1, <<>>)),
               Feed(V(2, <<>>), V(1, Beta(1)), V(1, <<>>), NoVersion)}
=============================================================================
