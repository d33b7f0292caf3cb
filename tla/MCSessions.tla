----------------------------- MODULE MCSessions -----------------------------
(* Values of the runs of module Sessions. *)
EXTENDS Sessions

Scene(home, users, asks, m, d) ==
    [home |-> home, users |-> users, asks |-> asks, loaded |-> TRUE, legacy |-> FALSE,
     mutations |-> m, disturbances |-> d]
MCScenes == {
    \* two pages of one browser: one of them is used, things go wrong
    Scene(<<1, 1>>, {1}, {"login", "logout", "change"}, 1, 1),
    \* both are used
    Scene(<<1, 1>>, {1, 2}, {"login", "logout"}, 2, 0),
    \* one page
    Scene(<<1>>, {1}, {"login", "logout", "change"}, 2, 1),
    \* pages of two browsers
    Scene(<<1, 2>>, {1, 2}, {"login", "change"}, 2, 1),
    \* a page whose user's password is set by others
    [Scene(<<1>>, {1}, {"change", "setup", "set", "authorise"}, 2, 1) EXCEPT !.loaded = FALSE],
    \* three requests of others
    Scene(<<1>>, {}, {"setup", "set", "authorise"}, 3, 0),
    \* the first logins after the old hashes were imported
    [Scene(<<1>>, {1}, {"login", "set"}, 2, 1) EXCEPT !.legacy = TRUE]}
=============================================================================
