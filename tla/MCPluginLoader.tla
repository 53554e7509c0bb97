--------------------------- MODULE MCPluginLoader ---------------------------
(* A small instance of PluginLoader for TLC: a command runs next to an       *)
(* update of the same project, or next to a forced update of another project *)
(* of the user, without a lock file or with one that its constraint          *)
(* excludes, or while the plugin is added there.                             *)
EXTENDS PluginLoader, TLC

CONSTANTS a, b, here, there

AllJobs == (a :> {<<"other", here>>}) @@ (b :> {<<"update", here>>, <<"force", there>>, <<"add", there>>})

Both(h, t) == (here :> h) @@ (there :> t)
Git(l, A) == [lock |-> l, allowed |-> A]

\* No lock, then a lock, and in the other project one that the constraint excludes.
Clones == {Both(Git(None, {1, 2, 3}), Git(None, {1})), Both(Git(1, {1, 2, 3}), Git(1, {2}))}

\* The release of version 3, which is in the cache, has been withdrawn.
Releases == (1 :> "asset") @@ (2 :> "source") @@ (3 :> "missing")
=============================================================================
