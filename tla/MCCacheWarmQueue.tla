-------------------------- MODULE MCCacheWarmQueue --------------------------
(* Two Projects: the first has two Scenes, a root and a Model, the second a *)
(* Scene.  The first Scene is written twice, every other target once.       *)
EXTENDS CacheWarmQueue

CONSTANTS p, q, a, b, d, root, model

MCProjectOf == [t \in Targets |-> IF t = d THEN q ELSE p]

MCMaxWrites == [t \in Targets |-> IF t = a THEN 2 ELSE 1]

Edit(targets) == [gone |-> {}, todo |-> targets, undo |-> {}]

MCRank ==
  [t \in Targets |-> CASE t = model -> 1 [] t = root -> 2 [] t = a -> 3 [] t = b -> 4 [] t = d -> 5]

\* Edits of one Project at large and of the other, the deletion of a Scene, and two
\* switches: to a branch without the second Scene, and one that fails at once.
MCWrites ==
  {Edit({a, b, root, model}), Edit({a}), Edit({d}),
   [gone |-> {a}, todo |-> {root}, undo |-> {}],
   [gone |-> {b}, todo |-> {a}, undo |-> {a, b, root}],
   [gone |-> {a, root}, todo |-> {}, undo |-> {}]}
=============================================================================
