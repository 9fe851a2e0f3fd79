----------------------------- MODULE MCMigrator -----------------------------
(* Small instances of Migrator: the constants' values are chosen here and   *)
(* named in the .cfg files.                                                  *)
EXTENDS Migrator, TLC

CONSTANTS r1, r2, f1, f2

Three == 1..3
Four == 1..4

\* Every runner loaded the same files, or one runs an older deployment.
SameSets == [r \in Runners |-> Versions]
OlderSet == r1 :> Versions @@ r2 :> Versions \ {3}

\* One runner applies what was reviewed, in stages; one is as deployed before and
\* validates by hand.
UpKinds == r1 :> {"upVersions", "upStaged"} @@ r2 :> {"up", "upVersions", "validate"}
\* One runner applies in stages while another applies and reverts.
DownKinds == r1 :> {"upStaged"} @@ r2 :> {"up", "down"}

\* The second file adds a foreign key, or two nothing else tells apart.
FkOfTwo == [v \in Versions |-> IF v = 2 THEN {f1} ELSE {}]
FksOfTwo == [v \in Versions |-> IF v = 2 THEN {f1, f2} ELSE {}]
EitherFk == Permutations({f1, f2})

\* Every step renders, or a down step of the third file and an up step of the
\* fourth do not.
Renders == [up |-> {}, down |-> {}]
SomeDoNot == [up |-> {4}, down |-> {3}]
=============================================================================
