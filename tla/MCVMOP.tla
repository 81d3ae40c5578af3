------------------------------- MODULE MCVMOP -------------------------------
(***************************************************************************)
(* Instances of VMOP for TLC: the operations users ask for in each run.    *)
(***************************************************************************)
EXTENDS VMOP

K(t, f) == [type |-> t, force |-> f]

\* power operations that supersede each other, and ones that do not
Settling == {K("Start", FALSE)} \cup {K(t, f) : t \in {"Stop", "Restart"}, f \in BOOLEAN}

\* a migration and what supersedes it
MigrationKinds == {K("Migrate", FALSE), K("Stop", FALSE)}

OnlyMigrate == {K("Migrate", FALSE)}
=============================================================================
