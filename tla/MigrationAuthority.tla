------------------------- MODULE MigrationAuthority -------------------------
(***************************************************************************)
(* MigrationState: which endpoint of a migration may write, phase by       *)
(* phase.  The identifiers are fixed for the life of a state, and its      *)
(* generation, which only counts transitions, is left out.  The durable    *)
(* journal of module Migration is shown to follow this machine.            *)
(***************************************************************************)
VARIABLES phase, source_writer, target_writer

authorityVars == <<phase, source_writer, target_writer>>

New == phase = "Planned" /\ source_writer = TRUE /\ target_writer = FALSE

Step(from, to, source, target) ==
    /\ phase \in from
    /\ phase' = to /\ source_writer' = source /\ target_writer' = target

FenceSource == Step({"Planned"}, "SourceFenced", FALSE, target_writer)
BeginCopy == Step({"SourceFenced"}, "Copying", source_writer, target_writer)
VerifyCopy == Step({"Copying"}, "CutoverReady", source_writer, target_writer)
ActivateTarget == ~source_writer /\ Step({"CutoverReady"}, "TargetActive", source_writer, TRUE)
FenceTarget == Step({"TargetActive"}, "TargetFenced", source_writer, FALSE)

Rollback ==
    /\ ~target_writer
    /\ Step({"SourceFenced", "Copying", "CutoverReady", "TargetFenced"}, "RolledBack", TRUE, target_writer)

Fail == phase' = "FailedClosed" /\ source_writer' = FALSE /\ target_writer' = FALSE

AuthorityNext ==
    \/ FenceSource \/ BeginCopy \/ VerifyCopy \/ ActivateTarget \/ FenceTarget
    \/ Rollback \/ Fail

AuthoritySpec == New /\ [][AuthorityNext]_authorityVars
=============================================================================
