------------------------------ MODULE MCDurable ------------------------------
(***************************************************************************)
(* One store on two machines: on the first its process is killed and its   *)
(* calls fail, on the second the power goes.  A behaviour runs on one.     *)
(***************************************************************************)
EXTENDS MCDurableService

VARIABLE machine

P == INSTANCE DurableService WITH Faults <- {"power"}, MaxBackups <- 0

MCInit == machine \in {"process", "power"} /\ Init

MCNext ==
  \/ machine = "process" /\ Next /\ UNCHANGED machine
  \/ machine = "power" /\ P!Next /\ UNCHANGED machine

MCSpec ==
  /\ MCInit /\ [][MCNext]_<<machine, vars>>
  /\ WF_<<machine, vars>>(Progress /\ UNCHANGED machine)

\* On either machine the files, the journal and the recovery together implement
\* the request store; a loss of power alone may take back what nobody was told, for
\* a machine whose power goes has synchronised what it reported (atomic_write,
\* append_journal_frame, recover).
ImplementsStore ==
  /\ IF machine = "process" THEN Abstract!Init ELSE P!Abstract!Init
  /\ [][IF machine = "process" THEN [Abstract!Next]_(Abstract!vars)
        ELSE [P!Abstract!Next]_(P!Abstract!vars)]_<<machine, vars>>
  /\ [](machine = "power" => SyncedBeforeReported)
=============================================================================
