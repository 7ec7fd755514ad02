-------------------------- MODULE MCDurableService --------------------------
(***************************************************************************)
(* Small instances of DurableService.  Two keys write one resource, so the *)
(* order of commits shows in the contents; a binding that reuses a key is  *)
(* the conflicting retry; a delete and a put meet on the resource.         *)
(***************************************************************************)
EXTENDS DurableInvariant

CONSTANTS k1, k2, r1, r2, v1, v2

MCResources == {r1, r2}

\* k1 puts, k2 deletes the same resource, and k1 is reused for another value.
MCRequests == {[key |-> k1, res |-> r1, val |-> v1],
               [key |-> k2, res |-> r1, val |-> Absent],
               [key |-> k1, res |-> r2, val |-> v2]}
=============================================================================
