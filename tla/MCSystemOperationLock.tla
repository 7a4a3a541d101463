----------------------- MODULE MCSystemOperationLock -----------------------
(* SystemOperationLock on small constants; "update" is retried under its own id. *)
EXTENDS SystemOperationLock

CONSTANTS update, retry, rollback, updateId, rollbackId

MCOpId == [o \in Ops |-> IF o = rollback THEN rollbackId ELSE updateId]
MCBodies == {"released"}
=============================================================================
