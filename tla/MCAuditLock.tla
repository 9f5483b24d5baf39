---------------------------- MODULE MCAuditLock ----------------------------
(* Small instances of AuditLock; every constant is given in the .cfg.      *)
EXTENDS AuditLock
============================================================================
