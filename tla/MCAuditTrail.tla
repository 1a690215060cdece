----------------------------- MODULE MCAuditTrail -----------------------------
(***************************************************************************)
(* A small instance of AuditTrail for TLC: a workspace that stays and a    *)
(* demo workspace that is created and expires.                             *)
(***************************************************************************)
EXTENDS AuditTrail

CONSTANTS tenant, demo

OneTenant == {tenant}

OneDemo == {demo}
===============================================================================
