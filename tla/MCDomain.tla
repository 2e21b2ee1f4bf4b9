------------------------------ MODULE MCDomain ------------------------------
(***************************************************************************)
(* DomainVerification for TLC.                                             *)
(***************************************************************************)
EXTENDS DomainVerification, TLC
=============================================================================
