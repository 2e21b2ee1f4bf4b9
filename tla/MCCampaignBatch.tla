-------------------------- MODULE MCCampaignBatch --------------------------
(***************************************************************************)
(* CampaignBatch for TLC.  The slots are interchangeable; contacts are not *)
(* (ids are ordered).                                                      *)
(***************************************************************************)
EXTENDS CampaignBatch, TLC

Interchangeable == Permutations(Workers)
=============================================================================
