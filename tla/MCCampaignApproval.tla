------------------------ MODULE MCCampaignApproval ------------------------
(* Small instances of CampaignApproval.                                     *)
EXTENDS CampaignApproval, TLC

CONSTANTS e1, e2
=============================================================================
