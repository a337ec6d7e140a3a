---------------------------- MODULE MCRepCampaign ----------------------------
(* RepCampaign on two documents, one of them in EXPECTED_EMPTY.            *)
EXTENDS RepCampaign

TwoDocs == <<"d1", "d2">>
=============================================================================
