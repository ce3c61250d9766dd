---------------------------- MODULE MCDeployment ----------------------------
(* Two deployers and two versions, the second of which brings a new key    *)
(* pair; the two ISOs are optional and left out.                           *)
EXTENDS Deployment

SwitchAtTwo  == <<"first", "second">>
TwoArtifacts == <<"bundle", "manual">>
=============================================================================
