------------------------ MODULE MCRenderAssetUpdate ------------------------
(* An instance of RenderAssetUpdate: one mip to stream in. *)
EXTENDS RenderAssetUpdate

CONSTANT mip

OneMip == {mip}
=============================================================================
