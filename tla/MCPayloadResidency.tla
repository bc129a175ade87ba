------------------------ MODULE MCPayloadResidency -------------------------
(* Two payloads: the mesh of the first is larger than what is expected of  *)
(* it, the second is animated.                                             *)
EXTENDS PayloadResidency

MCGeometry == <<1, 1>>
MCAnimation == <<1, 1>>
MCDecoded == <<2, 1>>
MCAnimated == {2}

MCCameras == {{}, {1}, {1, 2}}
MCSelections == {{}, {2}}
=============================================================================
