------------------------- MODULE MCPlyImportOptions -------------------------
(* Up to three Gaussians, each above, at or below the threshold, at every  *)
(* source degree and every requested degree.                               *)
EXTENDS PlyImportOptions

MCOpacity == 0 .. 2
=============================================================================
