--------------------------- MODULE MCClipboardPaste ---------------------------
(***************************************************************************)
(* ClipboardPaste for TLC, with the assumptions about the texts that are   *)
(* pasted.                                                                 *)
(***************************************************************************)
EXTENDS ClipboardPaste, MCTextPipeline
===============================================================================
