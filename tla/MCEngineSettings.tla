--------------------------- MODULE MCEngineSettings ---------------------------
(***************************************************************************)
(* EngineSettings for TLC, with the assumptions about what is shown of the *)
(* engine and its models and about the login items of the settings page.   *)
(***************************************************************************)
EXTENDS EngineSettings, MCSpeechStatus, MCLoginItems
===============================================================================
