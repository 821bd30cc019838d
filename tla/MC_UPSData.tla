---------------------------- MODULE MC_UPSData ----------------------------
(* The evaluation of the real ups_data.js: its 552 row literals and the   *)
(* commas between them.                                                   *)
EXTENDS ScriptEval, UPSTable

\* The arrays the row literals of the file denote.
MCRow == { UPSDataLiteral[i] : i \in DOMAIN UPSDataLiteral }
=============================================================================
