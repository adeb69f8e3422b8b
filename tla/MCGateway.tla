----------------------------- MODULE MCGateway -----------------------------
(* Joins switch off the face module and reports, or nothing.              *)
EXTENDS Gateway

AskedSets == {{}, {"face", "report"}}
=============================================================================
