--------------------------- MODULE MCAnalysisPath ---------------------------
(* A small instance of AnalysisPath.  The settings are the face module with *)
(* everything on, with the debug frames off, and that with a schema version *)
(* that is blank; the boxes reach up to the edge of the frame, or over it   *)
(* so far that they are cut below the side that the gate asks for or are    *)
(* dropped.  The left edges are ten apart: in a frame of 24, the smoothed   *)
(* left edge and the smoothed side then are both a half to be rounded.      *)
EXTENDS AnalysisPath

MCSettings ==
    {[debug |-> TRUE, behavior |-> TRUE, no_face |-> TRUE, version |-> "v1"],
     [debug |-> FALSE, behavior |-> TRUE, no_face |-> TRUE, version |-> "v1"],
     [debug |-> FALSE, behavior |-> TRUE, no_face |-> FALSE,
      version |-> "blank"]}

MCLefts == {4, 14}

(* orchestrator.py: sanitize_report_shape fills what a remote report leaves *)
(* out, and _is_report_substantial must not take the filling for content:   *)
(* whatever object the service answers with, it hides the local report only *)
(* if it says something itself.                                             *)
Silent(raw) ==
    /\ raw.summary \in {"missing", "report generated"}
    /\ raw.counts # "some" /\ raw.people # "heard" /\ raw.fusion # "windows"

ASSUME SilentRemoteFallsBack ==
    \A raw \in Replies : raw.form = "object" =>
        ((report_source(raw) = "local_fallback") <=> Silent(raw))
=============================================================================
