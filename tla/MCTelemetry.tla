---------------------------- MODULE MCTelemetry ----------------------------
(***************************************************************************)
(* A small instance of the two halves of a telemetry sink's Process: what  *)
(* it makes of the events (Projections) and how the OTLP client sends the  *)
(* result (OtlpExport).  An export sees its batch and nothing else of the  *)
(* projection, so a behaviour follows one half while the other rests.      *)
(***************************************************************************)
EXTENDS Projections, OtlpExport

AllClasses == {"trace", "log", "analytics"}
OneRun == {1}
OneJob == {7}
SomeConclusions == {"failure"}
SomeWaits == {0, 1, 3, 5}
SomeDeadlines == 0..9

VARIABLE half   \* project or export

NothingProjected == ProjectionsInit /\ class = "trace"

NothingExported == Init /\ protocol = "grpc" /\ empty /\ ~bounded

TelemetryInit ==
    \/ half = "project" /\ ProjectionsInit /\ NothingExported
    \/ half = "export" /\ Init /\ NothingProjected

\* The bounds on what GitHub sends let the projection come to rest.
Projecting ==
    /\ half = "project"
    /\ ProjectionsNext \/ UNCHANGED projectionVars
    /\ UNCHANGED <<half, vars>>

Exporting ==
    /\ half = "export"
    /\ Next
    /\ UNCHANGED <<half, projectionVars>>

TelemetrySpec == TelemetryInit /\ [][Projecting \/ Exporting]_<<half, vars, projectionVars>>
=============================================================================
