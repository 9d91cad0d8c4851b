---------------------------- MODULE MCProjection ----------------------------
(* The instance of Projection that TLC checks. *)
EXTENDS Projection

\* An alert that explains a status.
SomeAlerts == {Key("input-required")}

\* After its process a session has one event less.
Bounded == process = "exited" => events < MaxEvents

=============================================================================
