------------------------ MODULE MCCastTelemetryWriter ------------------------
(* Two client threads, the controller's and an encoder's, for TLC.           *)
EXTENDS CastTelemetryWriter
CONSTANTS controller, encoder, owner, writer
MCClients == {controller, encoder}
===============================================================================
