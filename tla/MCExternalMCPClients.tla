------------------------ MODULE MCExternalMCPClients ------------------------
(* ExternalMCPClients with one request of any kind.                          *)
EXTENDS ExternalMCPClients

CONSTANT r1
=============================================================================
