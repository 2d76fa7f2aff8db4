---------------------------- MODULE MCRequestHandler ----------------------------
EXTENDS RequestHandler

CONSTANTS p1, p2

MCPaths == {p1, p2}
MCClients == {"patient", "hasty"}
MCPatient == {"patient"}
=================================================================================
