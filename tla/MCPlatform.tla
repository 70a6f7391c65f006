----------------------------- MODULE MCPlatform -----------------------------
(* Platform with two workers and a server on one database.                 *)
EXTENDS Platform

CONSTANTS w1, w2, s1, shadow, unknown, a1

MCWorkers == {w1, w2}
MCServers == {s1}
MCKinds == {shadow, unknown}
MCHandled == {shadow}
MCAttempts == {1, 2}
MCArtifacts == {a1}
MCAsked == {"experimental", "production", "live"}
=============================================================================
