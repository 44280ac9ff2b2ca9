---------------------------- MODULE MCWorkspaces ----------------------------
(* Small instance of Workspaces for TLC.                                   *)
EXTENDS Workspaces

CONSTANTS w1, w2, j1, j2
=============================================================================
