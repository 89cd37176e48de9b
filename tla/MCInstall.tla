------------------------------ MODULE MCInstall ------------------------------
(* A small instance of the installer for TLC.                              *)
EXTENDS Install

CONSTANTS i1, i2
=============================================================================
