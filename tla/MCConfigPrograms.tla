-------------------------- MODULE MCConfigPrograms --------------------------
(* TLC instance of ConfigPrograms: two types of IMU, the second one fitted.  *)
EXTENDS ConfigPrograms
=============================================================================
