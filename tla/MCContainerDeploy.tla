-------------------------- MODULE MCContainerDeploy --------------------------
(***************************************************************************)
(* Model-checking instance of ContainerDeploy.                             *)
(***************************************************************************)
EXTENDS ContainerDeploy
=============================================================================
