----------------------- MODULE MCDeploymentMigration -----------------------
(* DeploymentMigration on small bounds; see the .cfg files.               *)
EXTENDS DeploymentMigration
=============================================================================
