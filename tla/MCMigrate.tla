----------------------------- MODULE MCMigrate ------------------------------
EXTENDS Migrate
Spec == MigrateSpec
=============================================================================
