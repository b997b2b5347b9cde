---------------------------- MODULE MCConfigStore ----------------------------
EXTENDS ConfigStore
=============================================================================
