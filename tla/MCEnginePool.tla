---------------------------- MODULE MCEnginePool ----------------------------
EXTENDS EnginePool, TLC
=============================================================================
