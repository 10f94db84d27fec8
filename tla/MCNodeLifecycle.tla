---------------------------- MODULE MCNodeLifecycle ----------------------------
EXTENDS NodeLifecycle

Three == {"n1", "n2", "n3"}
===============================================================================
