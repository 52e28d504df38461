---------------------------- MODULE MCConnection ----------------------------
EXTENDS Connection
===============================================================================
