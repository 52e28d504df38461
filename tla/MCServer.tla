------------------------------- MODULE MCServer -------------------------------
EXTENDS Server
===============================================================================
