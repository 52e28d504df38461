---------------------------- MODULE MCAsyncLogging ----------------------------
EXTENDS AsyncLogging
===============================================================================
