------------------------------ MODULE MCEventLoop ------------------------------
EXTENDS EventLoop
===============================================================================
