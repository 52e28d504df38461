----------------------------- MODULE MCTcpServer -----------------------------
EXTENDS TcpServer
===============================================================================
