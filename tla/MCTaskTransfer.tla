---------------------------- MODULE MCTaskTransfer ----------------------------
EXTENDS TaskTransfer
===============================================================================
