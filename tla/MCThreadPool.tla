---------------------------- MODULE MCThreadPool -----------------------------
EXTENDS ThreadPool, TLC
CONSTANTS main, other
MCClients == {main, other}
=============================================================================
