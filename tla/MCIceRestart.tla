---- MODULE MCIceRestart ----
EXTENDS IceRestart
====
