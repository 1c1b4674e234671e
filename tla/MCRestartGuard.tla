--------------------------- MODULE MCRestartGuard ---------------------------
EXTENDS RestartGuard
====
