--------------------------- MODULE MCFileTransfer ---------------------------
EXTENDS FileTransfer, TLC
=============================================================================
