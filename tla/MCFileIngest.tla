---------------------------- MODULE MCFileIngest ----------------------------
EXTENDS FileIngest
=============================================================================
