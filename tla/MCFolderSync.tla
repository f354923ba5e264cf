---------------------------- MODULE MCFolderSync ----------------------------
EXTENDS FolderSync
=============================================================================
