--------------------------- MODULE MCStorageCache ---------------------------
(* The instance of StorageCache with undo that TLC checks, given by the    *)
(* .cfg file.                                                              *)
EXTENDS StorageUndo
=============================================================================
