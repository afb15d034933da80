---------------------------- MODULE MCFileTransfer ----------------------------
(* Instances of FileTransfer for TLC.                                        *)
EXTENDS FileRefinement

\* StatFile takes the steps of Mutate and changes nothing.
CoreOps   == FileOps \ {"StatFile"}
UploadOps == {"UploadFile"}
=============================================================================
