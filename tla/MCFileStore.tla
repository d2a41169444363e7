----------------------------- MODULE MCFileStore -----------------------------
(* FileSystem beside FileStore, for TLC. *)
EXTENDS MCFileSystem, FileSystemStore
===============================================================================
