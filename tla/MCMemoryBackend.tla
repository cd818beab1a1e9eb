-------------------------- MODULE MCMemoryBackend --------------------------
(* Small instance of MemoryBackend: a three-level tree and two clients. *)
EXTENDS MemoryBackend

CONSTANTS a, b

MCPath  == {<< >>, <<a>>, <<a, a>>, <<a, b>>, <<a, a, b>>}
MCChunk == {<< >>, <<1>>, <<1, 1>>}
=============================================================================
