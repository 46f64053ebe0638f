----------------------------- MODULE MCModuleFiles -----------------------------
(* Two names; buffers smaller than any module; a file written over that ends *)
(* before, in or behind a module's last block.                               *)
EXTENDS ModuleFiles

SomeModifiers == {5}
SomeStale == {0, 32}

===============================================================================
