----------------------------- MODULE MCMemTable -----------------------------
(*****************************************************************************)
(* Two processes that share a pool of four units.                            *)
(*****************************************************************************)
EXTENDS MemTable

TwoProcs == {0, 1}

\* A size that needs a split and the whole pool.
SomeSizes == {3, 4}

Names ==
  <<"client", "gotBlock", "PMalloc", "allocatingLoop", "allocatingPostGrab",
    "merge", "mLoop", "retPMem", "findFreeEntry", "ffeLoop", "ffePostGrab",
    "makeLeftovers", "tryGrab", "release", "PMfree", "freeLoop",
    "freePostLoop">>
=============================================================================
