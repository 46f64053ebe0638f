-------------------------- MODULE MCVirtualThreads --------------------------
(* Two groups and four functions that Schedule treats differently.          *)
EXTENDS VirtualThreads

CONSTANTS g1, g2, f1, f2, f3, f4

KindOf == [f \in {f1, f2, f3, f4} |->
             IF f = f1 THEN "pure" ELSE IF f = f2 THEN "tiny"
             ELSE IF f = f3 THEN "large" ELSE "native"]

\* Below MIN_THREADS, between, and at MAX_CONCURRENT_THREADS.
OtherThreadCounts == {1, 3, 5}
=============================================================================
